------------------------------- MODULE AuthFlows -------------------------------
(* Registration, sign-in, the second factor and the security settings as one     *)
(* browser tab drives them, for one account. A request is sent, handled by the   *)
(* API and answered in three steps, so the visitor may move on, reload or close  *)
(* a dialog while it is under way, and answers may overtake one another. What the *)
(* API does is Better Auth, a library, with the options of lib/auth.ts.          *)
EXTENDS Integers, FiniteSets

CONSTANTS
  Cooldown,        \* ticks before a code can be sent again
  MaxTick,         \* bound on the clock
  MaxCalls,        \* bound on the requests under way in the tab
  MaxGenerations   \* bound on the sets of backup codes

ASSUME AuthFlowsAssumption ==
  /\ Cooldown \in Nat \ {0} /\ MaxTick \in Nat \ {0} /\ MaxCalls \in Nat
  /\ MaxGenerations \in Nat \ {0}

VARIABLES
  identity,        \* the account as the API holds it
  jar,             \* cookies of this browser
  stash,           \* sessionStorage of the tab
  tab,             \* the view on screen
  calls,           \* requests of the tab that are not answered
  tick,
  heardAt,         \* when the tab last heard that a resent code is on its way
  wanted           \* the page the visitor was sent away from to sign in

authVars == <<identity, jar, stash, tab, calls, tick, heardAt, wanted>>

Destinations == {"dashboard", "targets"}
AuthViews == {"signUp", "signIn", "verifyEmail", "forgotPassword", "resetLinkSent", "resetPassword", "twoFactor"}
Dialogs == {"enable", "disable", "regenerate"}
Enrolment == [step |-> "password", codes |-> 0]

\* A view as it mounts; the page of a signed-in visitor is view "app". `typed`
\* names the forms that hold what they need to be sent.
Mounted(view, dest) ==
  [view |-> view, dest |-> dest, endsAt |-> 0, typed |-> {}, dialog |-> "none", enrolment |-> Enrolment, shown |-> 0]

AuthInit ==
  /\ identity = [status |-> "none", factor |-> "off", codes |-> 0, token |-> FALSE]
  /\ jar = [session |-> FALSE, ticket |-> FALSE]
  /\ stash = [address |-> FALSE, endsAt |-> 0]
  /\ tab = Mounted("signUp", "dashboard")
  /\ calls = {} /\ tick = 1 /\ heardAt = 0 /\ wanted = "dashboard"

----------------------------------------------------------------------------
(* The tab: navigation and requests. *)

\* Mutant: the cooldown of a mounted view is over, whatever is stored.
EndOnMount_Forgotten == tick

\* Mutant: every mount puts another cooldown on top.
EndOnMount_Adds == (IF stash.endsAt > 0 THEN stash.endsAt ELSE tick) + Cooldown

\* useResendCooldown: the end of the cooldown as stored, or one that starts now.
EndOnMount == IF stash.endsAt > 0 THEN stash.endsAt ELSE tick + Cooldown

\* The confirmation view keeps the end of its cooldown in sessionStorage.
ShowIn(st, view, dest) ==
  LET confirming == view = "verifyEmail" /\ st.address IN
  /\ tab' = [Mounted(view, dest) EXCEPT !.endsAt = IF confirming THEN EndOnMount ELSE 0]
  /\ stash' = [st EXCEPT !.endsAt = IF confirming THEN EndOnMount ELSE @]

\* Requests of a view that is left still answer, to a component that is gone.
Away(cs) == {[c EXCEPT !.from = "away"] : c \in cs}

\* RequireAuth: a page without a session leads to the sign-in view and back.
Visit(p) ==
  /\ ShowIn(stash, IF jar.session THEN "app" ELSE "signIn", p) /\ wanted' = p
  /\ calls' = Away(calls)
  /\ UNCHANGED <<identity, jar, tick, heardAt>>

\* A link of a view. Only those that lead on from registration keep redirectTo.
FollowLink(view) ==
  /\ tab.view \in AuthViews /\ view # tab.view
  /\ LET dest == IF tab.view \in {"signUp", "resetPassword"} THEN tab.dest ELSE "dashboard"
     IN ShowIn(stash, view, dest) /\ wanted' = dest
  /\ calls' = Away(calls)
  /\ UNCHANGED <<identity, jar, tick, heardAt>>

\* After a reload nothing is heard of what was asked, but the API still handles it.
Lost(cs) == {[c EXCEPT !.from = "lost"] : c \in {d \in cs : d.outcome = "none"}}

\* A reload keeps the URL and sessionStorage.
ReloadTab ==
  /\ IF tab.view = "app" /\ ~jar.session THEN ShowIn(stash, "signIn", tab.dest) ELSE ShowIn(stash, tab.view, tab.dest)
  /\ wanted' = tab.dest
  /\ calls' = Lost(calls)
  /\ UNCHANGED <<identity, jar, tick, heardAt>>

\* isPending of the component that is mounted.
Busy(kinds) == \E c \in calls : c.kind \in kinds /\ c.from = "here"
BusyAnywhere(kinds) == \E c \in calls : c.kind \in kinds /\ c.from \in {"here", "away"}

Send(kind) ==
  /\ Cardinality(calls) < MaxCalls
  /\ calls' = calls \cup {[kind |-> kind, from |-> "here", outcome |-> "none", dest |-> tab.dest, codes |-> 0]}
  /\ UNCHANGED <<identity, jar, stash, tab, tick, heardAt, wanted>>

----------------------------------------------------------------------------
(* The forms: when their fields take input, and what they send. *)

SignUpFields == tab.view = "signUp" /\ ~BusyAnywhere({"signUp", "signIn"})
SignInFields == tab.view = "signIn" /\ ~BusyAnywhere({"signUp", "signIn"})
CodeField == tab.view = "verifyEmail" /\ stash.address /\ ~Busy({"confirm"})
ForgotFields == tab.view = "forgotPassword" /\ ~Busy({"forgot"})
ResetFields == tab.view = "resetPassword" /\ ~Busy({"reset"})

\* By an authenticator or a backup code.
FactorFields == tab.view = "twoFactor" /\ ~Busy({"factor"})

PasswordFields == tab.view = "app" /\ ~Busy({"change"})
EnrolmentFields ==
  tab.dialog = "enable" /\ tab.enrolment.step # "backupCodes" /\ ~Busy({"enable", "activate"})
DisableFields == tab.dialog = "disable" /\ ~Busy({"disable"})
RegenerateFields == tab.dialog = "regenerate" /\ tab.shown = 0 /\ ~Busy({"regenerate"})

TakesInput(form) ==
  \/ form = "view" /\ (SignUpFields \/ SignInFields \/ CodeField \/ ForgotFields \/ ResetFields \/ FactorFields)
  \/ form = "view" /\ tab.dialog = "none" /\ PasswordFields
  \/ form = "enable" /\ EnrolmentFields
  \/ form = "disable" /\ DisableFields
  \/ form = "regenerate" /\ RegenerateFields

TypeIn(form) ==
  /\ TakesInput(form) /\ form \notin tab.typed
  /\ tab' = [tab EXCEPT !.typed = @ \cup {form}]
  /\ UNCHANGED <<identity, jar, stash, calls, tick, heardAt, wanted>>

\* AuthFormRoot: valid fields, and not while what was submitted is under way.
Submits(form, fields, kind) == fields /\ form \in tab.typed /\ Send(kind)

SubmitSignUp == Submits("view", SignUpFields, "signUp")
SubmitSignIn == Submits("view", SignInFields, "signIn")

\* The code of six digits, sent as its last digit is typed or by the button.
SubmitConfirmation == Submits("view", CodeField, "confirm")
SubmitForgot == Submits("view", ForgotFields, "forgot")

\* The mailed link: a reset starts from a token in the URL.
SubmitReset == Submits("view", ResetFields, "reset")
SubmitFactor == Submits("view", FactorFields, "factor")
SubmitPasswordChange == tab.dialog = "none" /\ Submits("view", PasswordFields, "change")

CanResend == tab.view = "verifyEmail" /\ tab.endsAt > 0 /\ tick >= tab.endsAt

PressResend == CanResend /\ ~Busy({"resend"}) /\ Send("resend")

\* The security settings: turning the second factor on, or off and the codes anew.
OpenDialog(d) ==
  /\ tab.view = "app" /\ tab.dialog = "none"
  /\ IF identity.factor = "on" THEN d \in {"disable", "regenerate"} ELSE d = "enable"
  /\ tab' = [tab EXCEPT !.dialog = d]
  /\ UNCHANGED <<identity, jar, stash, calls, tick, heardAt, wanted>>

SubmitEnrolment ==
  \/ tab.enrolment.step = "password" /\ Submits("enable", EnrolmentFields, "enable")
  \/ tab.enrolment.step = "verify" /\ Submits("enable", EnrolmentFields, "activate")
SubmitDisable == Submits("disable", DisableFields, "disable")
SubmitRegenerate == Submits("regenerate", RegenerateFields, "regenerate")

\* Mutant: the codes stay behind the closed dialog.
CloseDialog_KeepsCodes ==
  /\ tab.dialog # "none" /\ tab' = [tab EXCEPT !.dialog = "none"]
  /\ UNCHANGED <<identity, jar, stash, calls, tick, heardAt, wanted>>

\* Escape, a click beside the dialog, Cancel or Done. The dialogs that showed codes
\* forget what they held (handleOpenChange); a request under way goes on.
CloseDialog ==
  /\ tab.dialog # "none"
  /\ tab' = [tab EXCEPT !.dialog = "none", !.typed = IF tab.dialog = "disable" THEN @ ELSE @ \ {tab.dialog},
                        !.enrolment = IF tab.dialog = "enable" THEN Enrolment ELSE @,
                        !.shown = IF tab.dialog = "regenerate" THEN 0 ELSE @]
  /\ calls' = {IF c.kind = tab.dialog /\ c.kind # "disable" /\ c.from = "here" THEN [c EXCEPT !.from = "reset"] ELSE c : c \in calls}
  /\ UNCHANGED <<identity, jar, stash, tick, heardAt, wanted>>

----------------------------------------------------------------------------
(* The API (external: Better Auth with the options of lib/auth.ts). *)

Refused(c) == [c EXCEPT !.outcome = "refused"]
Done(c, o) == [c EXCEPT !.outcome = o]
Fresh == identity.codes < MaxGenerations

\* Sign-up answers alike for an address that has an account.
HandleSignUp(c) ==
  /\ identity' = [identity EXCEPT !.status = IF @ = "none" THEN "unverified" ELSE @]
  /\ calls' = (calls \ {c}) \cup {Done(c, "ok")}
  /\ UNCHANGED jar

\* No session before the address is confirmed, nor before the second factor.
HandleSignIn(c) ==
  LET o == CASE identity.status = "none" -> "refused"
             [] identity.status = "unverified" -> "unverified"
             [] identity.factor = "on" -> "secondFactor"
             [] OTHER -> "ok"
  IN /\ jar' = [jar EXCEPT !.session = @ \/ o = "ok", !.ticket = @ \/ o = "secondFactor"]
     /\ calls' = (calls \ {c}) \cup {Done(c, o)}
     /\ UNCHANGED identity

HandleConfirmation(c) ==
  /\ identity.status # "none"
  /\ identity' = [identity EXCEPT !.status = "verified"]
  /\ calls' = (calls \ {c}) \cup {Done(c, "ok")}
  /\ UNCHANGED jar

HandleFactor(c) ==
  /\ IF jar.ticket
     THEN jar' = [jar EXCEPT !.session = TRUE, !.ticket = FALSE] /\ calls' = (calls \ {c}) \cup {Done(c, "ok")}
     ELSE calls' = (calls \ {c}) \cup {Refused(c)} /\ UNCHANGED jar
  /\ UNCHANGED identity

\* revokeSessionsOnPasswordReset: the token is spent and every session ends.
HandleReset(c) ==
  /\ identity.token
  /\ identity' = [identity EXCEPT !.token = FALSE]
  /\ jar' = [jar EXCEPT !.session = FALSE]
  /\ calls' = (calls \ {c}) \cup {Done(c, "ok")}

\* The API answers alike for an address that has no account.
HandleForgot(c) ==
  /\ identity' = [identity EXCEPT !.token = @ \/ identity.status # "none"]
  /\ calls' = (calls \ {c}) \cup {Done(c, "ok")}
  /\ UNCHANGED jar

\* Enrolling draws a secret and backup codes and replaces those before; only
\* the code of the authenticator turns the second factor on.
HandleEnable(c) ==
  /\ Fresh /\ jar.session /\ identity.factor # "on"
  /\ identity' = [identity EXCEPT !.codes = @ + 1, !.factor = "pending"]
  /\ calls' = (calls \ {c}) \cup {[Done(c, "ok") EXCEPT !.codes = identity.codes + 1]}
  /\ UNCHANGED jar

HandleRegenerate(c) ==
  /\ Fresh /\ jar.session /\ identity.factor = "on"
  /\ identity' = [identity EXCEPT !.codes = @ + 1]
  /\ calls' = (calls \ {c}) \cup {[Done(c, "ok") EXCEPT !.codes = identity.codes + 1]}
  /\ UNCHANGED jar

HandleDisable(c) ==
  /\ jar.session
  /\ identity' = [identity EXCEPT !.factor = "off"]
  /\ calls' = (calls \ {c}) \cup {Done(c, "ok")}
  /\ UNCHANGED jar

HandleActivate(c) ==
  /\ jar.session /\ identity.factor = "pending"
  /\ identity' = [identity EXCEPT !.factor = "on"]
  /\ calls' = (calls \ {c}) \cup {Done(c, "ok")}
  /\ UNCHANGED jar

Handle(c) ==
  /\ c.outcome = "none"
  /\ \/ c.kind = "signUp" /\ HandleSignUp(c)
     \/ c.kind = "signIn" /\ HandleSignIn(c)
     \/ c.kind = "confirm" /\ HandleConfirmation(c)
     \/ c.kind = "factor" /\ HandleFactor(c)
     \/ c.kind = "reset" /\ HandleReset(c)
     \/ c.kind = "forgot" /\ HandleForgot(c)
     \/ c.kind = "enable" /\ HandleEnable(c)
     \/ c.kind = "activate" /\ HandleActivate(c)
     \/ c.kind = "disable" /\ HandleDisable(c)
     \/ c.kind = "regenerate" /\ HandleRegenerate(c)
     \/ c.kind \in {"resend", "change"} /\ calls' = (calls \ {c}) \cup {Done(c, "ok")} /\ UNCHANGED <<identity, jar>>
     \/ calls' = (calls \ {c}) \cup {Refused(c)} /\ UNCHANGED <<identity, jar>>
  /\ UNCHANGED <<stash, tab, tick, heardAt, wanted>>

\* The link that was mailed loads the tab anew.
OpenResetLink ==
  /\ identity.token
  /\ ShowIn(stash, "resetPassword", "dashboard") /\ wanted' = "dashboard"
  /\ calls' = Lost(calls)
  /\ UNCHANGED <<identity, jar, tick, heardAt>>

----------------------------------------------------------------------------
(* Answers. The callbacks of a request run also when its view is gone; what they *)
(* set there changes nothing, but they navigate.                                 *)

Forget(c) == calls \ {c}
LeaveFor(c, st, view, dest) ==
  ShowIn(st, view, dest) /\ calls' = Away(Forget(c)) /\ UNCHANGED heardAt

\* Mutant: the challenge is not told where the visitor was going.
ContinueSignIn_DropsDestination(c) ==
  IF c.outcome = "secondFactor" THEN LeaveFor(c, stash, "twoFactor", "dashboard")
  ELSE LeaveFor(c, stash, "app", c.dest)

\* useSignInContinuation: the second factor, or the page that was asked for.
ContinueSignIn(c) ==
  IF c.outcome = "secondFactor" THEN LeaveFor(c, stash, "twoFactor", c.dest)
  ELSE LeaveFor(c, stash, "app", c.dest)

\* EMAIL_NOT_VERIFIED: a fresh code was sent; the destination is not kept.
AnswerSignIn(c) ==
  \/ c.outcome \in {"ok", "secondFactor"} /\ ContinueSignIn(c) /\ wanted' = c.dest
  \/ c.outcome = "unverified" /\ LeaveFor(c, [stash EXCEPT !.address = TRUE], "verifyEmail", "dashboard")
     /\ wanted' = "dashboard"

AnswerSignUp(c) ==
  /\ LeaveFor(c, [stash EXCEPT !.address = TRUE], "verifyEmail", c.dest) /\ wanted' = c.dest

\* onConfirmed: the address and its cooldown are forgotten.
AnswerConfirmation(c) ==
  /\ LeaveFor(c, [stash EXCEPT !.address = FALSE, !.endsAt = 0], "signIn", "dashboard")
  /\ wanted' = "dashboard"

AnswerFactor(c) ==
  /\ LeaveFor(c, stash, "app", c.dest)
  /\ UNCHANGED wanted

AnswerReset(c) == LeaveFor(c, stash, "signIn", c.dest) /\ wanted' = c.dest

\* startCooldown; the effect that stores the end runs while the view is mounted.
AnswerResend(c) ==
  /\ IF c.from = "here"
     THEN /\ tab' = [tab EXCEPT !.endsAt = tick + Cooldown]
          /\ stash' = [stash EXCEPT !.endsAt = tick + Cooldown]
          /\ heardAt' = tick
     ELSE UNCHANGED <<tab, stash, heardAt>>
  /\ calls' = Forget(c) /\ UNCHANGED wanted

AnswerForgot(c) == LeaveFor(c, stash, "resetLinkSent", "dashboard") /\ wanted' = "dashboard"

\* The dialogs stay mounted, open or not: an answer that comes after one was closed
\* is what it opens with.
AnswerDialog(c) ==
  /\ tab' = IF c.from = "away" THEN tab
            ELSE CASE c.kind = "enable" -> [tab EXCEPT !.enrolment = [step |-> "verify", codes |-> c.codes]]
                   [] c.kind = "activate" -> [tab EXCEPT !.enrolment.step = "backupCodes"]
                   [] c.kind = "disable" -> [tab EXCEPT !.dialog = IF @ = "disable" THEN "none" ELSE @]
                   [] c.kind = "regenerate" -> [tab EXCEPT !.shown = c.codes]
  /\ calls' = Forget(c) /\ UNCHANGED <<stash, heardAt, wanted>>

\* What was refused has to be typed again where it was a password or a code.
AnswerRefused(c) ==
  /\ tab' = CASE c.from = "here" /\ c.kind \in {"signUp", "signIn", "confirm", "factor"} -> [tab EXCEPT !.typed = @ \ {"view"}]
              [] c.from = "here" /\ c.kind = "activate" -> [tab EXCEPT !.typed = @ \ {"enable"}]
              [] OTHER -> tab
  /\ calls' = Forget(c) /\ UNCHANGED <<stash, heardAt, wanted>>

\* The form is emptied.
AnswerChange(c) ==
  /\ tab' = IF c.from = "here" THEN [tab EXCEPT !.typed = @ \ {"view"}] ELSE tab
  /\ calls' = Forget(c) /\ UNCHANGED <<stash, heardAt, wanted>>

Answered(c) ==
  /\ c.outcome # "none"
  /\ \/ c.outcome = "refused" /\ AnswerRefused(c)
     \/ c.from = "lost" /\ calls' = Forget(c) /\ UNCHANGED <<stash, tab, heardAt, wanted>>
     \/ /\ c.outcome # "refused" /\ c.from # "lost"
        /\ \/ c.kind = "signIn" /\ AnswerSignIn(c)
           \/ c.kind = "signUp" /\ AnswerSignUp(c)
           \/ c.kind = "confirm" /\ AnswerConfirmation(c)
           \/ c.kind = "factor" /\ AnswerFactor(c)
           \/ c.kind = "forgot" /\ AnswerForgot(c)
           \/ c.kind = "reset" /\ AnswerReset(c)
           \/ c.kind = "change" /\ AnswerChange(c)
           \/ c.kind = "resend" /\ AnswerResend(c)
           \/ c.kind \in {"enable", "activate", "disable", "regenerate"} /\ AnswerDialog(c)
  /\ UNCHANGED <<identity, jar, tick>>

\* SignOut: to the sign-in view, whatever the API answers.
SignOutTab ==
  /\ tab.view = "app" /\ jar' = [jar EXCEPT !.session = FALSE]
  /\ ShowIn(stash, "signIn", "dashboard") /\ wanted' = "dashboard"
  /\ calls' = Away(calls)
  /\ UNCHANGED <<identity, tick, heardAt>>

AuthTick ==
  /\ tick < MaxTick /\ tick' = tick + 1
  /\ UNCHANGED <<identity, jar, stash, tab, calls, heardAt, wanted>>

AuthNext ==
  \/ \E p \in Destinations : Visit(p)
  \/ \E v \in AuthViews \ {"twoFactor", "resetPassword", "resetLinkSent"} : FollowLink(v)
  \/ ReloadTab \/ \E f \in Dialogs \cup {"view"} : TypeIn(f)
  \/ SubmitSignUp \/ SubmitSignIn \/ SubmitConfirmation \/ PressResend \/ SubmitForgot \/ SubmitReset
  \/ SubmitFactor \/ SubmitPasswordChange \/ SubmitEnrolment \/ SubmitDisable \/ SubmitRegenerate
  \/ CloseDialog \/ \E d \in Dialogs : OpenDialog(d)
  \/ \E c \in calls : Handle(c) \/ Answered(c)
  \/ OpenResetLink \/ SignOutTab \/ AuthTick

AuthSpec == AuthInit /\ [][AuthNext]_authVars

----------------------------------------------------------------------------
(* Properties. *)

AuthTypeOK ==
  /\ identity.status \in {"none", "unverified", "verified"}
  /\ identity.factor \in {"off", "pending", "on"}
  /\ tab.view \in AuthViews \cup {"app"} /\ tab.dest \in Destinations
  /\ tab.dialog \in Dialogs \cup {"none"} /\ tab.enrolment.step \in {"password", "verify", "backupCodes"}
  /\ tab.typed \subseteq Dialogs \cup {"view"} /\ tab.shown \in 0..MaxGenerations
  /\ stash.address \in BOOLEAN /\ stash.endsAt \in 0..MaxTick + Cooldown
  /\ Cardinality(calls) <= MaxCalls /\ wanted \in Destinations

\* Reloading or leaving the confirmation view does not make the button forget a
\* code it was told is on its way: the next is asked for a cooldown later.
ResendsApart == (PressResend /\ heardAt > 0) => tick >= heardAt + Cooldown

\* A visitor sent to sign in who completes it in the view on screen, second factor
\* or not, lands on the page they asked for.
DestinationKept ==
  \A c \in calls : (Answered(c) /\ c.kind \in {"signIn", "factor"} /\ c.from = "here" /\ tab'.view = "app")
    => tab'.dest = wanted

\* The backup codes of an enrolment are those the API takes, and so are those of the
\* dialog that draws new ones, as long as it is open. (It may open with codes that came
\* after it was closed, which may be old; a dialog closed over a verification under way
\* and opened again shows none.)
Taken(codes) == codes = 0 \/ codes = identity.codes

CodesWork ==
  /\ Taken(tab.enrolment.codes)'
  /\ tab.dialog = "regenerate" /\ Taken(tab.shown) => Taken(tab.shown)'

\* What a visitor was promised survives reloads, detours and answers that overtake
\* one another, in every step (use-resend-cooldown.ts, use-sign-in-continuation.ts, the
\* dialogs of two-factor/).
JourneysKept == [][ResendsApart /\ DestinationKept /\ CodesWork]_authVars
===============================================================================
