---------------------------- MODULE StaffSession ----------------------------
(***************************************************************************)
(* Staff sign-in: lib/staff.ts, components/StaffShell.tsx, the staff and   *)
(* staff/login pages of apps/web/app, and services/staff with its second   *)
(* factor.  One employee works in several tabs of one browser, which share *)
(* the token in localStorage.                                              *)
(*                                                                         *)
(* A tab asks who is signed in when a workplace is entered, and from then  *)
(* on every call can find the session gone.  The statements of a sign-in,  *)
(* of the setup of one-time codes and of their switching on and off are    *)
(* steps of their own, because another tab's may come in between.          *)
(***************************************************************************)
EXTENDS Integers, Sequences, FiniteSets

CONSTANTS
    Tabs,
    Workplaces,     \* the applications of StaffShell (APPS)
    Granted,        \* those the employee's permissions open
    Switcher,       \* the staff page, where one chooses
    LockoutAfter,   \* wrong passwords that lock the account (8)
    MaxSignIns,     \* bound: sessions
    MaxSecrets,     \* bound: secrets issued
    MaxStep         \* bound: 30-second steps

ASSUME StaffConstants ==
    /\ IsFiniteSet(Tabs)
    /\ Granted \subseteq Workplaces /\ Switcher \notin Workplaces
    /\ LockoutAfter \in Nat \ {0} /\ MaxSignIns \in Nat /\ MaxSecrets \in Nat /\ MaxStep \in Nat

VARIABLES
    account,    \* the row of staff.staff_users
    spent,      \* staff.mfa_used
    signIn,     \* staff.sessions in the order of sign-in, each with the mfa_used row it made
    now,        \* the 30-second step
    token,      \* jatra.staff.token: a session, 0 when there is none
    tab,        \* tab[k]: what tab k shows
    req         \* req[k]: its request

staffVars == <<account, spent, signIn, now, token, tab, req>>

-----------------------------------------------------------------------------
Places == Workplaces \cup {Switcher}

\* Six digits: of a secret at a step, or of none (a typing error).
Digits == [secret : 0 .. MaxSecrets, step : 0 .. MaxStep]
NoCode == [secret |-> 0, step |-> -1]

NoReq    == [at |-> "idle"]
SignIn   == [at |-> "login", to |-> Switcher, needCode |-> FALSE, on |-> FALSE, setup |-> 0]
Call(what, held, code) == [at |-> "sent", what |-> what, held |-> held, code |-> code, step |-> 0,
                           sees |-> FALSE]
Asks(what) == Call(what, token, NoCode)

\* The type of the state.
StaffTypeOK ==
    /\ account \in [status : {"ACTIVE", "LOCKED"}, failed : 0 .. LockoutAfter, on : BOOLEAN,
                    secret : 0 .. MaxSecrets, minted : 0 .. MaxSecrets]
    /\ spent \subseteq Digits \X (0 .. MaxStep)
    /\ signIn \in Seq([live : BOOLEAN, code : Digits \cup {NoCode}, step : 0 .. MaxStep])
    /\ Len(signIn) <= MaxSignIns
    /\ now \in 0 .. MaxStep /\ token \in 0 .. Len(signIn)
    /\ tab \in [Tabs -> [at : {"login", "boot", "open", "denied"}, to : Places, needCode : BOOLEAN,
                         on : BOOLEAN, setup : 0 .. MaxSecrets]]
    /\ req \in [Tabs -> {NoReq} \cup
                 [at : {"sent", "factor", "burn", "open", "mint", "commit", "ok", "refused", "code", "no"},
                  what : {"me", "login", "logout", "setup", "enable", "disable"},
                  held : 0 .. MaxSignIns, code : Digits \cup {NoCode}, step : 0 .. MaxStep,
                  sees : BOOLEAN]]

\* Codes are off at first, or were switched on long ago.
StaffInit ==
    /\ \E s \in {0, MaxSecrets} :
         account = [status |-> "ACTIVE", failed |-> 0, on |-> s # 0, secret |-> s, minted |-> s]
    /\ spent = {} /\ signIn = <<>> /\ now = 0 /\ token = 0
    /\ tab = [k \in Tabs |-> SignIn] /\ req = [k \in Tabs |-> NoReq]

Waits(k, where, what) == req[k].at = where /\ req[k].what \in what
Goes(k, to)    == req' = [req EXCEPT ![k].at = to]
Finish(k, how) == req' = [req EXCEPT ![k] = [Call(@.what, 0, NoCode) EXCEPT !.at = how]]
Shows(k, t, r) == tab' = [tab EXCEPT ![k] = t] /\ req' = [req EXCEPT ![k] = r]

-----------------------------------------------------------------------------
\* services/staff

\* verifyTOTP: the code of this step or of one either side.
Fits(code, secret) ==
    /\ secret # 0 /\ code.secret = secret
    /\ code.step \in now - 1 .. now + 1

\* Authenticate: the session is live and its owner still active.
Known(g) == g # 0 /\ signIn[g].live /\ account.status = "ACTIVE"

\* guard answers 401 to any call without such a session.
Refuse(k) ==
    /\ Waits(k, "sent", {"me", "logout", "setup", "enable", "disable"})
    /\ ~ Known(req[k].held)
    /\ Finish(k, "refused")
    /\ UNCHANGED <<account, spent, signIn, now, token, tab>>

ServeMe(k) ==
    /\ Waits(k, "sent", {"me"}) /\ Known(req[k].held)
    /\ req' = [req EXCEPT ![k].at = "ok", ![k].held = 0, ![k].sees = account.on]
    /\ UNCHANGED <<account, spent, signIn, now, token, tab>>

ServeLogout(k) ==
    /\ Waits(k, "sent", {"logout"}) /\ Known(req[k].held)
    /\ signIn' = [signIn EXCEPT ![req[k].held].live = FALSE]
    /\ Finish(k, "ok")
    /\ UNCHANGED <<account, spent, now, token, tab>>

\* LoginWithCode: a wrong password counts, and at the limit locks the account.  Bound:
\* no further than the limit.
WrongPassword(k) ==
    /\ Waits(k, "sent", {"login"})
    /\ account' = IF account.failed + 1 < LockoutAfter
                  THEN [account EXCEPT !.failed = @ + 1]
                  ELSE [account EXCEPT !.failed = LockoutAfter, !.status = "LOCKED"]
    /\ Finish(k, "no")
    /\ UNCHANGED <<spent, signIn, now, token, tab>>

RightPassword(k) ==
    /\ Waits(k, "sent", {"login"})
    /\ IF account.status = "ACTIVE" THEN Goes(k, "factor") ELSE Finish(k, "no")
    /\ UNCHANGED <<account, spent, signIn, now, token, tab>>

\* checkSecondFactor: the flag, the secret and the digits ...
SecondFactor(k) ==
    /\ Waits(k, "factor", {"login"})
    /\ \/ ~ account.on /\ req' = [req EXCEPT ![k].at = "open", ![k].code = NoCode]
       \/ account.on /\ Fits(req[k].code, account.secret) /\ Goes(k, "burn")
       \/ account.on /\ ~ Fits(req[k].code, account.secret) /\ Finish(k, "code")
    /\ UNCHANGED <<account, spent, signIn, now, token, tab>>

Burnt(k) == req' = [req EXCEPT ![k].at = "open", ![k].step = now]

BurnAnyway(k) ==
    /\ Waits(k, "burn", {"login"})
    /\ spent' = spent \cup {<<req[k].code, now>>} /\ Burnt(k)
    /\ UNCHANGED <<account, signIn, now, token, tab>>

\* ... and the row of mfa_used, whose key holds the digits and the step of the moment.
Burn(k) ==
    /\ Waits(k, "burn", {"login"})
    /\ LET row == <<req[k].code, now>>
       IN  \/ row \in spent /\ Finish(k, "code") /\ UNCHANGED spent
           \/ row \notin spent /\ spent' = spent \cup {row} /\ Burnt(k)
    /\ UNCHANGED <<account, signIn, now, token, tab>>

\* The session is there even when the account was locked meanwhile and load refuses.
OpenSession(k) ==
    /\ Waits(k, "open", {"login"})
    /\ signIn' = Append(signIn, [live |-> TRUE, code |-> req[k].code, step |-> req[k].step])
    /\ account' = [account EXCEPT !.failed = 0]
    /\ IF account.status = "ACTIVE"
       THEN req' = [req EXCEPT ![k].at = "ok", ![k].held = Len(signIn'),
                               ![k].code = NoCode, ![k].step = 0]
       ELSE Finish(k, "no")
    /\ UNCHANGED <<spent, now, token, tab>>

\* BeginMFASetup reads the flag and then writes a new secret.
BeginSetup(k) ==
    /\ Waits(k, "sent", {"setup"}) /\ Known(req[k].held)
    /\ IF account.on THEN Finish(k, "no") ELSE Goes(k, "mint")
    /\ UNCHANGED <<account, spent, signIn, now, token, tab>>

WriteSecret(k) ==
    /\ Waits(k, "mint", {"setup"})
    /\ account' = [account EXCEPT !.secret = account.minted + 1, !.minted = @ + 1]
    /\ req' = [req EXCEPT ![k].at = "ok", ![k].held = 0, ![k].code = [secret |-> account'.secret, step |-> 0]]
    /\ UNCHANGED <<spent, signIn, now, token, tab>>

\* EnableMFA and DisableMFA read the secret, check a code and then write.
CheckCode(k) ==
    /\ Waits(k, "sent", {"enable", "disable"}) /\ Known(req[k].held)
    /\ IF Fits(req[k].code, account.secret) THEN Goes(k, "commit") ELSE Finish(k, "no")
    /\ UNCHANGED <<account, spent, signIn, now, token, tab>>

SwitchOn(k) ==
    /\ Waits(k, "commit", {"enable"})
    /\ account' = [account EXCEPT !.on = TRUE]
    /\ Finish(k, "ok")
    /\ UNCHANGED <<spent, signIn, now, token, tab>>

SwitchOff(k) ==
    /\ Waits(k, "commit", {"disable"})
    /\ account' = [account EXCEPT !.on = FALSE, !.secret = 0]
    /\ Finish(k, "ok")
    /\ UNCHANGED <<spent, signIn, now, token, tab>>

\* sessionTTL is over.
SessionEnds(g) ==
    /\ signIn[g].live
    /\ signIn' = [signIn EXCEPT ![g].live = FALSE]
    /\ UNCHANGED <<account, spent, now, token, tab, req>>

Tick ==
    /\ now < MaxStep
    /\ now' = now + 1
    /\ UNCHANGED <<account, spent, signIn, token, tab, req>>

-----------------------------------------------------------------------------
\* The browser.

AtRest(k) == req[k] = NoReq

\* bound: sign-ins and setups are only begun while there is room for what they create
Out(what) == Cardinality({k \in Tabs : req[k] # NoReq /\ req[k].what = what})

At(place) == [SignIn EXCEPT !.at = "boot", !.to = place]

\* The shell of a workplace, or the switcher, is mounted.
Enter(k, place) ==
    /\ AtRest(k)
    /\ IF token = 0 THEN Shows(k, [SignIn EXCEPT !.to = place], NoReq)
                    ELSE Shows(k, At(place), Asks("me"))
    /\ UNCHANGED <<account, spent, signIn, now, token>>

\* opensFor, and the same test in the shell
Opens(place) == place \in Granted \cup {Switcher}

Entered(k) ==
    /\ Waits(k, "ok", {"me"})
    /\ Shows(k, [tab[k] EXCEPT !.at = IF Opens(tab[k].to) THEN "open" ELSE "denied",
                               !.on = req[k].sees /\ tab[k].to = Switcher], NoReq)
    /\ UNCHANGED <<account, spent, signIn, now, token>>

\* staffCall, on a 401: the token goes, whoever has put it there by now, and with it
\* the page.
SentAway(k) ==
    /\ Waits(k, "refused", {"me", "setup", "enable", "disable"})
    /\ token' = 0
    /\ Shows(k, [SignIn EXCEPT !.to = tab[k].to], NoReq)
    /\ UNCHANGED <<account, spent, signIn, now>>

\* The service cannot be reached: a page that was being opened gives way to sign-in.
Unreachable(k) ==
    /\ req[k].at \in {"sent", "ok"} /\ req[k].what # "logout"
    /\ Shows(k, IF tab[k].at = "boot" THEN [SignIn EXCEPT !.to = tab[k].to] ELSE tab[k], NoReq)
    /\ UNCHANGED <<account, spent, signIn, now, token>>

\* The digits an authenticator shows or has shown, or a typing error.
Typed == {[secret |-> 0, step |-> 0]} \cup [secret : 1 .. account.minted, step : 0 .. now]

\* The sign-in form, with the code field once the server has asked for one.
Submit(k) ==
    /\ tab[k].at = "login" /\ AtRest(k) /\ Len(signIn) + Out("login") < MaxSignIns
    /\ \E code \in IF tab[k].needCode THEN Typed ELSE {NoCode} :
         req' = [req EXCEPT ![k] = Call("login", 0, code)]
    /\ UNCHANGED <<account, spent, signIn, now, token, tab>>

SignedInAs(k) ==
    /\ Waits(k, "ok", {"login"})
    /\ token' = req[k].held
    /\ Shows(k, At(tab[k].to), Call("me", token', NoCode))
    /\ UNCHANGED <<account, spent, signIn, now>>

\* mfa_required, mfa_invalid and mfa_replayed bring the code field.
AskedForCode(k) ==
    /\ Waits(k, "code", {"login"})
    /\ Shows(k, [tab[k] EXCEPT !.needCode = TRUE], NoReq)
    /\ UNCHANGED <<account, spent, signIn, now, token>>

\* Any other refusal is a message.
Told(k) ==
    /\ req[k].at = "no"
    /\ Shows(k, tab[k], NoReq)
    /\ UNCHANGED <<account, spent, signIn, now, token>>

\* Sign out, in the rail and on the switcher.
SignOut(k) ==
    /\ tab[k].at = "open" /\ AtRest(k)
    /\ req' = [req EXCEPT ![k] = Asks("logout")]
    /\ UNCHANGED <<account, spent, signIn, now, token, tab>>

\* The token goes either way, and also when the call was lost.
StaffSignedOut(k) ==
    /\ req[k].at \in {"sent", "ok", "refused"} /\ req[k].what = "logout"
    /\ token' = 0
    /\ Shows(k, SignIn, NoReq)
    /\ UNCHANGED <<account, spent, signIn, now>>

\* TwoFactor, by what the page was told when it was opened.
OnSwitcher(k) == tab[k].at = "open" /\ tab[k].to = Switcher /\ AtRest(k)

SetUp(k) ==
    /\ OnSwitcher(k) /\ ~ tab[k].on /\ tab[k].setup = 0
    /\ account.minted + Out("setup") < MaxSecrets
    /\ req' = [req EXCEPT ![k] = Asks("setup")]
    /\ UNCHANGED <<account, spent, signIn, now, token, tab>>

SecretShown(k) ==
    /\ Waits(k, "ok", {"setup"})
    /\ Shows(k, [tab[k] EXCEPT !.setup = req[k].code.secret], NoReq)
    /\ UNCHANGED <<account, spent, signIn, now, token>>

TurnOn(k, code) ==
    /\ OnSwitcher(k) /\ ~ tab[k].on /\ tab[k].setup # 0
    /\ req' = [req EXCEPT ![k] = Call("enable", token, code)]
    /\ UNCHANGED <<account, spent, signIn, now, token, tab>>

TurnOff(k, code) ==
    /\ OnSwitcher(k) /\ tab[k].on
    /\ req' = [req EXCEPT ![k] = Call("disable", token, code)]
    /\ UNCHANGED <<account, spent, signIn, now, token, tab>>

\* Done: the page asks again who is signed in.
Turned(k) ==
    /\ Waits(k, "ok", {"enable", "disable"})
    /\ Shows(k, [tab[k] EXCEPT !.setup = IF req[k].what = "enable" THEN 0 ELSE @], Asks("me"))
    /\ UNCHANGED <<account, spent, signIn, now, token>>

-----------------------------------------------------------------------------
StaffServes(k) ==
    \/ Refuse(k) \/ ServeMe(k) \/ ServeLogout(k) \/ WrongPassword(k) \/ RightPassword(k)
    \/ SecondFactor(k) \/ Burn(k) \/ OpenSession(k) \/ BeginSetup(k) \/ WriteSecret(k)
    \/ CheckCode(k) \/ SwitchOn(k) \/ SwitchOff(k)

StaffAnswers(k) ==
    \/ Entered(k) \/ SentAway(k) \/ Unreachable(k) \/ SignedInAs(k) \/ AskedForCode(k)
    \/ Told(k) \/ StaffSignedOut(k) \/ SecretShown(k) \/ Turned(k)

StaffNext ==
    \/ \E k \in Tabs : \/ StaffServes(k) \/ StaffAnswers(k) \/ Submit(k) \/ SignOut(k) \/ SetUp(k)
                       \/ \E place \in Places : Enter(k, place)
                       \/ \E code \in Typed : TurnOn(k, code) \/ TurnOff(k, code)
    \/ \E g \in DOMAIN signIn : SessionEnds(g)
    \/ Tick

StaffSpec == StaffInit /\ [][StaffNext]_staffVars

-----------------------------------------------------------------------------
\* Two sign-ins that race with the same six digits do not both succeed: sessions opened
\* with one code lie in different 30-second steps (mfa.go, checkSecondFactor: "the
\* insert IS the check").  The statement is about the step because the row is: a code
\* is good for three steps, and may be used once in each.
OneSignInPerCode ==
    \A g, h \in DOMAIN signIn :
        g # h /\ signIn[g].code = signIn[h].code /\ signIn[g].code # NoCode
            => signIn[g].step # signIn[h].step

\* What staff/page.tsx says of it: "each code works once".
EachCodeWorksOnce ==
    \A g, h \in DOMAIN signIn : g # h /\ signIn[g].code = signIn[h].code => signIn[g].code = NoCode

\* Nobody is locked out by codes that were switched on against another secret than the
\* one that is stored (mfa.go, BeginMFASetup): once codes are on, the secret is final.
SecretIsFinalOnceOn ==
    [][account.on /\ account'.on => account'.secret = account.secret]_staffVars
=============================================================================
