------------------------------ MODULE Session ------------------------------
(***************************************************************************)
(* A passenger signs in and stays signed in: lib/auth.ts, the login and    *)
(* account pages of apps/web/app on one device, and the tokens that        *)
(* services/identity keeps.  A grant is what one sign-in or one refresh    *)
(* inserts: an access token (identity.sessions) and the refresh token that *)
(* goes with it (identity.refresh_tokens).                                 *)
(*                                                                         *)
(* The calls of one load run side by side, and each of them may find the   *)
(* access token expired and refresh by itself.  Refresh is a SELECT, and   *)
(* then either a transaction that rotates the token or the two UPDATEs     *)
(* that revoke its family; an UPDATE waits for a row that a rotation has   *)
(* locked and does not see a row inserted after it began.                  *)
(***************************************************************************)
EXTENDS Naturals, Sequences, FiniteSets

CONSTANTS
    Loads,      \* the calls a load of the account page makes (five)
    Act,        \* the call of the button or form in use
    MaxGrants,  \* bound: grants issued in a behaviour
    MaxCodes,   \* bound: codes of a number that wait to be used
    MaxTries    \* wrong guesses a code survives (max_attempts)

ASSUME SessionConstants ==
    /\ MaxGrants \in Nat \ {0} /\ MaxCodes \in Nat /\ MaxTries \in Nat \ {0}
    /\ Act \notin Loads /\ IsFiniteSet(Loads)

VARIABLES
    grant,  \* the grants, in the order of issue
    code,   \* the wrong guesses at each open row of identity.otp_challenges, oldest first
    store,  \* the grant in localStorage, 0 when there is none
    page,   \* what the tab shows
    call    \* its requests

sessionVars == <<grant, code, store, page, call>>

-----------------------------------------------------------------------------
Calls == Loads \cup {Act}
Idle  == [at |-> "idle"]
Home  == [at |-> "home", stage |-> "phone", error |-> FALSE, waiting |-> FALSE]

Ask(what, with) ==
    [at |-> "sent", what |-> what, held |-> with, again |-> FALSE, rt |-> 0, rows |-> {}]

GrantType == [of : 0 .. MaxGrants, used : BOOLEAN, revoked : BOOLEAN, live : BOOLEAN]
CallType  ==
    [at : {"sent", "done", "refused", "looking", "claim", "claimed", "issued", "condemn",
           "revoking", "sessions", "everywhere", "denied", "failed", "broken"},
     what : {"load", "save", "logout", "everywhere", "ask", "verify", "password"},
     held : (0 .. MaxGrants) \cup (0 .. MaxCodes), again : BOOLEAN, rt : 0 .. MaxGrants,
     rows : SUBSET (1 .. MaxGrants)]

\* The type of the state.
SessionTypeOK ==
    /\ grant \in Seq(GrantType) /\ Len(grant) <= MaxGrants
    /\ code \in Seq(0 .. MaxTries) /\ Len(code) <= MaxCodes
    /\ store \in 0 .. Len(grant)
    /\ page \in [at : {"home", "login", "loading", "account", "signin"},
                 stage : {"phone", "code", "password"}, error : BOOLEAN, waiting : BOOLEAN]
    /\ call \in [Calls -> CallType \cup {Idle}]

SessionInit ==
    /\ grant = <<>> /\ code = <<>> /\ store = 0
    /\ page = Home /\ call = [c \in Calls |-> Idle]

Put(c, r)     == call' = [call EXCEPT ![c] = r]
Moves(c, to)  == Put(c, [call[c] EXCEPT !.at = to])

\* Nobody hears the end of a call when the load it belongs to has been decided.
Ends(c, how)  == Put(c, IF c # Act /\ ~ page.waiting THEN Idle
                        ELSE [Ask(call[c].what, 0) EXCEPT !.at = how])
In(c, where)  == call[c].at \in where

\* ... or when its page has been left.
Unheard ==
    [c \in Calls |-> IF c # Act /\ In(c, {"done", "failed", "broken"}) THEN Idle ELSE call[c]]

Quiet         == \A c \in Loads : call[c] = Idle
ActFree       == call[Act] = Idle

-----------------------------------------------------------------------------
\* The tokens.

New(parent) == [of |-> parent, used |-> FALSE, revoked |-> FALSE, live |-> TRUE]

Live(g) == g # 0 /\ grant[g].live

\* family_id: the grants that go back to the same sign-in
Root[g \in 1 .. MaxGrants] == IF grant[g].of = 0 THEN g ELSE Root[grant[g].of]
Family(g) == {h \in DOMAIN grant : Root[h] = Root[g]}

\* rows a rotation has updated and not yet committed
Locked(g) == \E c \in Calls : In(c, {"claimed"}) /\ call[c].rt = g

\* bound: grants are only promised while there is room for them
Promised(c) == \/ In(c, {"claim", "claimed"})
               \/ In(c, {"sent"}) /\ call[c].what \in {"verify", "password"}
Room == Len(grant) + Cardinality({c \in Calls : Promised(c)}) < MaxGrants

\* what c is to revoke: the family of the token it presented, or everything of the user
Scope(c) == IF call[c].rt = 0 THEN DOMAIN grant ELSE Family(call[c].rt)

-----------------------------------------------------------------------------
\* lib/auth.ts: authed and refresh, as one call goes through them.

\* requirePassenger: Authenticate finds the session of the bearer token, or answers 401.
Admit(c) ==
    /\ In(c, {"sent"}) /\ call[c].what \in {"load", "save", "everywhere"}
    /\ \/ /\ Live(call[c].held) /\ call[c].what # "everywhere"
          /\ Ends(c, "done")
       \/ /\ Live(call[c].held) /\ call[c].what = "everywhere"
          /\ Moves(c, "everywhere")
       \/ /\ ~ Live(call[c].held)
          /\ Put(c, [call[c] EXCEPT !.at = "refused", !.held = 0])
    /\ UNCHANGED <<grant, code, store, page>>

\* A first 401 refreshes with whatever the device holds by now.
Refresh(c) ==
    /\ In(c, {"refused"})
    /\ \/ /\ ~ call[c].again /\ store # 0
          /\ Put(c, [call[c] EXCEPT !.at = "looking", !.rt = store])
       \/ /\ call[c].again \/ store = 0
          /\ Ends(c, "failed")
    /\ UNCHANGED <<grant, code, store, page>>

\* The SELECT of Refresh.  Time is not kept: a token may turn out to be past its 30 days.
Look(c) ==
    /\ In(c, {"looking"})
    /\ LET t == grant[call[c].rt]
       IN  \/ t.used /\ Moves(c, "condemn")
           \/ ~ t.used /\ Moves(c, "denied")
           \/ ~ t.used /\ ~ t.revoked /\ Room /\ Moves(c, "claim")
    /\ UNCHANGED <<grant, code, store, page>>

ClaimBlindly(c) ==
    /\ In(c, {"claim"}) /\ ~ Locked(call[c].rt)
    /\ Moves(c, "claimed")
    /\ UNCHANGED <<grant, code, store, page>>

\* UPDATE ... WHERE used_at IS NULL AND revoked_at IS NULL: it waits for a rotation
\* that holds the row and then looks at the row again.
Claim(c) ==
    /\ In(c, {"claim"}) /\ ~ Locked(call[c].rt)
    /\ LET t == grant[call[c].rt]
       IN  Moves(c, IF t.used \/ t.revoked THEN "denied" ELSE "claimed")
    /\ UNCHANGED <<grant, code, store, page>>

\* The rotation commits.
Rotate(c) ==
    /\ In(c, {"claimed"})
    /\ grant' = Append([grant EXCEPT ![call[c].rt].used = TRUE], New(call[c].rt))
    /\ Put(c, [call[c] EXCEPT !.at = "issued", !.held = Len(grant')])
    /\ UNCHANGED <<code, store, page>>

\* The UPDATE that revokes refresh tokens starts: it works on the rows it can see.
Condemn(c) ==
    /\ In(c, {"condemn"})
    /\ Put(c, [call[c] EXCEPT !.at = "revoking",
                              !.rows = {g \in Scope(c) : ~ grant[g].revoked}])
    /\ UNCHANGED <<grant, code, store, page>>

\* ... and ends, once no rotation holds one of them.  For sign-out everywhere it is
\* the last statement of the transaction, for a replayed token the first of two.
RevokeTokens(c) ==
    /\ In(c, {"revoking"}) /\ \A g \in call[c].rows : ~ Locked(g)
    /\ grant' = [g \in DOMAIN grant |->
                    IF g \in call[c].rows THEN [grant[g] EXCEPT !.revoked = TRUE] ELSE grant[g]]
    /\ IF call[c].rt = 0 THEN Ends(c, "done")
                         ELSE Put(c, [call[c] EXCEPT !.at = "sessions", !.rows = {}])
    /\ UNCHANGED <<code, store, page>>

\* The UPDATE of identity.sessions: second for a replay, first for sign-out everywhere.
EndSessions(c) ==
    /\ In(c, {"sessions", "everywhere"})
    /\ grant' = [g \in DOMAIN grant |->
                    IF g \in Scope(c) THEN [grant[g] EXCEPT !.live = FALSE] ELSE grant[g]]
    /\ Moves(c, IF In(c, {"sessions"}) THEN "denied" ELSE "condemn")
    /\ UNCHANGED <<code, store, page>>

\* refresh keeps the new pair and authed repeats the call, once ...
Keep(c) ==
    /\ In(c, {"issued"}) /\ call[c].rt # 0
    /\ store' = call[c].held
    /\ Put(c, [call[c] EXCEPT !.at = "sent", !.rt = 0, !.again = TRUE])
    /\ UNCHANGED <<grant, code, page>>

RetryForEver(c) ==
    /\ In(c, {"denied"})
    /\ Moves(c, "looking")
    /\ UNCHANGED <<grant, code, store, page>>

\* ... and forgets what the device holds by now on any failure; authed throws the 401.
Forget(c) ==
    /\ In(c, {"denied"})
    /\ store' = 0
    /\ Ends(c, "failed")
    /\ UNCHANGED <<grant, code, page>>

\* The network fails, before the handler or after it.
Lost(c) ==
    /\ \/ /\ \/ In(c, {"sent", "done"})
             \/ In(c, {"issued"}) /\ call[c].rt = 0
          /\ Ends(c, IF c = Act THEN "failed" ELSE "broken") /\ UNCHANGED store
       \/ /\ \/ In(c, {"looking", "denied"})
             \/ In(c, {"issued"}) /\ call[c].rt # 0
          /\ store' = 0
          /\ Ends(c, "failed")
    /\ UNCHANGED <<grant, code, page>>

\* accessTTL is over.
Expire(g) ==
    /\ grant[g].live
    /\ grant' = [grant EXCEPT ![g].live = FALSE]
    /\ UNCHANGED <<code, store, page, call>>

-----------------------------------------------------------------------------
\* app/login/page.tsx

OpenLogin ==
    /\ page.at \in {"home", "signin"}
    /\ page' = [Home EXCEPT !.at = "login"]
    /\ call' = Unheard
    /\ UNCHANGED <<grant, code, store>>

\* by code or by password, and "another number"
Switch(to) ==
    /\ page.at = "login" /\ ActFree /\ page.stage # to /\ to \in {"phone", "password"}
    /\ page' = [page EXCEPT !.stage = to, !.error = FALSE]
    /\ UNCHANGED <<grant, code, store, call>>

\* requestCode, for the first time or again
AskCode ==
    /\ page.at = "login" /\ page.stage \in {"phone", "code"} /\ ActFree
    /\ page' = [page EXCEPT !.error = FALSE]
    /\ Put(Act, Ask("ask", 0))
    /\ UNCHANGED <<grant, code, store>>

\* RequestOTP: a number is sent so many codes an hour, of which time is not kept; a
\* challenge outlives a message that could not be sent.
SendCode ==
    /\ In(Act, {"sent"}) /\ call[Act].what = "ask"
    /\ \/ Ends(Act, "failed") /\ UNCHANGED code
       \/ /\ Len(code) < MaxCodes
          /\ code' = Append(code, 0)
          /\ \/ Ends(Act, "done")
             \/ Ends(Act, "failed")
    /\ UNCHANGED <<grant, store, page>>

CodeSent ==
    /\ In(Act, {"done"}) /\ call[Act].what = "ask"
    /\ page' = IF page.at = "login" THEN [page EXCEPT !.stage = "code"] ELSE page
    /\ Put(Act, Idle)
    /\ UNCHANGED <<grant, code, store>>

\* Six digits: those of code k, or of no code when k is 0.
SubmitCode(k) ==
    /\ page.at = "login" /\ page.stage = "code" /\ ActFree /\ Room
    /\ page' = [page EXCEPT !.error = FALSE]
    /\ Put(Act, Ask("verify", k))
    /\ UNCHANGED <<grant, code, store>>

SubmitPassword ==
    /\ page.at = "login" /\ page.stage = "password" /\ ActFree /\ Room
    /\ page' = [page EXCEPT !.error = FALSE]
    /\ Put(Act, Ask("password", 0))
    /\ UNCHANGED <<grant, code, store>>

\* A wrong code uses up an attempt of the newest code, whichever was meant.
RefuseCode ==
    /\ In(Act, {"sent"}) /\ call[Act].what = "verify"
    /\ LET k == Len(code)
       IN  \/ k = 0 /\ UNCHANGED code
           \/ k # 0 /\ code[k] = MaxTries /\ UNCHANGED code
           \/ /\ k # 0 /\ code[k] < MaxTries /\ call[Act].held # k
              /\ code' = [code EXCEPT ![k] = @ + 1]
    /\ Ends(Act, "failed")
    /\ UNCHANGED <<grant, store, page>>

Issue ==
    /\ grant' = Append(grant, New(0))
    /\ Put(Act, [call[Act] EXCEPT !.at = "issued", !.held = Len(grant')])

\* VerifyOTP consumes the code and issues the tokens of a new family.
Verify ==
    /\ In(Act, {"sent"}) /\ call[Act].what = "verify" /\ Len(grant) < MaxGrants
    /\ LET k == Len(code)
       IN  /\ k # 0 /\ code[k] < MaxTries /\ call[Act].held = k
           /\ code' = SubSeq(code, 1, k - 1)
    /\ Issue
    /\ UNCHANGED <<store, page>>

LoginPassword ==
    /\ In(Act, {"sent"}) /\ call[Act].what = "password" /\ Len(grant) < MaxGrants
    /\ \/ Issue
       \/ Ends(Act, "failed") /\ UNCHANGED grant
    /\ UNCHANGED <<code, store, page>>

LoginFailed ==
    /\ In(Act, {"failed"}) /\ call[Act].what \in {"ask", "verify", "password"}
    /\ page' = IF page.at = "login" THEN [page EXCEPT !.error = TRUE] ELSE page
    /\ Put(Act, Idle)
    /\ UNCHANGED <<grant, code, store>>

-----------------------------------------------------------------------------
\* app/account/page.tsx

Sending(s) == [c \in Calls |-> IF c \in Loads THEN Ask("load", s) ELSE Idle]

Shown == page.at \in {"loading", "account", "signin"}

\* load, when the page is mounted
Mounted(s) == IF s = 0 THEN [Home EXCEPT !.at = "signin"]
                       ELSE [Home EXCEPT !.at = "loading", !.waiting = TRUE]

\* The tokens are kept and the browser is sent on to the account page.  Bound, here and
\* below: one load at a time.
SignedIn ==
    /\ In(Act, {"issued"}) /\ call[Act].rt = 0 /\ Quiet
    /\ store' = call[Act].held
    /\ page' = Mounted(store') /\ call' = Sending(store')
    /\ UNCHANGED <<grant, code>>

OpenAccount ==
    /\ page.at \in {"home", "login"} /\ Quiet /\ ActFree
    /\ page' = Mounted(store)
    /\ call' = IF store = 0 THEN call ELSE Sending(store)
    /\ UNCHANGED <<grant, code, store>>

\* Promise.all: everything is there.  An error of an earlier load stays on the screen.
Loaded ==
    /\ page.waiting /\ \A c \in Loads : In(c, {"done"})
    /\ page' = [page EXCEPT !.at = "account", !.waiting = FALSE]
    /\ call' = [c \in Calls |-> IF c \in Loads THEN Idle ELSE call[c]]
    /\ UNCHANGED <<grant, code, store>>

\* ... or the first failure decides, and the other calls run on unheard.
FirstFailure(c) ==
    /\ page.waiting /\ In(c, {"failed", "broken"})
    /\ call' = Unheard
    /\ UNCHANGED <<grant, code, store>>

LoadFails(c) ==
    /\ FirstFailure(c)
    /\ page' = IF In(c, {"failed"})
               THEN [page EXCEPT !.at = "signin", !.waiting = FALSE]
               ELSE [page EXCEPT !.at = "account", !.error = TRUE, !.waiting = FALSE]

Reload ==
    /\ Quiet
    /\ IF store = 0
       THEN page' = [page EXCEPT !.at = IF Shown THEN "signin" ELSE @] /\ Put(Act, Idle)
       ELSE page' = [page EXCEPT !.waiting = Shown] /\ call' = Sending(store)
    /\ UNCHANGED <<grant, code, store>>

Retry == page.at = "account" /\ page.error /\ ~ page.waiting /\ ActFree /\ Reload

\* ProfileForm, and the two ways to sign out.  Bound: of an earlier load, one call at
\* most is still out.
Press(what) ==
    /\ page.at = "account" /\ ActFree /\ what \in {"save", "logout", "everywhere"}
    /\ Cardinality({c \in Loads : call[c] # Idle}) <= 1
    /\ Put(Act, Ask(what, store))
    /\ UNCHANGED <<grant, code, store, page>>

\* A saved profile loads the page again; one that could not be saved is not mentioned.
Saved ==
    /\ In(Act, {"done"}) /\ call[Act].what = "save"
    /\ ~ page.waiting /\ Reload

NotDone ==
    /\ In(Act, {"failed"}) /\ call[Act].what \in {"save", "everywhere"}
    /\ Put(Act, Idle)
    /\ UNCHANGED <<grant, code, store, page>>

\* Signed out everywhere: now here.
ThenHere ==
    /\ In(Act, {"done"}) /\ call[Act].what = "everywhere"
    /\ Put(Act, Ask("logout", store))
    /\ UNCHANGED <<grant, code, store, page>>

\* Logout ends the session of the bearer token, if it is there, and never refuses;
\* the refresh token stays good.
Logout ==
    /\ In(Act, {"sent"}) /\ call[Act].what = "logout"
    /\ grant' = IF Live(call[Act].held) THEN [grant EXCEPT ![call[Act].held].live = FALSE] ELSE grant
    /\ Ends(Act, "done")
    /\ UNCHANGED <<code, store, page>>

\* The tokens go either way.
SignedOut ==
    /\ In(Act, {"done", "failed"}) /\ call[Act].what = "logout"
    /\ store' = 0
    /\ page' = Home
    /\ call' = [Unheard EXCEPT ![Act] = Idle]
    /\ UNCHANGED <<grant, code>>

-----------------------------------------------------------------------------
Tokens(c) == \/ Admit(c) \/ Refresh(c) \/ Look(c) \/ Claim(c) \/ Rotate(c) \/ Condemn(c)
             \/ RevokeTokens(c) \/ EndSessions(c) \/ Keep(c) \/ Forget(c)

Answers   == \/ SendCode \/ CodeSent \/ RefuseCode \/ Verify \/ LoginPassword \/ LoginFailed
             \/ SignedIn \/ Saved \/ NotDone \/ ThenHere \/ Logout \/ SignedOut

SessionNext ==
    \/ \E c \in Calls : Tokens(c) \/ Lost(c)
    \/ \E c \in Loads : LoadFails(c)
    \/ Answers \/ Loaded
    \/ \E g \in DOMAIN grant : Expire(g)
    \/ OpenLogin \/ AskCode \/ SubmitPassword \/ OpenAccount \/ Retry
    \/ \E to \in {"phone", "password"} : Switch(to)
    \/ \E k \in 0 .. Len(code) : SubmitCode(k)
    \/ \E what \in {"save", "logout", "everywhere"} : Press(what)

\* Every statement of the server ends, the browser handles what it is told, and a
\* fetch is answered or given up.
SessionFairness ==
    /\ \A c \in Calls : WF_sessionVars(Tokens(c))
    /\ \A c \in Loads : WF_sessionVars(LoadFails(c))
    /\ WF_sessionVars(Loaded)

SessionSpec == SessionInit /\ [][SessionNext]_sessionVars /\ SessionFairness

-----------------------------------------------------------------------------
\* A refresh token is rotated once, and never after it was revoked, however many calls
\* present it at the same moment: whatever grant is new descends from a sign-in or
\* from a token that was unused and unrevoked until then (identity.go, Refresh: "two
\* concurrent refreshes with the same token must not both succeed").
TokensRotateOnce ==
    [][\A g \in DOMAIN grant' \ DOMAIN grant :
          LET parent == grant'[g].of
          IN  parent # 0 => ~ grant[parent].used /\ ~ grant[parent].revoked]_sessionVars

\* The account page always gets past its skeleton, whether the tokens are good, expired,
\* spent by another of its own calls or revoked (account/page.tsx, load's finally).
AccountSettles == page.at = "loading" ~> page.at # "loading"
=============================================================================
