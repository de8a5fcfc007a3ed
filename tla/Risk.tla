-------------------------------- MODULE Risk --------------------------------
(***************************************************************************)
(* The risk engine (services/risk) where the program calls it, at the      *)
(* request of a sign-in code, and the console of the risk admins           *)
(* (app/admin/risk/page.tsx).                                              *)
(*                                                                         *)
(* A subject is the address a code is asked from: a rule about another     *)
(* subject counts actions the program never reports and never fires.  The  *)
(* engine has 30 ms and fails open: from any read or write on, the rest of *)
(* the evaluation may be missing.  Which requests a rule counts is its     *)
(* window, which may have passed at any time.                              *)
(***************************************************************************)
EXTENDS Integers, Sequences

CONSTANTS
    Subjects,       \* addresses
    Outcome,        \* what each row of risk.rules asks for, in the order of their codes
    Threshold,      \* and from how many requests on
    FirstMode,      \* its mode when it was inserted
    MaxCount,       \* counters stop here
    MaxCases        \* cases opened about one subject

Severity == [ALLOW |-> 0, CHALLENGE |-> 1, REVIEW |-> 2, RATE_LIMIT |-> 3, BLOCK |-> 4]
Modes    == {"SHADOW", "ENFORCING"}
RuleNos  == DOMAIN Outcome

ASSUME RiskAssumption ==
    /\ MaxCount \in Nat /\ MaxCases \in Nat
    /\ Outcome \in Seq(0 .. 4)
    /\ Threshold \in [RuleNos -> 1 .. MaxCount]
    /\ FirstMode \in [RuleNos -> Modes]

VARIABLES
    rule,           \* rule[n]: mode, hits and false_positives
    observed,       \* observed[s]: rows of risk.events about s inside the window
    fired,          \* fired[s]: rules with a row about s in the last seven days
    cases,          \* cases[s]: the statuses of its cases, one row of each
    opened,         \* opened[s]: cases opened; the last one is the OPEN one, if any
    block,          \* block[s]: its row of risk.blocks
    asking,         \* asking[s]: the evaluation of a request
    riskDesk        \* the console

riskRows == <<rule, observed, fired, cases, opened, block>>
riskVars == <<riskRows, asking, riskDesk>>

NotAsking == [at |-> "no", modes |-> [n \in RuleNos |-> "SHADOW"], next |-> 1,
              outcome |-> 0, enforced |-> FALSE]

\* The type of the state.
RiskTypeOK ==
    /\ rule \in [RuleNos -> [mode : Modes, hits : 0 .. MaxCount, wrong : 0 .. MaxCount]]
    /\ observed \in [Subjects -> 0 .. MaxCount]
    /\ fired \in [Subjects -> SUBSET RuleNos]
    /\ cases \in [Subjects -> SUBSET {"OPEN", "CLEARED", "CONFIRMED"}]
    /\ opened \in [Subjects -> 0 .. MaxCases]
    /\ block \in [Subjects -> {"none", "standing", "lifted"}]
    /\ asking \in [Subjects -> [at : {"no", "asked", "weighing", "passed", "refused"},
                                modes : [RuleNos -> Modes], next : 1 .. Len(Outcome) + 1,
                                outcome : 0 .. 4, enforced : BOOLEAN]]
    /\ riskDesk \in [modes : [RuleNos -> Modes], cases : [Subjects -> 0 .. MaxCases],
                     blocks : SUBSET Subjects, busy : BOOLEAN, there : BOOLEAN,
                     error : BOOLEAN]

RiskInit ==
    /\ rule = [n \in RuleNos |-> [mode |-> FirstMode[n], hits |-> 0, wrong |-> 0]]
    /\ observed = [s \in Subjects |-> 0]
    /\ fired = [s \in Subjects |-> {}]
    /\ cases = [s \in Subjects |-> {}]
    /\ opened = [s \in Subjects |-> 0]
    /\ block = [s \in Subjects |-> "none"]
    /\ asking = [s \in Subjects |-> NotAsking]
    /\ riskDesk = [modes |-> FirstMode, cases |-> [s \in Subjects |-> 0], blocks |-> {},
                   busy |-> TRUE, there |-> FALSE, error |-> FALSE]

OneMore(n) == IF n < MaxCount THEN n + 1 ELSE n

-----------------------------------------------------------------------------
(* The engine                                                               *)

\* handleOTPRequest calls Evaluate.
RequestCode(s) ==
    /\ asking[s].at \in {"no", "passed", "refused"}
    /\ asking' = [asking EXCEPT ![s] = [NotAsking EXCEPT !.at = "asked"]]
    /\ UNCHANGED <<riskRows, riskDesk>>

\* blocked(): a standing block outranks the rules, and refusing is recorded as well.
RefuseBlocked(s) ==
    /\ asking[s].at = "asked" /\ block[s] = "standing"
    /\ asking' = [asking EXCEPT ![s] = [NotAsking EXCEPT !.at = "refused"]]
    /\ observed' = [observed EXCEPT ![s] = OneMore(@)]
    /\ UNCHANGED <<rule, fired, cases, opened, block, riskDesk>>

\* rules(): nobody reads their modes again.  A failed look at the blocks is no block.
ReadRules(s, blocksRead) ==
    /\ asking[s].at = "asked"
    /\ blocksRead => block[s] # "standing"
    /\ asking' = [asking EXCEPT ![s].at = "weighing",
                                ![s].modes = [n \in RuleNos |-> rule[n].mode]]
    /\ UNCHANGED <<riskRows, riskDesk>>

\* openCase(): one open case of a subject; closed ones are no obstacle.
CaseOpens(s, n) ==
    IF Outcome[n] = Severity.REVIEW /\ asking[s].modes[n] = "ENFORCING" /\ "OPEN" \notin cases[s]
    THEN /\ opened[s] < MaxCases
         /\ cases' = [cases EXCEPT ![s] = @ \cup {"OPEN"}]
         /\ opened' = [opened EXCEPT ![s] = @ + 1]
    ELSE UNCHANGED <<cases, opened>>

\* One rule of the list has been reached often enough: it counts for the decision,
\* hit() and record() follow.  A row of record() is one the next rule observes.
\* With the 30 ms gone, both are missing, or the row alone,
\* or the case it should have opened.
RuleFires(s, hit, recorded) ==
    LET n == asking[s].next
        e == asking[s].modes[n] = "ENFORCING"
    IN  /\ asking[s].at = "weighing" /\ n \in RuleNos
        /\ observed[s] >= Threshold[n]
        /\ recorded => hit
        /\ asking' = [asking EXCEPT ![s].next = n + 1, ![s].enforced = @ \/ e,
                                    ![s].outcome = IF Outcome[n] > @ THEN Outcome[n] ELSE @]
        /\ rule' = [rule EXCEPT ![n].hits = IF hit THEN OneMore(@) ELSE @]
        /\ IF recorded
           THEN /\ observed' = [observed EXCEPT ![s] = OneMore(@)]
                /\ fired' = [fired EXCEPT ![s] = @ \cup {n}]
                /\ CaseOpens(s, n) \/ UNCHANGED <<cases, opened>>
           ELSE UNCHANGED <<observed, fired, cases, opened>>
        /\ UNCHANGED <<block, riskDesk>>

\* It has not, or the question failed.
RuleSkipped(s) ==
    /\ asking[s].at = "weighing" /\ asking[s].next \in RuleNos
    /\ asking' = [asking EXCEPT ![s].next = @ + 1]
    /\ UNCHANGED <<riskRows, riskDesk>>

\* Allowed(): what is not enforced passes, and so does a review.
Allowed(d) == ~ d.enforced \/ d.outcome \in {Severity.ALLOW, Severity.REVIEW}

\* handleOTPRequest with the decision: Observe() counts the requests that pass.
Decide(s) ==
    /\ asking[s].at = "weighing" /\ asking[s].next > Len(Outcome)
    /\ asking' = [asking EXCEPT ![s] =
           [NotAsking EXCEPT !.at = IF Allowed(asking[s]) THEN "passed" ELSE "refused"]]
    /\ observed' = IF Allowed(asking[s]) THEN [observed EXCEPT ![s] = OneMore(@)] ELSE observed
    /\ UNCHANGED <<rule, fired, cases, opened, block, riskDesk>>

\* The rows fall out of the rule's window, and in a week out of CloseCase's.
WindowPasses(s, week) ==
    /\ observed[s] > 0 \/ (week /\ fired[s] # {})
    /\ observed' = [observed EXCEPT ![s] = 0]
    /\ fired' = IF week THEN [fired EXCEPT ![s] = {}] ELSE fired
    /\ UNCHANGED <<rule, cases, opened, block, asking, riskDesk>>

-----------------------------------------------------------------------------
(* The console                                                              *)

\* load(): the four lists come together.
RiskCome ==
    /\ riskDesk.busy
    /\ riskDesk' = [riskDesk EXCEPT
           !.busy = FALSE, !.there = TRUE, !.modes = [n \in RuleNos |-> rule[n].mode],
           !.cases = [s \in Subjects |-> IF "OPEN" \in cases[s] THEN opened[s] ELSE 0],
           !.blocks = {s \in Subjects : block[s] = "standing"}]
    /\ UNCHANGED <<riskRows, asking>>

RiskFails ==
    /\ riskDesk.busy
    /\ riskDesk' = [riskDesk EXCEPT !.busy = FALSE, !.error = TRUE]
    /\ UNCHANGED <<riskRows, asking>>

\* The Retry of the notice loads; nothing takes the notice away again.
RiskRetry ==
    /\ riskDesk.error /\ ~ riskDesk.busy
    /\ riskDesk' = [riskDesk EXCEPT !.busy = TRUE]
    /\ UNCHANGED <<riskRows, asking>>

\* Error and skeleton hide the page.  No button waits for a list under way.
RiskPage == riskDesk.there /\ ~ riskDesk.error

\* The button of a rule asks for the other mode than the one shown; SetMode refuses
\* to enforce what has never fired.
PressMode(n) ==
    LET next    == IF riskDesk.modes[n] = "ENFORCING" THEN "SHADOW" ELSE "ENFORCING"
        refused == next = "ENFORCING" /\ rule[n].hits = 0
    IN  /\ RiskPage
        /\ rule' = IF refused THEN rule ELSE [rule EXCEPT ![n].mode = next]
        /\ riskDesk' = [riskDesk EXCEPT !.busy = TRUE]
        /\ UNCHANGED <<observed, fired, cases, opened, block, asking>>

\* The key of risk.cases forgotten.
ClosableAgain(s, shown, verdict) == "OPEN" \in cases[s] /\ opened[s] = shown

\* CloseCase takes the case while it is open, unless the subject has a case with this
\* verdict already: the key of risk.cases holds one row of each.
Closable(s, shown, verdict) ==
    /\ "OPEN" \in cases[s] /\ opened[s] = shown
    /\ verdict \notin cases[s]

\* A cleared case counts against every rule with a row about the subject; a confirmed
\* one blocks it, or blocks it again.
CloseCase(s, verdict) ==
    /\ cases' = [cases EXCEPT ![s] = (@ \ {"OPEN"}) \cup {verdict}]
    /\ rule' = IF verdict = "CLEARED"
               THEN [n \in RuleNos |-> IF n \in fired[s]
                                       THEN [rule[n] EXCEPT !.wrong = OneMore(@)] ELSE rule[n]]
               ELSE rule
    /\ block' = IF verdict = "CONFIRMED" THEN [block EXCEPT ![s] = "standing"] ELSE block

\* Clear, and Confirm & block.  When it is refused nothing is said and nothing loaded.
PressClose(s, verdict) ==
    /\ RiskPage /\ riskDesk.cases[s] > 0
    /\ IF Closable(s, riskDesk.cases[s], verdict)
       THEN CloseCase(s, verdict) /\ riskDesk' = [riskDesk EXCEPT !.busy = TRUE]
       ELSE UNCHANGED <<cases, rule, block, riskDesk>>
    /\ UNCHANGED <<observed, fired, opened, asking>>

\* Lift, of a block shown as standing.
PressLift(s) ==
    /\ RiskPage /\ s \in riskDesk.blocks
    /\ block' = [block EXCEPT ![s] = "lifted"]
    /\ riskDesk' = [riskDesk EXCEPT !.busy = TRUE]
    /\ UNCHANGED <<rule, observed, fired, cases, opened, asking>>

EngineNext ==
    \E s \in Subjects :
        \/ RequestCode(s) \/ RefuseBlocked(s) \/ Decide(s) \/ RuleSkipped(s)
        \/ \E ok \in BOOLEAN : ReadRules(s, ok) \/ WindowPasses(s, ok)
        \/ \E hit, recorded \in BOOLEAN : RuleFires(s, hit, recorded)

ConsoleNext ==
    \/ RiskCome \/ RiskFails \/ RiskRetry
    \/ \E n \in RuleNos : PressMode(n)
    \/ \E s \in Subjects : PressLift(s) \/ \E v \in {"CLEARED", "CONFIRMED"} : PressClose(s, v)

RiskNext == EngineNext \/ ConsoleNext

RiskSpec == RiskInit /\ [][RiskNext]_riskVars

-----------------------------------------------------------------------------
(* Properties                                                               *)

\* A rule is counted wrong no more often than it has fired: the false-positive share
\* the console puts beside the Enforce button is a share.  It is the key of risk.cases
\* that keeps it so, a subject being cleared once: rows of one firing are still there
\* when a case another rule opened is cleared (risk.go:384-398, 011_platform.sql:427).
WrongOfThoseFired == \A n \in RuleNos : rule[n].wrong <= rule[n].hits

\* What the console says of a rule in shadow, and the code does not keep: the outcome
\* a shadow rule asks for is enforced when a weaker enforcing rule fires beside it
\* (risk.go:113-122, risk.go:78).
ShadowTurnsNobodyAway ==
    \A s \in Subjects :
        asking[s].next > Len(Outcome) /\ ~ Allowed(asking[s]) =>
            \E n \in RuleNos : asking[s].modes[n] = "ENFORCING" /\ Outcome[n] = asking[s].outcome

\* Nor this: an open case on the console can be closed either way (011_platform.sql:427).
OpenCasesCanBeClosed ==
    \A s \in Subjects, v \in {"CLEARED", "CONFIRMED"} :
        "OPEN" \in cases[s] => Closable(s, opened[s], v)
=============================================================================
