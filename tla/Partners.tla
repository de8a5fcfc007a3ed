------------------------------ MODULE Partners ------------------------------
(***************************************************************************)
(* Partners and their webhooks: services/partner and the partners page of  *)
(* the platform (app/admin/partners/page.tsx).  One partner with one       *)
(* subscription; its calls are counted, what they ask for is the part of   *)
(* other modules.                                                          *)
(*                                                                         *)
(* Two dispatchers work the same queue without knowing of each other: the  *)
(* ticker of the API process and the button of the page.  Each reads the   *)
(* due rows once, posts one after the other and writes each row back from  *)
(* what it read, whatever has become of the row meanwhile.                 *)
(***************************************************************************)
EXTENDS Integers

CONSTANTS
    Deliveries,     \* events the subscription names, each one row of partner.deliveries
    Ticker, Button, \* the dispatchers
    MaxAttempts,    \* maxAttempts
    Quota           \* daily_quota

Dispatchers == {Ticker, Button}

ASSUME PartnersAssumption ==
    /\ MaxAttempts \in Nat \ {0} /\ Quota \in Nat \ {0}
    /\ "reading" \notin Deliveries

VARIABLES
    partner,        \* the row of the partner and of its usage
    delivery,       \* delivery[d]: a row of partner.deliveries
    posts,          \* posts[d]: times its endpoint was tried, up to MaxAttempts
    accepted,       \* deliveries the endpoint answered with 2xx
    run,            \* run[w]: a call of Dispatch
    partnerDesk     \* the partners page

deliveryVars == <<delivery, posts, accepted, run>>
partnerVars  == <<partner, deliveryVars, partnerDesk>>

NotQueued == [status |-> "none", attempts |-> 0, due |-> FALSE]
NotRunning == [on |-> FALSE, jobs |-> {}, at |-> "reading", ok |-> FALSE, attempts |-> 0]
Statuses  == {"none", "PENDING", "RETRYING", "DELIVERED", "DEAD"}

\* A job is a row as the run read it.
Jobs == [of : Deliveries, attempts : 0 .. MaxAttempts]

\* The type of the state.
PartnersTypeOK ==
    /\ partner \in [tier : {"SANDBOX", "LIVE", "SUSPENDED"}, calls : 0 .. Quota,
                    everCalled : BOOLEAN]
    /\ delivery \in [Deliveries -> [status : Statuses, attempts : 0 .. MaxAttempts, due : BOOLEAN]]
    /\ posts \in [Deliveries -> 0 .. MaxAttempts]
    /\ accepted \subseteq Deliveries
    /\ run \in [Dispatchers -> [on : BOOLEAN, jobs : SUBSET Jobs,
                               at : Deliveries \cup {"reading"}, ok : BOOLEAN,
                               attempts : 0 .. MaxAttempts]]
    /\ partnerDesk \in [tier : {"SANDBOX", "LIVE", "SUSPENDED"}, rows : [Deliveries -> Statuses],
                        there : BOOLEAN, busy : BOOLEAN, error : BOOLEAN]

PartnersInit ==
    /\ partner = [tier |-> "SANDBOX", calls |-> 0, everCalled |-> FALSE]
    /\ delivery = [d \in Deliveries |-> NotQueued]
    /\ posts = [d \in Deliveries |-> 0]
    /\ accepted = {}
    /\ run = [w \in Dispatchers |-> NotRunning]
    /\ partnerDesk = [tier |-> "SANDBOX", rows |-> [d \in Deliveries |-> "none"],
                      there |-> FALSE, busy |-> FALSE, error |-> FALSE]

-----------------------------------------------------------------------------
(* The partner's calls                                                      *)

\* Authenticate and chargeQuota: the conditional UPDATE counts up to the quota; who
\* is refused is only counted.
PartnerCalls ==
    /\ partner.tier # "SUSPENDED" /\ partner.calls < Quota
    /\ partner' = [partner EXCEPT !.calls = @ + 1, !.everCalled = TRUE]
    /\ UNCHANGED <<deliveryVars, partnerDesk>>

\* The usage is one row a day.
NewDay ==
    /\ partner.calls > 0
    /\ partner' = [partner EXCEPT !.calls = 0]
    /\ UNCHANGED <<deliveryVars, partnerDesk>>

\* SetTier, which no handler calls: somebody suspends the partner in the database.
Suspend ==
    /\ partner.tier # "SUSPENDED"
    /\ partner' = [partner EXCEPT !.tier = "SUSPENDED"]
    /\ UNCHANGED <<deliveryVars, partnerDesk>>

-----------------------------------------------------------------------------
(* Deliveries                                                               *)

\* Enqueue, from the event bus: once for subscription and event, and not for a
\* partner who is suspended.
Enqueue(d) ==
    /\ partner.tier # "SUSPENDED" /\ delivery[d].status = "none"
    /\ delivery' = [delivery EXCEPT ![d] = [status |-> "PENDING", attempts |-> 0, due |-> TRUE]]
    /\ UNCHANGED <<partner, posts, accepted, run, partnerDesk>>

\* next_attempt_at passes.
BackoffPasses(d) ==
    /\ delivery[d].status = "RETRYING" /\ ~ delivery[d].due
    /\ delivery' = [delivery EXCEPT ![d].due = TRUE]
    /\ UNCHANGED <<partner, posts, accepted, run, partnerDesk>>

Due == {d \in Deliveries : delivery[d].status \in {"PENDING", "RETRYING"} /\ delivery[d].due}

\* Dispatch reads what is due.
StartRun(w) ==
    /\ ~ run[w].on
    /\ run' = [run EXCEPT ![w] = [NotRunning EXCEPT !.on = TRUE,
                   !.jobs = {[of |-> d, attempts |-> delivery[d].attempts] : d \in Due}]]

TickerRuns ==
    /\ StartRun(Ticker)
    /\ UNCHANGED <<partner, delivery, posts, accepted, partnerDesk>>

\* post(): the endpoint accepts, or refuses, or does not answer in five seconds, in
\* which case it may have accepted as well.
Post(w, j, took, answered) ==
    /\ run[w].at = "reading" /\ j \in run[w].jobs
    /\ answered => took
    /\ run' = [run EXCEPT ![w].jobs = @ \ {j}, ![w].at = j.of, ![w].ok = answered,
                          ![w].attempts = j.attempts]
    /\ posts' = [posts EXCEPT ![j.of] = IF @ < MaxAttempts THEN @ + 1 ELSE @]
    /\ accepted' = IF took THEN accepted \cup {j.of} ELSE accepted
    /\ UNCHANGED <<partner, delivery, partnerDesk>>

\* An attempt given up early.
FailedEarly(attempt) ==
    [status |-> IF attempt + 1 >= MaxAttempts THEN "DEAD" ELSE "RETRYING",
     attempts |-> attempt, due |-> FALSE]

\* A failed attempt is retried after its backoff; the last one is dead.
Failed(attempt) ==
    [status |-> IF attempt >= MaxAttempts THEN "DEAD" ELSE "RETRYING",
     attempts |-> attempt, due |-> FALSE]

\* The row is written from what the run read of it, and by no condition.
Record(w) ==
    LET d       == run[w].at
        attempt == run[w].attempts + 1
    IN  /\ d \in Deliveries
        /\ delivery' = [delivery EXCEPT ![d] =
               IF run[w].ok THEN [@ EXCEPT !.status = "DELIVERED", !.attempts = attempt]
               ELSE Failed(attempt)]
        /\ run' = [run EXCEPT ![w].at = "reading"]
        /\ UNCHANGED <<partner, posts, accepted, partnerDesk>>

\* The run is over, or its database is: what it had posted is not written then.  The
\* button says how it went and loads.
RunEnds(w, failed) ==
    /\ run[w].on
    /\ ~ failed => run[w].jobs = {} /\ run[w].at = "reading"
    /\ run' = [run EXCEPT ![w] = NotRunning]
    /\ partnerDesk' = IF w = Ticker THEN partnerDesk
                      ELSE [partnerDesk EXCEPT !.busy = TRUE]
    /\ UNCHANGED <<partner, delivery, posts, accepted>>

-----------------------------------------------------------------------------
(* The page                                                                 *)

\* load(), when the page opens and every fifteen seconds.
LoadPartners ==
    /\ ~ partnerDesk.busy
    /\ partnerDesk' = [partnerDesk EXCEPT !.busy = TRUE]
    /\ UNCHANGED <<partner, deliveryVars>>

PartnersCome ==
    /\ partnerDesk.busy
    /\ partnerDesk' = [partnerDesk EXCEPT !.busy = FALSE, !.there = TRUE, !.tier = partner.tier,
                           !.rows = [d \in Deliveries |-> delivery[d].status]]
    /\ UNCHANGED <<partner, deliveryVars>>

\* The loads go on behind the notice, and none of them takes it away.
PartnersFail ==
    /\ partnerDesk.busy
    /\ partnerDesk' = [partnerDesk EXCEPT !.busy = FALSE, !.error = TRUE]
    /\ UNCHANGED <<partner, deliveryVars>>

PartnersPage == partnerDesk.there /\ ~ partnerDesk.error

\* Dispatch due webhooks: the button waits for its own run and not for the ticker's.
PressDispatch ==
    /\ PartnersPage /\ StartRun(Button)
    /\ UNCHANGED <<partner, delivery, posts, accepted, partnerDesk>>

\* The accounts: a partner shown in sandbox has the button.  Certify asks for a call on
\* any day and promotes nobody who has left the sandbox, without saying so.
PressCertify ==
    /\ PartnersPage /\ partnerDesk.tier = "SANDBOX"
    /\ partner' = IF partner.everCalled /\ partner.tier = "SANDBOX"
                  THEN [partner EXCEPT !.tier = "LIVE"] ELSE partner
    /\ partnerDesk' = [partnerDesk EXCEPT !.busy = TRUE]
    /\ UNCHANGED deliveryVars

\* The deliveries: Replay stands beside the ones shown dead or retrying, and the row
\* decides.  When it is refused nothing is said and nothing loaded.
PressReplayDelivery(d) ==
    /\ PartnersPage /\ partnerDesk.rows[d] \in {"DEAD", "RETRYING"}
    /\ IF delivery[d].status \in {"DEAD", "RETRYING"}
       THEN /\ delivery' = [delivery EXCEPT ![d] = [status |-> "PENDING", attempts |-> 0,
                                                    due |-> TRUE]]
            /\ partnerDesk' = [partnerDesk EXCEPT !.busy = TRUE]
       ELSE UNCHANGED <<delivery, partnerDesk>>
    /\ UNCHANGED <<partner, posts, accepted, run>>

AccountNext == PartnerCalls \/ NewDay \/ Suspend \/ PressCertify

WebhookNext ==
    \/ \E d \in Deliveries : Enqueue(d) \/ BackoffPasses(d) \/ PressReplayDelivery(d)
    \/ TickerRuns \/ PressDispatch
    \/ \E w \in Dispatchers :
           \/ Record(w)
           \/ \E failed \in BOOLEAN : RunEnds(w, failed)
           \/ \E took, answered \in BOOLEAN : \E j \in run[w].jobs : Post(w, j, took, answered)

PartnersNext ==
    \/ AccountNext \/ WebhookNext
    \/ LoadPartners \/ PartnersCome \/ PartnersFail

PartnersSpec == PartnersInit /\ [][PartnersNext]_partnerVars

-----------------------------------------------------------------------------
(* Properties                                                               *)

\* The log a partner is shown does not claim too much, however the two dispatchers and
\* a replay overtake one another: what it calls delivered was accepted, what it counts
\* as attempts was tried, and nothing is given up before its endpoint has been tried
\* MaxAttempts times (partner.go:332-402, 424-436).
DeliveryLogIsTrue ==
    \A d \in Deliveries :
        /\ delivery[d].status = "DELIVERED" => d \in accepted
        /\ delivery[d].attempts <= posts[d]
        /\ delivery[d].status = "DEAD" => posts[d] >= MaxAttempts

\* What the log is for and the code does not keep: a delivery that arrived stays
\* delivered (partner.go:369-392 writes a row by its id alone).
DeliveredStays ==
    [][\A d \in Deliveries : delivery[d].status = "DELIVERED" => delivery'[d].status = "DELIVERED"]_partnerVars
=============================================================================
