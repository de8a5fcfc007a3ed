------------------------------ MODULE MyBooking ------------------------------
(***************************************************************************)
(* A passenger looks after a booking on the web site: the pages manage,    *)
(* manage/[pnr], manage/[pnr]/reschedule and tickets/[pnr] of apps/web/app *)
(* in the tabs of one device, the device's own copy of the ticket          *)
(* (lib/offlineTickets.ts, public/ticket-sw.js), and the handlers of       *)
(* httpapi/postbooking.go.                                                 *)
(*                                                                         *)
(* A tab acts on what it loaded, which may be out of date.  A request is   *)
(* sent, served and answered in three steps, and the answer may get lost.  *)
(* A handler is one step here; module Booking has its transactions.        *)
(***************************************************************************)
EXTENDS Queues, SequencesExt, FiniteSetsExt

CONSTANTS
    MyTabs, Pnrs, Trips, BusSeats,
    Bought,         \* the booking bought beforehand
    FirstTrip, FirstSeats,
    Fare,           \* Fare[t]: the published fare of trip t
    ServiceFee,
    Pct,            \* refund_pct of the tiers, the last one before departure first
    Far,            \* Far[t]: the tier trip t is in at first
    MaxKept,        \* tickets a device keeps (20)
    Unset

ASSUME MyBookingConstants ==
    /\ IsFiniteSet(Pnrs) /\ IsFiniteSet(BusSeats)
    /\ Bought \in Pnrs /\ FirstTrip \in Trips /\ FirstSeats \in (SUBSET BusSeats) \ {{}}
    /\ Fare \in [Trips -> Nat] /\ ServiceFee \in Nat
    /\ Pct \in Seq(0 .. 100) /\ Far \in [Trips -> 0 .. Len(Pct)]
    /\ MaxKept \in Nat \ {0}
    /\ Unset \notin Pnrs \cup Trips \cup MyTabs

VARIABLES
    mine,       \* mine[p]: the commerce.bookings row, with the seats it has
    refund,     \* refund[p]: the commerce.refunds row of p
    owed,       \* 2201, what the books owe passengers
    elsewhere,  \* <<trip, seat>> sold to others
    tier,       \* tier[t]: the tier that t has reached, 0 when it has departed
    opened,     \* opened[k]: what tab k shows
    req,        \* req[k]: its request in flight
    answers,    \* tickets on their way to a ticket page
    kept,       \* jatra.tickets, newest first
    shell       \* the service worker has a ticket page in its cache

records       == <<mine, refund, owed, elsewhere, tier>>
device        == <<kept, shell>>
myBookingVars == <<records, opened, req, answers, device>>

-----------------------------------------------------------------------------
Statuses == {"none", "PAYMENT_PENDING", "TICKETED", "CANCELLED", "REFUND_PENDING", "REFUNDED"}
Dead     == {"CANCELLED", "REFUND_PENDING", "REFUNDED"}

NoBooking == [status |-> "none", trip |-> Unset, seats |-> {}, party |-> 0, total |-> 0,
              of |-> Unset]
NoRefund  == [status |-> "none", amount |-> 0]
Unseen    == [status |-> "none", refund |-> "none"]
NoQuote   == [cancellable |-> FALSE, refund |-> -1]
NoChoice  == [trip |-> Unset, difference |-> 0]
NotTold   == -1
Silent    == [at |-> "quiet"]

Fresh(at, p) ==
    [at |-> at, pnr |-> p, seen |-> Unseen, quote |-> NoQuote, asking |-> FALSE,
     told |-> NotTold, offers |-> {}, choice |-> NoChoice, free |-> {}, picked |-> {},
     asked |-> FALSE]

Pages == [at : {"find", "manage", "reschedule", "ticket", "503"}, pnr : Pnrs,
          seen : [status : Statuses, refund : {"none", "REQUESTED", "SUCCESS", "REJECTED"}],
          quote : [cancellable : BOOLEAN, refund : Int], asking : BOOLEAN, told : Int,
          offers : SUBSET Trips, choice : [trip : Trips \cup {Unset}, difference : Int],
          free : SUBSET BusSeats, picked : SUBSET BusSeats,
          asked : BOOLEAN]

Calls == [at : {"sent", "answered", "refused"}, do : {"cancel", "settle", "move"},
          pnr : Pnrs, here : BOOLEAN, choice : [trip : Trips \cup {Unset}, difference : Int],
          seats : SUBSET BusSeats, result : Int, new : Pnrs]

\* The type of bookings, the tabs and the tickets kept on the device (manage/[pnr]/page.tsx).
MyBookingTypeOK ==
    /\ mine \in [Pnrs -> [status : Statuses, trip : Trips \cup {Unset}, seats : SUBSET BusSeats,
                          party : Nat, total : Nat, of : Pnrs \cup {Unset}]]
    /\ refund \in [Pnrs -> [status : {"none", "REQUESTED", "SUCCESS", "REJECTED"}, amount : Nat]]
    /\ owed \in Int
    /\ elsewhere \subseteq Trips \X BusSeats
    /\ tier \in [Trips -> 0 .. Len(Pct)]
    /\ opened \in [MyTabs -> Pages]
    /\ \A k \in MyTabs : Cardinality(opened[k].picked) <= mine[opened[k].pnr].party
    /\ req \in [MyTabs -> Calls \cup {Silent}]
    /\ answers \subseteq [to : MyTabs \cup {Unset}, pnr : Pnrs, status : Statuses]
    /\ kept \in Seq([pnr : Pnrs, status : Statuses]) /\ Len(kept) <= MaxKept
    /\ shell \in BOOLEAN

Total(t, n) == Fare[t] * n + ServiceFee

MyBookingInit ==
    /\ mine = [p \in Pnrs |-> IF p # Bought THEN NoBooking
           ELSE [status |-> "TICKETED", trip |-> FirstTrip, seats |-> FirstSeats,
                 party |-> Cardinality(FirstSeats),
                 total |-> Total(FirstTrip, Cardinality(FirstSeats)), of |-> Unset]]
    /\ refund = [p \in Pnrs |-> NoRefund]
    /\ owed = 0
    /\ elsewhere = {}
    /\ tier = Far
    /\ opened = [k \in MyTabs |-> Fresh("find", Bought)]
    /\ req = [k \in MyTabs |-> Silent]
    /\ answers = {}
    /\ kept = <<>> /\ shell = FALSE

-----------------------------------------------------------------------------
(* Moving between pages                                                     *)

Shows(k, at) == opened[k].at = at
Pending(k) == req[k] # Silent /\ req[k].here
Active(status) == status = "TICKETED"

\* The copy of p on this device, if there is one.
Recalled(p) ==
    LET S == {i \in DOMAIN kept : kept[i].pnr = p}
    IN  IF S = {} THEN "none" ELSE kept[Min(S)].status

\* What is mounted in place of the old page; the callbacks of the old one find
\* nothing to update.
Mount(k, new) ==
    /\ opened' = [opened EXCEPT ![k] = new]
    /\ answers' = {IF a.to = k THEN [a EXCEPT !.to = Unset] ELSE a : a \in answers}
    /\ req' = IF req[k] = Silent THEN req ELSE [req EXCEPT ![k].here = FALSE]

\* The form of manage asks for the booking and goes to its page.
Find(k, p) ==
    /\ Shows(k, "find") /\ mine[p].status # "none"
    /\ Mount(k, Fresh("manage", p))
    /\ UNCHANGED <<records, device>>

\* The rows of the booking page; changing needs a booking seen as active.
Links(k) == {"manage", "ticket"} \cup
            (IF Active(opened[k].seen.status) THEN {"reschedule"} ELSE {})

\* The ticket page draws the device's copy first.  Without a connection the
\* service worker serves any ticket shell it has, or nothing but a 503.
Drawn(p) == {[Fresh("ticket", p) EXCEPT !.seen.status = Recalled(p)]}
              \cup (IF shell THEN {} ELSE {Fresh("503", p)})

Follow(k, at) ==
    /\ opened[k].at \notin {"find", "503"} /\ at \in Links(k)
    /\ \E new \in IF at = "ticket" THEN Drawn(opened[k].pnr) ELSE {Fresh(at, opened[k].pnr)} :
          Mount(k, new)
    /\ UNCHANGED <<records, device>>

Leave(k) ==
    /\ ~Shows(k, "find")
    /\ Mount(k, Fresh("find", Bought))
    /\ UNCHANGED <<records, device>>

Post(k, do, choice, seats) ==
    /\ req[k] = Silent
    /\ req' = [req EXCEPT ![k] = [at |-> "sent", do |-> do, pnr |-> opened[k].pnr, here |-> TRUE,
                                  choice |-> choice, seats |-> seats, result |-> 0,
                                  new |-> opened[k].pnr]]
    /\ UNCHANGED <<records, opened, answers, device>>

Posted(k, do) == req[k] # Silent /\ req[k].at = "sent" /\ req[k].do = do
Decline(k)   == req' = [req EXCEPT ![k].at = "refused"]

-----------------------------------------------------------------------------
(* manage/[pnr]                                                             *)

\* QuoteCancellation: the tier the trip is in now decides.
Quote(p) ==
    IF Active(mine[p].status) /\ tier[mine[p].trip] > 0
    THEN [cancellable |-> TRUE,
          refund |-> (mine[p].total * Pct[tier[mine[p].trip]]) \div 100]
    ELSE NoQuote

Loaded(k) == [opened[k] EXCEPT !.seen = [status |-> mine[opened[k].pnr].status,
                                         refund |-> refund[opened[k].pnr].status]]

\* load(): the quote may fail to come, and says nothing when it does.
LoadManage(k) ==
    /\ Shows(k, "manage")
    /\ opened' \in {[opened EXCEPT ![k] = Loaded(k)],
                    [opened EXCEPT ![k] = [Loaded(k) EXCEPT !.quote = Quote(opened[k].pnr)]]}
    /\ UNCHANGED <<records, req, answers, device>>

\* The way out is offered for a booking seen as active, with a quote in hand.
WayOut(k) == Shows(k, "manage") /\ Active(opened[k].seen.status) /\ opened[k].quote.cancellable

\* "Cancel this booking" opens the alert, "Keep" closes it.
Ask(k) ==
    /\ WayOut(k) /\ ~Pending(k)
    /\ opened' = [opened EXCEPT ![k].asking = ~@]
    /\ UNCHANGED <<records, req, answers, device>>

Confirm(k) == WayOut(k) /\ opened[k].asking /\ Post(k, "cancel", NoChoice, {})

\* CancelBooking
Cancel(k) ==
    LET p == req[k].pnr
        q == Quote(p)
    IN  /\ Posted(k, "cancel")
        /\ IF q.cancellable
           THEN /\ mine' = [mine EXCEPT ![p].seats = {},
                      ![p].status = IF q.refund > 0 THEN "REFUND_PENDING" ELSE "CANCELLED"]
                /\ refund' = [refund EXCEPT ![p] =
                      [status |-> IF q.refund > 0 THEN "REQUESTED" ELSE "REJECTED",
                       amount |-> q.refund]]
                /\ owed' = owed + q.refund
                /\ req' = [req EXCEPT ![k].at = "answered", ![k].result = q.refund]
           ELSE Decline(k) /\ UNCHANGED <<mine, refund, owed>>
        /\ UNCHANGED <<elsewhere, tier, opened, answers, device>>

\* What a cancellation leaves on the page: the refund of the answer.
Cancelled(k) == [opened[k] EXCEPT !.told = req[k].result, !.asking = FALSE]

\* The refund card; its button only while the refund is seen as REQUESTED.
Settle(k) ==
    /\ Shows(k, "manage") /\ opened[k].seen.refund = "REQUESTED"
    /\ Post(k, "settle", NoChoice, {})

\* Mutant of SettleRefund: whatever its status, the row is paid.
SettleAgain(k) ==
    LET p == req[k].pnr IN
    /\ Posted(k, "settle")
    /\ refund' = [refund EXCEPT ![p].status = "SUCCESS"]
    /\ owed' = owed - refund[p].amount
    /\ mine' = [mine EXCEPT ![p].status = "REFUNDED"]
    /\ req' = [req EXCEPT ![k].at = "answered"]
    /\ UNCHANGED <<elsewhere, tier, opened, answers, device>>

\* SettleRefund: nothing outstanding is a success too.
SettleRefund(k) ==
    LET p == req[k].pnr IN
    /\ Posted(k, "settle")
    /\ IF refund[p].status = "REQUESTED"
       THEN /\ refund' = [refund EXCEPT ![p].status = "SUCCESS"]
            /\ owed' = owed - refund[p].amount
            /\ mine' = [mine EXCEPT ![p].status = "REFUNDED"]
       ELSE UNCHANGED <<refund, owed, mine>>
    /\ req' = [req EXCEPT ![k].at = "answered"]
    /\ UNCHANGED <<elsewhere, tier, opened, answers, device>>

-----------------------------------------------------------------------------
(* manage/[pnr]/reschedule                                                  *)

TakenOn(t) == {s \in BusSeats : <<t, s>> \in elsewhere}
              \cup UNION {mine[p].seats : p \in {q \in Pnrs : mine[q].trip = t}}

Difference(p, t) == Total(t, mine[p].party) - mine[p].total

\* handleRescheduleOptions: the other trips with seats enough for the party.
Eligible(p) == {t \in Trips \ {mine[p].trip} :
                  tier[t] > 0 /\ Cardinality(BusSeats \ TakenOn(t)) >= mine[p].party}

LoadOptions(k) ==
    /\ Shows(k, "reschedule")
    /\ opened' = [opened EXCEPT ![k].offers = Eligible(opened[k].pnr)]
    /\ UNCHANGED <<records, req, answers, device>>

\* A departure is chosen: the seats drawn free are those of the moment.
Choose(k, t) ==
    /\ Shows(k, "reschedule") /\ t \in opened[k].offers
    /\ opened' = [opened EXCEPT ![k].choice = [trip |-> t, difference |-> Difference(opened[k].pnr, t)],
                            ![k].free = BusSeats \ TakenOn(t), ![k].picked = {}]
    /\ UNCHANGED <<records, req, answers, device>>

Pick(k, s) ==
    /\ Shows(k, "reschedule") /\ ~Pending(k) /\ s \in opened[k].free
    /\ s \in opened[k].picked \/ Cardinality(opened[k].picked) < mine[opened[k].pnr].party
    /\ opened' = [opened EXCEPT ![k].picked = IF s \in @ THEN @ \ {s} ELSE @ \cup {s}]
    /\ UNCHANGED <<records, req, answers, device>>

\* The button in the fascia: as many seats as the party has.
ConfirmMove(k) ==
    /\ Shows(k, "reschedule") /\ opened[k].choice # NoChoice
    /\ Cardinality(opened[k].picked) = mine[opened[k].pnr].party
    /\ Post(k, "move", opened[k].choice, opened[k].picked)

Movable(p, t, S) == Active(mine[p].status) /\ S \cap TakenOn(t) = {}

\* Mutant of Moved: the new fare is priced whole, as if nothing had been paid.
MovedAtFullPrice(p, new, t, S) ==
    /\ mine' = [mine EXCEPT ![p].status = "CANCELLED", ![p].seats = {},
          ![new] = [status |-> "PAYMENT_PENDING", trip |-> t, seats |-> S,
                    party |-> Cardinality(S),
                    total |-> mine[p].total + Total(t, Cardinality(S)), of |-> p]]
    /\ UNCHANGED owed

\* What handleReschedule leaves: the new booking is ticketed when nothing is
\* due, and what was overpaid becomes Refund Payable.
Moved(p, new, t, S) ==
    LET total == Total(t, Cardinality(S)) IN
    /\ mine' = [mine EXCEPT ![p].status = "CANCELLED", ![p].seats = {},
          ![new] = [status |-> IF total > mine[p].total THEN "PAYMENT_PENDING" ELSE "TICKETED",
                    trip |-> t, seats |-> S, party |-> Cardinality(S), total |-> total, of |-> p]]
    /\ owed' = owed + Max({0, mine[p].total - total})

Move(k) ==
    LET p == req[k].pnr
        t == req[k].choice.trip
        S == req[k].seats
    IN  /\ Posted(k, "move")
        /\ \/ \E new \in Pnrs :
                /\ Movable(p, t, S) /\ mine[new] = NoBooking
                /\ Moved(p, new, t, S)
                /\ req' = [req EXCEPT ![k].at = "answered", ![k].new = new]
           \/ ~Movable(p, t, S) /\ Decline(k) /\ UNCHANGED <<mine, owed>>
        /\ UNCHANGED <<refund, elsewhere, tier, opened, answers, device>>

\* The hold of a replacement is never confirmed: the sweeper takes its seats.
Lapse(p) ==
    /\ mine[p].of # Unset /\ mine[p].seats # {}
    /\ mine' = [mine EXCEPT ![p].seats = {}]
    /\ UNCHANGED <<refund, owed, elsewhere, tier, opened, req, answers, device>>

-----------------------------------------------------------------------------
(* Answers                                                                  *)

\* 200.  The router moves the tab to the new booking wherever it is by now; the
\* other answers have nothing to update once their page is gone.
Answered(k) ==
    /\ req[k] # Silent /\ req[k].at = "answered"
    /\ IF req[k].do = "move"
       THEN /\ opened' = [opened EXCEPT ![k] = Fresh("manage", req[k].new)]
            /\ answers' = {IF a.to = k THEN [a EXCEPT !.to = Unset] ELSE a : a \in answers}
       ELSE /\ opened' = IF req[k].do = "cancel" /\ req[k].here
                         THEN [opened EXCEPT ![k] = Cancelled(k)] ELSE opened
            /\ UNCHANGED answers
    /\ req' = [req EXCEPT ![k] = Silent]
    /\ UNCHANGED <<records, device>>

\* A refusal, or no answer: an error on the page, and its button again.  After a
\* lost answer nobody knows whether the request was served.
NoAnswer(k) ==
    /\ req[k] # Silent
    /\ req' = [req EXCEPT ![k] = Silent]
    /\ UNCHANGED <<records, opened, answers, device>>

-----------------------------------------------------------------------------
(* tickets/[pnr]                                                            *)

\* The page asks for the booking when it is mounted, whatever the device has.
ServeTicket(k) ==
    /\ Shows(k, "ticket") /\ ~opened[k].asked
    /\ answers' = answers \cup
          {[to |-> k, pnr |-> opened[k].pnr, status |-> mine[opened[k].pnr].status]}
    /\ opened' = [opened EXCEPT ![k].asked = TRUE]
    /\ UNCHANGED <<records, req, device>>

\* What the device may have of p.
Copies(p) == [pnr : {p}, status : Statuses]

\* Mutant of Remember: nothing is ever dropped.
RememberAll(p, status) ==
    kept' = <<[pnr |-> p, status |-> status]>> \o Without(kept, Copies(p))

\* rememberTicket: in front of the others, in place of the old copy.
Remember(p, status) ==
    LET now == <<[pnr |-> p, status |-> status]>> \o Without(kept, Copies(p))
    IN  kept' = SubSeq(now, 1, Min({Len(now), MaxKept}))

\* The fresh answer replaces what is drawn and is written down, the latter even
\* if nobody shows the ticket any more.
ArriveTicket(a) ==
    /\ a \in answers
    /\ answers' = answers \ {a}
    /\ Remember(a.pnr, a.status)
    /\ opened' = IF a.to = Unset THEN opened
                 ELSE [opened EXCEPT ![a.to].seen.status = a.status]
    /\ UNCHANGED <<records, req, shell>>

\* No answer: a copy in hand outranks the error.
TicketFails(k) ==
    /\ Shows(k, "ticket")
    /\ ~opened[k].asked \/ \E a \in answers : a.to = k
    /\ opened' = [opened EXCEPT ![k].asked = TRUE]
    /\ answers' = {a \in answers : a.to # k}
    /\ UNCHANGED <<records, req, device>>

\* The worker is registered from the ticket page, and the page then warms
\* itself; a worker that is not in control within four seconds caches nothing.
Warm(k) ==
    /\ Shows(k, "ticket")
    /\ shell' = TRUE
    /\ UNCHANGED <<records, opened, req, answers, kept>>

-----------------------------------------------------------------------------
(* The others, and time                                                     *)

OthersBuy(t, s) ==
    /\ s \notin TakenOn(t)
    /\ elsewhere' = elsewhere \cup {<<t, s>>}
    /\ UNCHANGED <<mine, refund, owed, tier, opened, req, answers, device>>

TimePasses(t) ==
    /\ tier[t] > 0
    /\ tier' = [tier EXCEPT ![t] = @ - 1]
    /\ UNCHANGED <<mine, refund, owed, elsewhere, opened, req, answers, device>>

MyBookingNext ==
    \/ \E k \in MyTabs :
          \/ Leave(k) \/ LoadManage(k) \/ Ask(k) \/ Confirm(k) \/ Cancel(k)
          \/ Settle(k) \/ SettleRefund(k)
          \/ LoadOptions(k) \/ ConfirmMove(k) \/ Move(k)
          \/ Answered(k) \/ NoAnswer(k)
          \/ ServeTicket(k) \/ TicketFails(k) \/ Warm(k)
          \/ \E p \in Pnrs : Find(k, p)
          \/ \E at \in {"manage", "ticket", "reschedule"} : Follow(k, at)
          \/ \E t \in Trips : Choose(k, t)
          \/ \E s \in BusSeats : Pick(k, s)
    \/ \E a \in answers : ArriveTicket(a)
    \/ \E p \in Pnrs : Lapse(p)
    \/ \E t \in Trips, s \in BusSeats : OthersBuy(t, s)
    \/ \E t \in Trips : TimePasses(t)

MyBookingSpec == MyBookingInit /\ [][MyBookingNext]_myBookingVars

-----------------------------------------------------------------------------
(* Properties                                                               *)

Amounts == [p \in Pnrs |-> refund[p].amount]
Settled == {p \in Pnrs : refund[p].status = "SUCCESS"}

\* From however many tabs, and however often an answer was lost, the purchase
\* ends in at most one ticket, and what went back or is owed to the passenger
\* never exceeds what they paid for it.
OneTicketPerPurchase ==
    /\ Cardinality({p \in Pnrs : mine[p].status = "TICKETED"}) <= 1
    /\ owed + SumFunctionOnSet(Amounts, Settled)
          <= Total(FirstTrip, Cardinality(FirstSeats))
    /\ owed >= 0

\* reschedule/page.tsx:21-22: "the number accepted is the number charged".  The
\* prices of the old and the new booking differ by what the page showed.
MoveCostsTheQuote ==
    [][\A k \in MyTabs :
          (Posted(k, "move") /\ req'[k] # Silent /\ req'[k].at = "answered")
          => mine'[req'[k].new].total - mine[req[k].pnr].total
                = req[k].choice.difference]_myBookingVars

-----------------------------------------------------------------------------
\* offlineTickets.ts:22-25: the freshest answer always wins, so that a refund
\* does not leave a valid-looking ticket in a pocket forever.
FreshestAnswerWins ==
    [][\A p \in Pnrs : Recalled(p) \in Dead => Recalled(p)' \in Dead \cup {"none"}]_myBookingVars

\* postbooking.go:293-296: the overpayment becomes a Refund Payable the normal
\* refund path settles.  Nothing is owed that no refund row is there to settle.
OverpaymentSettles ==
    owed = SumFunctionOnSet(Amounts, {p \in Pnrs : refund[p].status = "REQUESTED"})
=============================================================================
