------------------------------ MODULE Booking ------------------------------
(***************************************************************************)
(* The life of an online booking on one trip: the handlers of httpapi      *)
(* (booking.go, payment.go, postbooking.go) and commerce-service, composed *)
(* with inventory-service.  A handler is a worker that makes several       *)
(* transactions one after the other; each action is one of these           *)
(* transactions.  No step is forced, so a handler that stops between two   *)
(* of them, because the process died or the client went away, is a worker  *)
(* that never takes its next step.                                         *)
(*                                                                         *)
(* A read whose result no other step can change, or that the writes after  *)
(* it do not depend on, is part of the step that uses it.  A statement     *)
(* that fails stops the handler as well, unless the code compensates or    *)
(* ignores the error.                                                      *)
(***************************************************************************)
EXTENDS Ledger, FiniteSets, Sequences, FiniteSetsExt

CONSTANTS
    Seats, Crew, NumSegments, Holds, Counters, MaxQuotaSeats, SweepLimit,
    Bookings,       \* the booking ids the behaviour may mint
    Txns,           \* the provider transaction ids
    Workers,        \* requests the API serves at the same time
    MaxParty,       \* seats of one hold (6)
    Fare,           \* fare of one seat for one segment
    RefundPcts,     \* refund_pct of the cancellation tiers
    MaxFaults,      \* bound: failed statements a handler goes on after
    None

ASSUME BookingConstants ==
    /\ NumSegments \in 1 .. 62 /\ Crew \subseteq Seats
    /\ SweepLimit \in Nat \ {0} /\ MaxQuotaSeats \in Nat \ {0} /\ MaxParty \in Nat \ {0}
    /\ IsFiniteSet(Seats) /\ IsFiniteSet(Holds) /\ IsFiniteSet(Bookings)
    /\ Fare \in Nat \ {0}
    /\ RefundPcts \subseteq 0 .. 100
    /\ MaxFaults \in Nat
    /\ None \notin Holds \cup Bookings

VARIABLES
    hold, sold, blocked, status, items, mask, expired, allocated,
    logHold, logSold,
    booking,    \* the commerce.bookings row of each id
    ticket,     \* ticket[b]: status of the tickets of booking b
    replaced,   \* replaced[b]: whose price the journal that ticketed b reversed
    intent,     \* intent[t]: what the customer agreed to pay under t
    payments,   \* the txns with a PAID row in commerce.payments
    refused,    \* the txns some delivery of which was answered with an error
    refunds,    \* the commerce.refunds rows in order of insertion
    ledger,     \* balance of every account
    task,       \* task[w]: where worker w is and what it has read
    stranded,   \* bookings whose seats a failed reschedule had given up
    faults      \* statements that have failed

Inv == INSTANCE Inventory

inventoryVars == <<hold, sold, blocked, status, items, mask, expired, allocated,
                   logHold, logSold>>
bookingVars   == <<booking, ticket, replaced>>
paymentVars   == <<intent, payments, refused>>
refundVars    == <<refunds>>
workerVars    == <<task, stranded, faults>>
vars == <<inventoryVars, bookingVars, paymentVars, refundVars, ledger, workerVars>>

-----------------------------------------------------------------------------
BookingStatuses == {"NONE", "PAYMENT_PENDING", "TICKETED", "CANCELLED",
                    "REFUND_PENDING", "REFUNDED"}

NoBooking == [status |-> "NONE", hold |-> None, total |-> 0, due |-> 0,
              of |-> None]
Idle      == [at |-> "idle"]

BookingRows == [status : BookingStatuses, hold : Holds \cup {None},
                total : Nat, due : Nat, of : Bookings \cup {None}]
Refunds     == [booking : Bookings, amount : Nat,
                status : {"REQUESTED", "REJECTED", "SUCCESS"}]
Intents     == [booking : Bookings, amount : Nat]

\* What a worker remembers between two transactions.
Tasks ==
    {Idle}
      \cup [at : {"paid", "confirmed"}, txn : Txns]
      \cup [at : {"quoted", "unseated"}, booking : Bookings, refund : Nat]
      \cup [at : {"settling"}, refund : Nat]
      \cup [at : {"moving"}, booking : Bookings]
      \cup [at : {"reheld", "vacated"}, booking : Bookings, hold : Holds]
      \cup [at : {"rebooked", "retired", "voided", "linked"},
            booking : Bookings, new : Bookings]

\* The type of bookings, payments, refunds, the ledger and the handlers at work
\* (003_commerce_finance.sql and the steps of the handlers).
TypeOK ==
    /\ Inv!TypeOK
    /\ booking \in [Bookings -> BookingRows]
    /\ ticket \in [Bookings -> {"NONE", "VALID", "CANCELLED"}]
    /\ replaced \in [Bookings -> Bookings \cup {None}]
    /\ DOMAIN intent \subseteq Txns /\ \A t \in DOMAIN intent : intent[t] \in Intents
    /\ payments \subseteq DOMAIN intent
    /\ refused \subseteq DOMAIN intent
    /\ refunds \in Seq(Refunds)
    /\ ledger \in Journals
    /\ task \in [Workers -> Tasks]
    /\ stranded \subseteq Bookings
    /\ faults \in 0 .. MaxFaults

Init ==
    /\ Inv!Init
    /\ booking = [b \in Bookings |-> NoBooking]
    /\ ticket = [b \in Bookings |-> "NONE"]
    /\ replaced = [b \in Bookings |-> None]
    /\ intent = <<>>
    /\ payments = {} /\ refused = {}
    /\ refunds = <<>>
    /\ ledger = EmptyJournal
    /\ task = [w \in Workers |-> Idle]
    /\ stranded = {}
    /\ faults = 0

-----------------------------------------------------------------------------
At(w, label) == task[w].at = label
Goto(w, next) == task' = [task EXCEPT ![w] = next] /\ UNCHANGED <<stranded, faults>>
Fault == faults < MaxFaults /\ faults' = faults + 1
SetStatus(b, st) == booking' = [booking EXCEPT ![b].status = st]

FareFor(S, m) == Fare * Cardinality(m) * Cardinality(S) + ServiceFee

\* CreateBooking: the price is the hold's.
CreateBooking(b, h) ==
    /\ booking[b].status = "NONE"
    /\ booking' = [booking EXCEPT ![b] =
           [status |-> "PAYMENT_PENDING", hold |-> h,
            total |-> FareFor(items[h], mask[h]), due |-> 0, of |-> None]]

\* The journal that tickets b: the price paid, or the change of price when b
\* replaces another booking.
Postings(b, paid) ==
    IF booking[b].of = None THEN GatewayPostings(paid)
    ELSE ReschedulePostings(booking[booking[b].of].total, booking[b].total)

\* Mutant of Finalise: the status guard of the UPDATE is gone.
FinaliseAgain(b, paid) ==
    /\ Variance(Postings(b, paid)) = 0
    /\ SetStatus(b, "TICKETED")
    /\ ticket' = [ticket EXCEPT ![b] = "VALID"]
    /\ replaced' = [replaced EXCEPT ![b] = booking[b].of]
    /\ ledger' = Posted(ledger, Postings(b, paid))

\* Finalise: at most once per booking, its journal in the same transaction.
Finalise(b, paid) ==
    IF booking[b].status = "PAYMENT_PENDING"
    THEN /\ Variance(Postings(b, paid)) = 0
         /\ SetStatus(b, "TICKETED")
         /\ ticket' = [ticket EXCEPT ![b] = "VALID"]
         /\ replaced' = [replaced EXCEPT ![b] = booking[b].of]
         /\ ledger' = Posted(ledger, Postings(b, paid))
    ELSE UNCHANGED <<bookingVars, ledger>>

\* Mutant of GiveUpSeats: the release that handles HELD bits only.
GiveUpHeldSeats(h) ==
    \/ Inv!ReleaseHold(h)
    \/ status[h] # "HELD" /\ UNCHANGED inventoryVars

\* ReleaseConfirmed as its callers see it: only a CONFIRMED hold is touched.
GiveUpSeats(h) ==
    \/ Inv!ReleaseConfirmed(h)
    \/ status[h] # "CONFIRMED" /\ UNCHANGED inventoryVars

ReleaseNewHold(h) ==
    \/ Inv!ReleaseHold(h)
    \/ status[h] # "HELD" /\ UNCHANGED inventoryVars

-----------------------------------------------------------------------------
\* Travellers choose seats and abandon them, deadlines pass and the sweeper
\* runs: all of that is inventory-service alone.
HoldSeats(h, S, m) ==
    /\ Cardinality(S) <= MaxParty
    /\ Inv!AcquireHold(h, S, m)
    /\ UNCHANGED <<bookingVars, paymentVars, refundVars, ledger, workerVars>>

SeatsMoveAlone ==
    /\ \/ \E h \in Holds : Inv!ReleaseHold(h)
       \/ \E h \in Holds : Inv!DeadlinePasses(h)
       \/ \E H \in SUBSET Holds : Inv!SweepExpired(H)
    /\ UNCHANGED <<bookingVars, paymentVars, refundVars, ledger, workerVars>>

\* handleCreateBooking.  Nothing stops a second booking of the same hold.
BookHold(b, h) ==
    /\ status[h] = "HELD" /\ h \notin expired
    /\ CreateBooking(b, h)
    /\ UNCHANGED <<inventoryVars, ticket, replaced, paymentVars, refundVars, ledger, workerVars>>

\* handlePaymentIntent signs the booking's total and sends the customer to the
\* provider.  A booking a reschedule is still working on is listed in the
\* account page like any other.
PaymentIntent(t, b) ==
    /\ t \notin DOMAIN intent
    /\ booking[b].status = "PAYMENT_PENDING"
    /\ intent' = [u \in DOMAIN intent \cup {t} |->
                    IF u = t THEN [booking |-> b, amount |-> booking[b].total]
                             ELSE intent[u]]
    /\ UNCHANGED <<inventoryVars, bookingVars, payments, refused, refundVars, ledger,
                   workerVars>>

\* COALESCE(NULLIF(amount_due_poisha, 0), total_poisha)
Expected(b) == IF booking[b].due # 0 THEN booking[b].due ELSE booking[b].total
Accepted(t) == intent[t].amount = Expected(intent[t].booking)

\* HandleWebhook up to the payment row.  The provider delivers t as often as
\* it likes; a delivery that finds the row is acknowledged and does nothing.
WebhookPay(w, t) ==
    /\ At(w, "idle")
    /\ t \in DOMAIN intent \ payments
    /\ Accepted(t)
    /\ payments' = payments \cup {t}
    /\ Goto(w, [at |-> "paid", txn |-> t])
    /\ UNCHANGED <<inventoryVars, bookingVars, intent, refused, refundVars, ledger>>

WebhookReject(t) ==
    /\ t \in DOMAIN intent /\ ~Accepted(t)
    /\ refused' = refused \cup {t}
    /\ UNCHANGED <<inventoryVars, bookingVars, intent, payments, refundVars, ledger,
                   workerVars>>

\* Mutant of WebhookConfirm: ConfirmHold's error is logged and ignored.
ConfirmIgnoringErrors(w) ==
    /\ At(w, "paid")
    /\ LET h == booking[intent[task[w].txn].booking].hold
       IN  Inv!ConfirmHold(h) \/ (status[h] # "HELD" /\ UNCHANGED inventoryVars)
    /\ Goto(w, [task[w] EXCEPT !.at = "confirmed"])
    /\ UNCHANGED <<bookingVars, paymentVars, refundVars, ledger>>

\* ... and then the seats.  ConfirmHold is a no-op on a CONFIRMED hold and an
\* error on one that was released or has expired.
WebhookConfirm(w) ==
    /\ At(w, "paid")
    /\ LET t == task[w].txn
           h == booking[intent[t].booking].hold
       IN  \/ /\ \/ Inv!ConfirmHold(h)
                 \/ status[h] = "CONFIRMED" /\ UNCHANGED inventoryVars
              /\ Goto(w, [at |-> "confirmed", txn |-> t])
              /\ UNCHANGED refused
           \/ /\ status[h] \notin {"HELD", "CONFIRMED"}
              /\ refused' = refused \cup {t}
              /\ Goto(w, Idle)
              /\ UNCHANGED inventoryVars
    /\ UNCHANGED <<bookingVars, intent, payments, refundVars, ledger>>

WebhookFinalise(w) ==
    /\ At(w, "confirmed")
    /\ LET i == intent[task[w].txn]
       IN  Finalise(i.booking, i.amount)
    /\ Goto(w, Idle)
    /\ UNCHANGED <<inventoryVars, paymentVars, refundVars>>

-----------------------------------------------------------------------------
\* CancelBooking.  The quote is made outside the transaction that uses it.
CancelQuote(w, b, pct) ==
    /\ At(w, "idle")
    /\ booking[b].status = "TICKETED"
    /\ Goto(w, [at |-> "quoted", booking |-> b,
                refund |-> (booking[b].total * pct) \div 100])
    /\ UNCHANGED <<inventoryVars, bookingVars, paymentVars, refundVars, ledger>>

CancelRelease(w) ==
    /\ At(w, "quoted")
    /\ GiveUpSeats(booking[task[w].booking].hold)
    /\ Goto(w, [task[w] EXCEPT !.at = "unseated"])
    /\ UNCHANGED <<bookingVars, paymentVars, refundVars, ledger>>

CancelRecord(w) ==
    /\ At(w, "unseated")
    /\ LET b == task[w].booking
           amount == task[w].refund
       IN  /\ ledger' = IF amount > 0
                        THEN Posted(ledger, CancellationPostings(booking[b].total, amount))
                        ELSE ledger
           /\ refunds' = Append(refunds, [booking |-> b, amount |-> amount,
                  status |-> IF amount > 0 THEN "REQUESTED" ELSE "REJECTED"])
           /\ SetStatus(b, IF amount > 0 THEN "REFUND_PENDING" ELSE "CANCELLED")
           /\ ticket' = [ticket EXCEPT ![b] = "CANCELLED"]
    /\ Goto(w, Idle)
    /\ UNCHANGED <<inventoryVars, replaced, paymentVars>>

\* SettleRefund: some REQUESTED row of the booking, read outside the
\* transaction that pays it out.
SettleRead(w, i) ==
    /\ At(w, "idle")
    /\ i \in DOMAIN refunds /\ refunds[i].status = "REQUESTED"
    /\ Goto(w, [at |-> "settling", refund |-> i])
    /\ UNCHANGED <<inventoryVars, bookingVars, paymentVars, refundVars, ledger>>

SettleRefund(w) ==
    /\ At(w, "settling")
    /\ LET i == task[w].refund
       IN  /\ ledger' = Posted(ledger, RefundPostings(refunds[i].amount))
           /\ refunds' = [refunds EXCEPT ![i].status = "SUCCESS"]
           /\ SetStatus(refunds[i].booking, "REFUNDED")
    /\ Goto(w, Idle)
    /\ UNCHANGED <<inventoryVars, ticket, replaced, paymentVars>>

-----------------------------------------------------------------------------
\* handleReschedule, one action per transaction.
RescheduleRead(w, b) ==
    /\ At(w, "idle")
    /\ booking[b].status = "TICKETED"
    /\ Goto(w, [at |-> "moving", booking |-> b])
    /\ UNCHANGED <<inventoryVars, bookingVars, paymentVars, refundVars, ledger>>

RescheduleSeatTaken(w) ==
    /\ At(w, "moving")
    /\ Goto(w, Idle)
    /\ UNCHANGED <<inventoryVars, bookingVars, paymentVars, refundVars, ledger>>

RescheduleHold(w, h, S, m) ==
    /\ At(w, "moving")
    /\ Cardinality(S) <= MaxParty
    /\ Inv!AcquireHold(h, S, m)
    /\ Goto(w, [at |-> "reheld", booking |-> task[w].booking, hold |-> h])
    /\ UNCHANGED <<bookingVars, paymentVars, refundVars, ledger>>

\* Mutant of RescheduleCompensate: the fare is looked up after step 2.
CompensateTooLate(w) ==
    /\ At(w, "vacated")
    /\ ReleaseNewHold(task[w].hold)
    /\ Goto(w, Idle)
    /\ UNCHANGED <<bookingVars, paymentVars, refundVars, ledger>>

\* No fare, or the old seats could not be released: compensated in full.
RescheduleCompensate(w) ==
    /\ At(w, "reheld")
    /\ ReleaseNewHold(task[w].hold)
    /\ Goto(w, Idle)
    /\ UNCHANGED <<bookingVars, paymentVars, refundVars, ledger>>

RescheduleVacate(w) ==
    /\ At(w, "reheld")
    /\ GiveUpSeats(booking[task[w].booking].hold)
    /\ Goto(w, [task[w] EXCEPT !.at = "vacated"])
    /\ UNCHANGED <<bookingVars, paymentVars, refundVars, ledger>>

RescheduleBook(w, b) ==
    /\ At(w, "vacated")
    /\ CreateBooking(b, task[w].hold)
    /\ Goto(w, [at |-> "rebooked", booking |-> task[w].booking, new |-> b])
    /\ UNCHANGED <<inventoryVars, ticket, replaced, paymentVars, refundVars, ledger>>

\* CreateBooking failed.  The new hold is released like above, but the old
\* seats are gone already.
RescheduleFail(w) ==
    /\ At(w, "vacated")
    /\ Fault
    /\ ReleaseNewHold(task[w].hold)
    /\ stranded' = stranded \cup {task[w].booking}
    /\ task' = [task EXCEPT ![w] = Idle]
    /\ UNCHANGED <<bookingVars, paymentVars, refundVars, ledger>>

RescheduleRetire(w) ==
    /\ At(w, "rebooked")
    /\ SetStatus(task[w].booking, "CANCELLED")
    /\ Goto(w, [task[w] EXCEPT !.at = "retired"])
    /\ UNCHANGED <<inventoryVars, ticket, replaced, paymentVars, refundVars, ledger>>

RescheduleVoid(w) ==
    /\ At(w, "retired")
    /\ ticket' = [ticket EXCEPT ![task[w].booking] = "CANCELLED"]
    /\ Goto(w, [task[w] EXCEPT !.at = "voided"])
    /\ UNCHANGED <<inventoryVars, booking, replaced, paymentVars, refundVars, ledger>>

\* One of these two statements fails: the handler ignores that and goes on.
RescheduleIgnore(w) ==
    /\ At(w, "rebooked") \/ At(w, "retired")
    /\ Fault
    /\ task' = [task EXCEPT ![w].at = IF @ = "rebooked" THEN "retired" ELSE "voided"]
    /\ UNCHANGED <<inventoryVars, bookingVars, paymentVars, refundVars, ledger, stranded>>

\* Mutant of RescheduleLink: the new booking is settled whatever the difference.
LinkAndSettle(w) ==
    /\ At(w, "voided")
    /\ booking' = [booking EXCEPT ![task[w].new].of = task[w].booking]
    /\ Goto(w, [task[w] EXCEPT !.at = "linked"])
    /\ UNCHANGED <<inventoryVars, ticket, replaced, paymentVars, refundVars, ledger>>

\* The new booking is linked to the old one; what is still due is the
\* difference, and when there is none the handler goes on to settle.
RescheduleLink(w) ==
    /\ At(w, "voided")
    /\ LET o == task[w].booking
           b == task[w].new
           diff == booking[b].total - booking[o].total
       IN  /\ booking' = [booking EXCEPT ![b].of = o,
                                         ![b].due = IF diff > 0 THEN diff ELSE 0]
           /\ Goto(w, IF diff > 0 THEN Idle ELSE [task[w] EXCEPT !.at = "linked"])
    /\ UNCHANGED <<inventoryVars, ticket, replaced, paymentVars, refundVars, ledger>>

\* SettleReschedule: the new booking is ticketed without a payment.
RescheduleSettle(w) ==
    /\ At(w, "linked")
    /\ Finalise(task[w].new, 0)
    /\ Goto(w, Idle)
    /\ UNCHANGED <<inventoryVars, paymentVars, refundVars>>

-----------------------------------------------------------------------------
Journeys == Inv!Journeys

WorkerStep(w) ==
    \/ WebhookConfirm(w) \/ WebhookFinalise(w)
    \/ CancelRelease(w) \/ CancelRecord(w)
    \/ SettleRefund(w)
    \/ RescheduleSeatTaken(w) \/ RescheduleCompensate(w) \/ RescheduleVacate(w)
    \/ \E b \in Bookings : RescheduleBook(w, b)
    \/ RescheduleFail(w)
    \/ RescheduleRetire(w) \/ RescheduleVoid(w) \/ RescheduleIgnore(w)
    \/ RescheduleLink(w) \/ RescheduleSettle(w)

Next ==
    \/ \E h \in Holds, S \in SUBSET Seats, m \in Journeys : HoldSeats(h, S, m)
    \/ SeatsMoveAlone
    \/ \E b \in Bookings, h \in Holds : BookHold(b, h)
    \/ \E t \in Txns, b \in Bookings : PaymentIntent(t, b)
    \/ \E w \in Workers, t \in Txns : WebhookPay(w, t)
    \/ \E t \in Txns : WebhookReject(t)
    \/ \E w \in Workers, b \in Bookings, pct \in RefundPcts : CancelQuote(w, b, pct)
    \/ \E w \in Workers, i \in DOMAIN refunds : SettleRead(w, i)
    \/ \E w \in Workers, b \in Bookings : RescheduleRead(w, b)
    \/ \E w \in Workers, h \in Holds, S \in SUBSET Seats, m \in Journeys :
          RescheduleHold(w, h, S, m)
    \/ \E w \in Workers : WorkerStep(w)

Spec == Init /\ [][Next]_vars

-----------------------------------------------------------------------------
Ticketed(b)  == booking[b].status = "TICKETED"
Cancelled(b) == booking[b].status \in {"CANCELLED", "REFUND_PENDING", "REFUNDED"}
OnlyBookingOfItsHold(b) == \A c \in Bookings \ {b} : booking[c].hold # booking[b].hold

\* A handler has released the seats of b and is still to say so in commerce,
\* has failed there, or has moved b, whether b's status says so or not.
LeavingSeats(b) ==
    \/ b \in stranded
    \/ \E w \in Workers :
          /\ task[w].at \in {"unseated", "vacated", "rebooked", "retired", "voided"}
          /\ task[w].booking = b
    \/ \E c \in Bookings : booking[c].of = b

\* A ticket is worth a seat.  Payment, seat and ticket are three transactions
\* of two services, run against abandoned holds, the sweeper and cancellations:
\* a ticketed booking that nobody is cancelling or has moved owns sold seats.
\* (Bookings that share a hold, and those a reschedule made, do not have this.)
TicketKeepsSeat ==
    \A b \in Bookings :
        Ticketed(b) /\ OnlyBookingOfItsHold(b) /\ booking[b].of = None /\ ~LeavingSeats(b)
            => status[booking[b].hold] = "CONFIRMED"

\* No seat is sold before the money is there (the order of HandleWebhook's
\* chain), and nobody has a ticket who has not paid for it, be it as part of a
\* booking that cost as much and was moved.
SoldSeatsArePaid ==
    \A h \in Holds : status[h] = "CONFIRMED" =>
        \E t \in payments : booking[intent[t].booking].hold = h
TicketsArePaid ==
    \A b \in Bookings : ticket[b] # "NONE" =>
        \/ \E t \in payments : intent[t].booking = b /\ intent[t].amount >= Expected(b)
        \/ LET o == booking[b].of
           IN  o # None /\ ticket[o] # "NONE" /\ booking[b].total <= booking[o].total
NothingUnpaid == SoldSeatsArePaid /\ TicketsArePaid

\* A cancelled booking's seats are free to be sold again: whatever late
\* payment or second cancellation is still on its way.  (A reschedule tickets
\* the new booking while its hold is still HELD; cancelling that one releases
\* nothing, and a payment already under way may still sell the seats.)
CancelledFreesSeats ==
    \A b \in Bookings :
        Cancelled(b) /\ OnlyBookingOfItsHold(b) /\ booking[b].of = None
            => status[booking[b].hold] # "CONFIRMED"

\* The books balance, and the revenue they show is exactly that of the
\* bookings ticketed, each counted once, less the refunds granted: however
\* often a payment is delivered and however handlers interleave.  A booking that
\* replaces another counts for the change of price only, unless it was paid in
\* full before the reschedule had linked it.
Revenue(b) == IF replaced[b] = None THEN booking[b].total
              ELSE booking[b].total - booking[replaced[b]].total
LedgerMatchesSales ==
    /\ Variance(ledger) = 0
    /\ -(ledger["2101"] + ledger["4101"]) =
          SumFunctionOnSet([b \in Bookings |-> Revenue(b)],
                           {b \in Bookings : ticket[b] # "NONE"})
            - SumFunctionOnSet([i \in DOMAIN refunds |-> refunds[i].amount], DOMAIN refunds)

\* postbooking.go:185-187: "If any step fails the new hold is released and the
\* ORIGINAL ticket is left untouched, so a failed reschedule can never strand a
\* passenger without a seat."
RescheduleKeepsSeat ==
    \A b \in stranded :
        Ticketed(b) /\ OnlyBookingOfItsHold(b) => status[booking[b].hold] = "CONFIRMED"

\* payment.go:141 answers a payment that could not be confirmed with "You have
\* not been charged."
RefusedMeansNotCharged == refused \cap payments = {}

\* postbooking.go:339 "Pay the difference to receive your new ticket.": what
\* the customer is asked to pay for a published booking is what the webhook
\* accepts.
DifferenceIsPayable ==
    \A t \in DOMAIN intent :
        booking[intent[t].booking].status = "PAYMENT_PENDING" => Accepted(t)

\* cancellation.go:249 calls SettleRefund "idempotent" and the package settles
\* refunds through the ledger: what account 2201 still owes covers every refund
\* that is still REQUESTED.
RefundsPaidOnce ==
    -ledger["2201"] >=
       MapThenSumSet(LAMBDA i : refunds[i].amount,
                     {i \in DOMAIN refunds : refunds[i].status = "REQUESTED"})
=============================================================================
