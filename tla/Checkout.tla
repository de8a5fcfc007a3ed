------------------------------ MODULE Checkout ------------------------------
(***************************************************************************)
(* A passenger buys a ticket on the web site: the pages trips/[tripId],    *)
(* checkout, payment/[bookingId], payment/sandbox and confirmation/[pnr]   *)
(* of apps/web/app, and the handlers of httpapi/booking.go and payment.go  *)
(* they talk to.                                                           *)
(*                                                                         *)
(* A page is a URL and the state React keeps while it is mounted.  The     *)
(* browser can go back to any URL the tab has shown; only sessionStorage   *)
(* survives that.  A request is sent, served and answered in three steps,  *)
(* and the answer may never arrive.  What happens between the transactions *)
(* of a handler is the subject of module Booking; here a handler is one    *)
(* step.  The trip has one segment.                                        *)
(***************************************************************************)
EXTENDS Integers, FiniteSets

CONSTANTS
    Tabs,       \* browser tabs, each a passenger
    Seats, Holds, Bookings, Txns,
    MaxSeats,   \* MAX_SEATS of the page, and the limit of handleCreateHold
    None

ASSUME CheckoutConstants ==
    /\ MaxSeats \in Nat \ {0}
    /\ None \notin Holds \cup Bookings \cup Txns

VARIABLES
    hold,       \* hold[h]: a row of inventory.seat_holds
    late,       \* the holds whose expires_at has passed
    booking,    \* booking[b]: a row of commerce.bookings
    named,      \* named[b]: the seats with a row in booking_passengers
    intent,     \* intent[t]: the booking the payment reference t is for
    charged,    \* charged[t]: how often t was recorded as PAID
    url,        \* url[k]: what tab k shows
    visited,    \* visited[k]: the history of tab k
    stored,     \* stored[k]: the hold in sessionStorage
    shown,      \* shown[k]: the seats the page draws as taken
    selected,   \* selected[k]: the seats chosen
    form,       \* form[k]: the seats the form asks a passenger for
    over,       \* over[k]: the checkout page says that the hold is gone
    seen,       \* seen[k]: the booking status the page has loaded
    call        \* call[k]: the request of tab k in flight

server == <<hold, late, booking, named, intent, charged>>
page   == <<shown, selected, form, over, seen>>
tab    == <<url, visited, stored, page>>
vars   == <<server, tab, call>>

-----------------------------------------------------------------------------
Trip         == [page |-> "trip", id |-> None]
Pax(h)       == [page |-> "checkout", id |-> h]
Pay(b)       == [page |-> "payment", id |-> b]
Provider(t)  == [page |-> "sandbox", id |-> t]
Thanks(b)    == [page |-> "confirmation", id |-> b]
Urls == {Trip} \cup {Pax(h) : h \in Holds} \cup {Pay(b) : b \in Bookings}
               \cup {Provider(t) : t \in Txns} \cup {Thanks(b) : b \in Bookings}

Quiet    == [at |-> "quiet"]
NoHold   == [status |-> "none", seats |-> {}]
NoRow    == [status |-> "none", hold |-> None]
BookingStatuses == {"none", "PAYMENT_PENDING", "TICKETED"}

\* The type of the rows of hold and booking, and what the tab keeps (checkout/page.tsx).
TypeOK ==
    /\ hold \in [Holds -> [status : {"none", "HELD", "CONFIRMED", "EXPIRED"},
                           seats : SUBSET Seats]]
    /\ late \subseteq Holds
    /\ booking \in [Bookings -> [status : BookingStatuses, hold : Holds \cup {None}]]
    /\ named \in [Bookings -> SUBSET Seats]
    /\ intent \in [Txns -> Bookings \cup {None}]
    /\ charged \in [Txns -> Nat]
    /\ url \in [Tabs -> Urls]
    /\ \A k \in Tabs : url[k] \in visited[k] /\ visited[k] \subseteq Urls
    /\ stored \in [Tabs -> Holds \cup {None}]
    /\ shown \in [Tabs -> SUBSET Seats]
    /\ \A k \in Tabs : selected[k] \subseteq Seats /\ Cardinality(selected[k]) <= MaxSeats
    /\ form \in [Tabs -> SUBSET Seats]
    /\ over \in [Tabs -> BOOLEAN]
    /\ seen \in [Tabs -> BookingStatuses]
    /\ \A k \in Tabs : call[k] \in
          {Quiet} \cup [at : {"sent", "refused"}, from : Urls, seats : SUBSET Seats]
                  \cup [at : {"answered"}, from : Urls, to : Urls]

Init ==
    /\ hold = [h \in Holds |-> NoHold]
    /\ late = {}
    /\ booking = [b \in Bookings |-> NoRow]
    /\ named = [b \in Bookings |-> {}]
    /\ intent = [t \in Txns |-> None]
    /\ charged = [t \in Txns |-> 0]
    /\ url = [k \in Tabs |-> Trip]
    /\ visited = [k \in Tabs |-> {Trip}]
    /\ stored = [k \in Tabs |-> None]
    /\ shown = [k \in Tabs |-> Seats]
    /\ selected = [k \in Tabs |-> {}]
    /\ form = [k \in Tabs |-> {}]
    /\ over = [k \in Tabs |-> FALSE]
    /\ seen = [k \in Tabs |-> "none"]
    /\ call = [k \in Tabs |-> Quiet]

-----------------------------------------------------------------------------
Taken == UNION {hold[h].seats : h \in {g \in Holds : hold[g].status \in {"HELD", "CONFIRMED"}}}
On(k, p) == url[k].page = p
Waits(k) == call[k] # Quiet /\ call[k].from = url[k]

\* Mutant of Remembered: the copy is taken for the hold of the link.
RememberedAny(k, u) ==
    IF u.page = "checkout" /\ stored'[k] # None THEN hold[stored'[k]].seats ELSE {}

\* The seats the checkout page starts from: the copy in sessionStorage, when it
\* is the copy of the hold in the link.
Remembered(k, u) ==
    IF u.page = "checkout" /\ stored'[k] = u.id THEN hold[u.id].seats ELSE {}

\* A page is mounted: its state starts afresh.  Until the seat map has come no
\* seat can be picked, as if all were taken.
Open(k, u) ==
    /\ url' = [url EXCEPT ![k] = u]
    /\ visited' = [visited EXCEPT ![k] = @ \cup {u}]
    /\ shown' = [shown EXCEPT ![k] = Seats]
    /\ selected' = [selected EXCEPT ![k] = {}]
    /\ form' = [form EXCEPT ![k] = Remembered(k, u)]
    /\ over' = [over EXCEPT ![k] = FALSE]
    /\ seen' = [seen EXCEPT ![k] = "none"]

\* The Back button, a reload, or the link of the expired view.  A request in
\* flight goes on.
Revisit(k) ==
    /\ UNCHANGED <<server, stored, call>>
    /\ \E u \in visited[k] : Open(k, u)

\* One request per tab is in flight at a time: a bound of the model.
Send(k, S) ==
    /\ call[k] = Quiet
    /\ call' = [call EXCEPT ![k] = [at |-> "sent", from |-> url[k], seats |-> S]]
    /\ UNCHANGED <<server, tab>>

Sent(k, p) == call[k] # Quiet /\ call[k].at = "sent" /\ call[k].from.page = p
Answer(k, u) == call' = [call EXCEPT ![k] = [at |-> "answered", from |-> call[k].from, to |-> u]]
Refuse(k) == call' = [call EXCEPT ![k].at = "refused"]

-----------------------------------------------------------------------------
(* trips/[tripId]                                                           *)

\* A fresh map; SeatMap reports the chosen seats that are gone, dropLost takes
\* them out of the selection.
Redraw(k) ==
    /\ shown' = [shown EXCEPT ![k] = Taken]
    /\ selected' = [selected EXCEPT ![k] = @ \ Taken]

\* The first load and the poll every 15 seconds.
Poll(k) ==
    /\ On(k, "trip")
    /\ Redraw(k)
    /\ UNCHANGED <<server, url, visited, stored, form, over, seen, call>>

\* A seat is a button while the page is not holding and the map draws it free;
\* at the limit only a chosen seat is.
Toggle(k, s) ==
    /\ On(k, "trip") /\ ~Waits(k) /\ s \notin shown[k]
    /\ s \in selected[k] \/ Cardinality(selected[k]) < MaxSeats
    /\ selected' = [selected EXCEPT ![k] = IF s \in @ THEN @ \ {s} ELSE @ \cup {s}]
    /\ UNCHANGED <<server, url, visited, stored, shown, form, over, seen, call>>

Proceed(k) ==
    /\ On(k, "trip") /\ selected[k] # {}
    /\ Send(k, selected[k])

AcquireHold(h, S) ==
    /\ hold[h] = NoHold
    /\ S \cap Taken = {}
    /\ hold' = [hold EXCEPT ![h] = [status |-> "HELD", seats |-> S]]
    /\ UNCHANGED <<late, booking, named, intent, charged>>

CreateHold(k) ==
    /\ Sent(k, "trip")
    /\ \/ \E h \in Holds : AcquireHold(h, call[k].seats) /\ Answer(k, Pax(h))
       \/ call[k].seats \cap Taken # {} /\ Refuse(k) /\ UNCHANGED server
    /\ UNCHANGED tab

\* 409 seat_taken: start again from a fresh map.
SeatTaken(k) ==
    /\ selected' = [selected EXCEPT ![k] = {}]
    /\ shown' = [shown EXCEPT ![k] = Taken]
    /\ UNCHANGED <<url, visited, stored, form, over, seen>>

-----------------------------------------------------------------------------
(* checkout                                                                 *)

\* getHold, asked when the page is mounted: the server says whether the hold is
\* alive, and fills the form when there was no copy.
CheckHold(k) ==
    /\ On(k, "checkout")
    /\ LET h == url[k].id IN
         /\ over' = [over EXCEPT ![k] = @ \/ hold[h].status # "HELD" \/ h \in late]
         /\ form' = [form EXCEPT ![k] = IF @ = {} THEN hold[h].seats ELSE @]
    /\ UNCHANGED <<server, url, visited, stored, shown, selected, seen, call>>

\* The form needs every name; the page has none to ask before it knows the seats.
Submit(k) ==
    /\ On(k, "checkout") /\ ~over[k] /\ form[k] # {}
    /\ Send(k, form[k])

Bookable(h) == hold[h].status = "HELD" /\ h \notin late

\* handleCreateBooking: the hold is the authority on the seats, the form on the
\* passengers.  The hold is not marked as used.
CreateBooking(k) ==
    /\ Sent(k, "checkout")
    /\ LET h == call[k].from.id IN
         \/ /\ Bookable(h)
            /\ \E b \in Bookings :
                 /\ booking[b] = NoRow
                 /\ booking' = [booking EXCEPT ![b] =
                                  [status |-> "PAYMENT_PENDING", hold |-> h]]
                 /\ named' = [named EXCEPT ![b] = call[k].seats]
                 /\ Answer(k, Pay(b))
            /\ UNCHANGED <<hold, late, intent, charged>>
         \/ ~Bookable(h) /\ Refuse(k) /\ UNCHANGED server
    /\ UNCHANGED tab

HoldExpired(k) ==
    /\ over' = [over EXCEPT ![k] = TRUE]
    /\ UNCHANGED <<url, visited, stored, shown, selected, form, seen>>

-----------------------------------------------------------------------------
(* payment and confirmation                                                 *)

\* The payment page loads the booking once, the confirmation page until it is
\* TICKETED or has asked six times.
LoadBooking(k) ==
    /\ \/ On(k, "payment") /\ seen[k] = "none"
       \/ On(k, "confirmation") /\ seen[k] # "TICKETED"
    /\ seen' = [seen EXCEPT ![k] = booking[url[k].id].status]
    /\ UNCHANGED <<server, url, visited, stored, shown, selected, form, over, call>>

\* pay(): the button needs the booking, and one that was PAYMENT_PENDING when it
\* was loaded.
PayNow(k) ==
    /\ On(k, "payment") /\ seen[k] = "PAYMENT_PENDING"
    /\ Send(k, {})

PaymentIntent(k) ==
    /\ Sent(k, "payment")
    /\ LET b == call[k].from.id IN
         \/ /\ booking[b].status = "PAYMENT_PENDING"
            /\ \E t \in Txns :
                 /\ intent[t] = None
                 /\ intent' = [intent EXCEPT ![t] = b]
                 /\ Answer(k, Provider(t))
            /\ UNCHANGED <<hold, late, booking, named, charged>>
         \/ booking[b].status # "PAYMENT_PENDING" /\ Refuse(k) /\ UNCHANGED server
    /\ UNCHANGED tab

Approve(k) ==
    /\ On(k, "sandbox")
    /\ Send(k, {})

\* INSERT ... ON CONFLICT (provider, provider_txn_id) DO NOTHING
Charge(t) == charged' = [charged EXCEPT ![t] = 1]

\* ConfirmHold: idempotent, and a hold given back is not confirmed.
Confirmable(h) == hold[h].status \in {"HELD", "CONFIRMED"}

\* HandleWebhook after the payment row: seats, then tickets.
Ticket(b) ==
    /\ hold' = [hold EXCEPT ![booking[b].hold].status = "CONFIRMED"]
    /\ booking' = [booking EXCEPT ![b].status = "TICKETED"]

\* A delivery seen before is acknowledged and does nothing; one whose seats are
\* gone has been recorded as paid all the same.
Webhook(t) ==
    /\ Charge(t)
    /\ IF charged[t] = 0 /\ Confirmable(booking[intent[t]].hold)
       THEN Ticket(intent[t])
       ELSE UNCHANGED <<hold, booking>>
    /\ UNCHANGED <<late, named, intent>>

\* Mutant of Outcome: any answer to an approval counts as a confirmation.
OutcomeApproved(k, b) == Answer(k, Thanks(b))

\* What the handler reads back, and finish() makes of it.
Outcome(k, b) ==
    IF booking'[b].status = "TICKETED" THEN Answer(k, Thanks(b)) ELSE Refuse(k)

\* handleSandboxComplete with outcome success.
SandboxComplete(k) ==
    /\ Sent(k, "sandbox")
    /\ LET t == call[k].from.id IN Webhook(t) /\ Outcome(k, intent[t])
    /\ UNCHANGED tab

-----------------------------------------------------------------------------
(* Answers                                                                  *)

\* The handler that sent the request goes on even if its page is gone: it writes
\* sessionStorage and moves the tab to the next page.
Arrive(k) ==
    /\ call[k] # Quiet /\ call[k].at = "answered"
    /\ stored' = [stored EXCEPT ![k] =
           CASE call[k].to.page = "checkout" -> call[k].to.id
             [] call[k].to.page = "payment"  -> None
             [] OTHER -> @]
    /\ Open(k, call[k].to)
    /\ call' = [call EXCEPT ![k] = Quiet]
    /\ UNCHANGED server

\* A refusal shows on the page that asked, if it is still there.
Refused(k) ==
    /\ call[k] # Quiet /\ call[k].at = "refused"
    /\ IF ~Waits(k) THEN UNCHANGED tab
       ELSE CASE On(k, "trip")     -> SeatTaken(k)
              [] On(k, "checkout") -> HoldExpired(k)
              [] OTHER             -> UNCHANGED tab
    /\ call' = [call EXCEPT ![k] = Quiet]
    /\ UNCHANGED server

\* No answer: the page shows the error and its button again.  Whether the
\* request was served, it does not know.
Lost(k) ==
    /\ call[k] # Quiet
    /\ call' = [call EXCEPT ![k] = Quiet]
    /\ UNCHANGED <<server, tab>>

-----------------------------------------------------------------------------
(* The others, and time                                                     *)

OthersHold(h, S) ==
    /\ S # {} /\ AcquireHold(h, S)
    /\ UNCHANGED <<tab, call>>

Deadline(h) ==
    /\ hold[h].status = "HELD" /\ h \notin late
    /\ late' = late \cup {h}
    /\ UNCHANGED <<hold, booking, named, intent, charged, tab, call>>

Sweep(h) ==
    /\ hold[h].status = "HELD" /\ h \in late
    /\ hold' = [hold EXCEPT ![h].status = "EXPIRED"]
    /\ UNCHANGED <<late, booking, named, intent, charged, tab, call>>

Next ==
    \/ \E k \in Tabs :
          \/ Revisit(k) \/ Poll(k) \/ Proceed(k) \/ CreateHold(k)
          \/ CheckHold(k) \/ Submit(k) \/ CreateBooking(k)
          \/ LoadBooking(k) \/ PayNow(k) \/ PaymentIntent(k)
          \/ Approve(k) \/ SandboxComplete(k)
          \/ Arrive(k) \/ Refused(k) \/ Lost(k)
          \/ \E s \in Seats : Toggle(k, s)
    \/ \E h \in Holds : Deadline(h) \/ Sweep(h)
    \/ \E h \in Holds, S \in SUBSET Seats : OthersHold(h, S)

Spec == Init /\ [][Next]_vars

-----------------------------------------------------------------------------
(* Properties                                                               *)

\* A booking has a passenger for each of its seats and for no other seat: the
\* server takes the seats from the hold and the names from the page, which may
\* have started from the copy of an earlier hold (checkout/page.tsx:35-63).
PassengersFitSeats ==
    \A b \in Bookings : booking[b].status # "none" => named[b] = hold[booking[b].hold].seats

\* Whoever is sent to the confirmation page has a ticket, and seats with it: the
\* page of a payment whose seats had gone stays where it is (sandbox/page.tsx:27-42).
ConfirmedHaveSeats ==
    \A k \in Tabs : On(k, "confirmation") =>
       LET b == booking[url[k].id] IN
         b.status = "TICKETED" /\ hold[b.hold].status = "CONFIRMED"

\* What the provider's page answers: a payment that is not confirmed has not
\* been charged (payment.go, handleSandboxComplete: "You have not been charged.").
UnconfirmedNotCharged ==
    [][\A k \in Tabs : Sent(k, "sandbox") /\ call'[k] # Quiet /\ call'[k].at = "refused"
          => charged'[call[k].from.id] = 0]_vars

\* One seat, one ticket: no two ticketed bookings share a seat.
OneTicketPerSeat ==
    \A b, c \in Bookings :
       b # c /\ booking[b].status = "TICKETED" /\ booking[c].status = "TICKETED"
         => hold[booking[b].hold].seats \cap hold[booking[c].hold].seats = {}

-----------------------------------------------------------------------------
\* The claims on seat s that the rows of seat_holds state.
LiveHolds     == {h \in Holds : hold[h].status \in {"HELD", "CONFIRMED"}}
SeatClaims(s) == {[kind |-> IF hold[h].status = "HELD" THEN "held" ELSE "sold", who |-> h] :
                    h \in {g \in LiveHolds : s \in hold[g].seats}}

\* A cell of the market is a seat for the whole way; no counter is in this module.
Market == INSTANCE SeatMarket WITH
    Segments <- {"whole way"}, Counters <- {},
    rights   <- [cell \in Seats \X {"whole way"} |-> SeatClaims(cell[1])]

\* Whatever is reloaded, paid late or answered twice, seats are taken, sold and given back
\* as SeatMarket allows and in no other way: what this module assumes of
\* inventory-service is what Inventory promises (store.go).
ImplementsMarket == Market!Spec
=============================================================================
