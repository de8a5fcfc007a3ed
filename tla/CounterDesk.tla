---------------------------- MODULE CounterDesk ----------------------------
(***************************************************************************)
(* The terminals of one ticket counter (apps/web/app/counter) and the      *)
(* handlers that serve them (httpapi/counter.go, commerce/channels.go), on *)
(* one journey of one trip.  A terminal sells online from the live seat    *)
(* map, offline from its cached quota, and replays its queue of offline    *)
(* sales when the line is back.                                            *)
(*                                                                         *)
(* A connection is one HTTP request that makes several transactions; the   *)
(* handlers work under the request's context, so a request whose client is *)
(* gone (Drop) simply takes no further step.  Inventory decides at each of *)
(* its calls as module Inventory says; here a seat is free, this counter's *)
(* quota, sold to a sale of this counter, or sold elsewhere.               *)
(***************************************************************************)
EXTENDS Queues, SequencesExt

CONSTANTS
    Terminals, Seats, Shifts,
    Sales,          \* ids of sales: client_ref or booking, minted in any order
    Conns,          \* requests in flight at the same time
    Fare, ServiceFee,
    None

ASSUME CounterConstants ==
    /\ Fare \in Nat \ {0} /\ ServiceFee \in Nat \ {0}
    /\ IsFiniteSet(Seats)
    /\ None \notin Sales \cup Shifts
    /\ Sales \cap {"free", "quota", "elsewhere"} = {}

VARIABLES
    owner,      \* owner[s]: "free", "quota", "elsewhere" or the sale that has s
    row,        \* row[r]: status of the counter.offline_sales row of r
    stage,      \* stage[r]: how far the booking of r has got
    drawer,     \* drawer[r]: the shift with the cash_transactions row of r
    shift,      \* shift[k]: status of counter.shifts row k
    counted,    \* counted[k]: the sales in the drawer when k was closed
    sale,       \* sale[r]: what the terminal recorded or asked for
    online,     \* online[t]: the terminal believes it has a line
    ctx,        \* ctx[t]: the open page, with the shift /counter/context told it
    cache, queue,   \* jatra.counter.quota and jatra.counter.queue
    shell,      \* shell[t]: the service worker has the counter's pages
    confirming,     \* confirming[t]: the seats OnlineSale asks payment for
    conn        \* conn[c]: the request that connection c carries

serverVars == <<owner, row, stage, drawer, shift, counted>>
pageVars   == <<online, ctx>>
storeVars  == <<cache, queue, shell>>
vars == <<serverVars, sale, pageVars, storeVars, confirming, conn>>

-----------------------------------------------------------------------------
Idle   == [kind |-> "idle"]
NoSale == [kind |-> "none"]

\* What a terminal shows: the quota page, or the sell or shift page with its
\* context, NoCtx when /counter/context did not answer.
QuotaPage == "quota page"
NoCtx     == "no context"
NoPage    == "no page"
Contexts  == {NoCtx, None} \cup Shifts
Methods   == {"CASH", "CARD"}

Stages == {"none", "seated", "paid", "ticketed", "expired"}

SaleRows == [kind : {"online", "offline"}, at : Terminals,
             seats : (SUBSET Seats) \ {{}}, shift : Shifts \cup {None}, method : Methods,
             total : Nat]

Requests == [kind : {"flush", "sale"}, from : Terminals, todo : Seq(Sales),
             at : {"start", "seats", "pay", "ticket", "drawer"},
             settled : SUBSET Sales, refused : BOOLEAN]

\* The type of rows of the counter, its terminals and their requests (counter.go).
TypeOK ==
    /\ owner \in [Seats -> {"free", "quota", "elsewhere"} \cup Sales]
    /\ row \in [Sales -> {"none", "REPLAYED", "REJECTED"}]
    /\ stage \in [Sales -> Stages]
    /\ drawer \in [Sales -> Shifts \cup {None}]
    /\ shift \in [Shifts -> {"none", "OPEN", "CLOSED"}]
    /\ counted \in [Shifts -> SUBSET Sales]
    /\ sale \in [Sales -> {NoSale} \cup SaleRows]
    /\ online \in [Terminals -> BOOLEAN]
    /\ ctx \in [Terminals -> Contexts \cup {QuotaPage, NoPage}]
    /\ cache \in [Terminals -> SUBSET Seats]
    /\ queue \in [Terminals -> Seq(Sales)]
    /\ shell \in [Terminals -> BOOLEAN]
    /\ confirming \in [Terminals -> SUBSET Seats]
    /\ conn \in [Conns -> {Idle} \cup Requests]

Init ==
    /\ owner = [s \in Seats |-> "free"]
    /\ row = [r \in Sales |-> "none"]
    /\ stage = [r \in Sales |-> "none"]
    /\ drawer = [r \in Sales |-> None]
    /\ shift = [k \in Shifts |-> "none"]
    /\ counted = [k \in Shifts |-> {}]
    /\ sale = [r \in Sales |-> NoSale]
    /\ online = [t \in Terminals |-> TRUE]
    /\ ctx = [t \in Terminals |-> None]
    /\ cache = [t \in Terminals |-> {}]
    /\ queue = [t \in Terminals |-> <<>>]
    /\ shell = [t \in Terminals |-> FALSE]
    /\ confirming = [t \in Terminals |-> {}]
    /\ conn = [c \in Conns |-> Idle]

-----------------------------------------------------------------------------
(* What the terminal reads from the server                                  *)

SeatsOf(who) == {s \in Seats : owner[s] = who}
OpenShifts   == {k \in Shifts : shift[k] = "OPEN"}

\* /counter/context: the open shift of the counter, if any.
Context == IF OpenShifts = {} THEN None ELSE CHOOSE k \in OpenShifts : TRUE

\* The quota list carries no fare_poisha, so the terminal's copy of it is 0.
CachedFare == 0

\* The sales a terminal has not delivered: the bars of the sell page count them,
\* the sales page lists them first.
Waiting(t) == Len(queue[t])

\* What a reload brings up without a line: the page if the service worker has
\* it, and else its 503.
Reloaded(t, at) == IF online[t] \/ shell[t] THEN at ELSE NoPage

\* The sell or the shift page is opened or reloaded; its state starts afresh.
OpenDesk(t) ==
    /\ ctx' = [ctx EXCEPT ![t] = Reloaded(t, IF online[t] THEN Context ELSE NoCtx)]
    /\ confirming' = [confirming EXCEPT ![t] = {}]
    /\ UNCHANGED <<serverVars, sale, online, storeVars, conn>>

\* The quota page copies the server's list into the cache, whatever is still in
\* the queue.
OpenQuota(t) ==
    /\ ctx' = [ctx EXCEPT ![t] = Reloaded(t, QuotaPage)]
    /\ cache' = [cache EXCEPT ![t] = IF online[t] THEN SeatsOf("quota") ELSE @]
    /\ confirming' = [confirming EXCEPT ![t] = {}]
    /\ UNCHANGED <<serverVars, sale, online, queue, shell, conn>>

\* The worker registered by a page of the counter installs, takes over and warms
\* its shell; until then, and where it fails, the terminal has none.
Install(t) ==
    /\ online[t] /\ ctx[t] # NoPage
    /\ shell' = [shell EXCEPT ![t] = TRUE]
    /\ UNCHANGED <<serverVars, sale, pageVars, cache, queue, confirming, conn>>

\* The browser's online and offline events.
LineChanges(t) ==
    /\ online' = [online EXCEPT ![t] = ~@]
    /\ confirming' = [confirming EXCEPT ![t] = {}]
    /\ UNCHANGED <<serverVars, sale, ctx, storeVars, conn>>

-----------------------------------------------------------------------------
(* The quota page                                                           *)

\* The seats of the map are picked; the button needs one at least.
Reservable(t, S) == ctx[t] = QuotaPage /\ online[t] /\ S # {}

\* Reserving takes free seats out of general sale, all or none; the list is read
\* back and cached unless the answer gets lost.
Reserve(t, S) ==
    /\ Reservable(t, S) /\ S \subseteq SeatsOf("free")
    /\ owner' = [s \in Seats |-> IF s \in S THEN "quota" ELSE owner[s]]
    /\ \/ cache' = [cache EXCEPT ![t] = SeatsOf("quota") \cup S]
       \/ UNCHANGED cache
    /\ UNCHANGED <<row, stage, drawer, shift, counted, sale, pageVars, queue,
                   shell, confirming, conn>>

\* Releasing a listed seat; a seat that is no longer quota is left alone.
Release(t, s) ==
    /\ ctx[t] = QuotaPage /\ online[t]
    /\ s \in cache[t]
    /\ owner' = [owner EXCEPT ![s] = IF @ = "quota" THEN "free" ELSE @]
    /\ \/ cache' = [cache EXCEPT ![t] = SeatsOf("quota") \ {s}]
       \/ UNCHANGED cache
    /\ UNCHANGED <<row, stage, drawer, shift, counted, sale, pageVars, queue,
                   shell, confirming, conn>>

-----------------------------------------------------------------------------
(* The drawer                                                               *)

\* shifts_one_open_per_counter rejects a second open drawer.
OpenShift(t, k) ==
    /\ online[t] /\ ctx[t] = None
    /\ shift[k] = "none" /\ OpenShifts = {}
    /\ shift' = [shift EXCEPT ![k] = "OPEN"]
    /\ ctx' = [ctx EXCEPT ![t] = k]
    /\ UNCHANGED <<owner, row, stage, drawer, counted, sale, online,
                   storeVars, confirming, conn>>

\* CloseShift of channels.go: the count is compared with the drawer's rows.
CountDrawer(k) ==
    /\ shift[k] = "OPEN"
    /\ shift' = [shift EXCEPT ![k] = "CLOSED"]
    /\ counted' = [counted EXCEPT ![k] = {r \in Sales : drawer[r] = k}]

\* Mutant of CloseShift: the terminal forgets to look at its queue.
CloseWithQueue(t) ==
    /\ online[t] /\ ctx[t] \in Shifts
    /\ CountDrawer(ctx[t])
    /\ ctx' = [ctx EXCEPT ![t] = None]
    /\ UNCHANGED <<owner, row, stage, drawer, sale, online, storeVars,
                   confirming, conn>>

\* The page refuses while this terminal's own queue is not empty.
CloseShift(t) ==
    /\ online[t] /\ ctx[t] \in Shifts /\ Waiting(t) = 0
    /\ CountDrawer(ctx[t])
    /\ ctx' = [ctx EXCEPT ![t] = None]
    /\ UNCHANGED <<owner, row, stage, drawer, sale, online, storeVars,
                   confirming, conn>>

-----------------------------------------------------------------------------
(* Selling without a line                                                   *)

\* The queue and the cached quota of lib/offline.ts, in the local storage.
Enqueue(t, r) == queue' = [queue EXCEPT ![t] = Append(@, r)]
Consume(t, S) == cache' = [cache EXCEPT ![t] = @ \ S]

\* Mutant of OfflineSell: the button is enabled before a seat is picked.
OfflineSellNothing(t, r, S) ==
    /\ ctx[t] \in Contexts /\ ~online[t]
    /\ sale[r] = NoSale
    /\ S \subseteq cache[t]
    /\ sale' = [sale EXCEPT ![r] =
           [kind |-> "offline", at |-> t, seats |-> S, shift |-> None, method |-> "CASH",
            total |-> ServiceFee]]
    /\ Enqueue(t, r) /\ Consume(t, S)
    /\ UNCHANGED <<serverVars, pageVars, shell, confirming, conn>>

\* Seats of the cache are sold for cash on a paper ticket.  The fee is the one
\* of the last context; a page reloaded without a line has none, nor a shift.
OfflineSell(t, r, S) ==
    /\ ctx[t] \in Contexts /\ ~online[t]
    /\ sale[r] = NoSale
    /\ S # {} /\ S \subseteq cache[t]
    /\ sale' = [sale EXCEPT ![r] =
           [kind |-> "offline", at |-> t, seats |-> S,
            shift |-> IF ctx[t] = NoCtx THEN None ELSE ctx[t], method |-> "CASH",
            total |-> CachedFare * Cardinality(S)
                        + (IF ctx[t] = NoCtx THEN 0 ELSE ServiceFee)]]
    /\ Enqueue(t, r) /\ Consume(t, S)
    /\ UNCHANGED <<serverVars, pageVars, shell, confirming, conn>>

\* The queue is posted, when the line comes back and at "Sync now"; nothing
\* prevents a second flush while one is under way.
Flush(t, c) ==
    /\ ctx[t] \in Contexts /\ online[t]
    /\ Waiting(t) > 0 /\ conn[c] = Idle
    /\ conn' = [conn EXCEPT ![c] =
           [kind |-> "flush", from |-> t, todo |-> queue[t], at |-> "start",
            settled |-> {}, refused |-> FALSE]]
    /\ UNCHANGED <<serverVars, sale, pageVars, storeVars, confirming>>

\* Mutant of Flushed: a flush that returned empties the queue.
FlushedAll(c) ==
    /\ conn[c].kind = "flush" /\ conn[c].todo = <<>>
    /\ queue' = [queue EXCEPT ![conn[c].from] = <<>>]
    /\ conn' = [conn EXCEPT ![c] = Idle]
    /\ ctx' = [ctx EXCEPT ![conn[c].from] = IF @ \in Contexts THEN Context ELSE @]
    /\ UNCHANGED <<serverVars, sale, online, cache, shell, confirming>>

\* The answer: every sale with an outcome other than "error" leaves the queue.
Flushed(c) ==
    /\ conn[c].kind = "flush" /\ conn[c].todo = <<>>
    /\ queue' = [queue EXCEPT ![conn[c].from] = Without(@, conn[c].settled)]
    /\ conn' = [conn EXCEPT ![c] = Idle]
    /\ ctx' = [ctx EXCEPT ![conn[c].from] = IF @ \in Contexts THEN Context ELSE @]
    /\ UNCHANGED <<serverVars, sale, online, cache, shell, confirming>>

-----------------------------------------------------------------------------
(* Selling with a line                                                      *)

\* The button to take payment: seats are picked, and cash needs a shift.  The
\* map they are picked from is as old as the page may be, so a seat drawn as
\* free may be anybody's by now.
Sellable(t, S) ==
    /\ online[t] /\ ctx[t] \in Contexts /\ S # {}
    /\ \E m \in Methods : m = "CASH" => ctx[t] \in Shifts

\* "Take payment": an alert names the seats and the amount.
AskToPay(t, S) ==
    /\ Sellable(t, S) /\ confirming[t] = {}
    /\ confirming' = [confirming EXCEPT ![t] = S]
    /\ UNCHANGED <<serverVars, sale, pageVars, storeVars, conn>>

\* Esc or "No" closes the alert, even while its sale is under way.
StepBack(t) ==
    /\ confirming[t] # {}
    /\ confirming' = [confirming EXCEPT ![t] = {}]
    /\ UNCHANGED <<serverVars, sale, pageVars, storeVars, conn>>

\* Confirmed, with the method selected at that moment.  The button is disabled
\* while a sale is under way, Ctrl+Enter is not: the same seats may be posted
\* twice.
Sell(t, c, r, m) ==
    /\ confirming[t] # {} /\ conn[c] = Idle
    /\ sale[r] = NoSale
    /\ sale' = [sale EXCEPT ![r] =
           [kind |-> "online", at |-> t, seats |-> confirming[t],
            shift |-> IF ctx[t] \in Shifts THEN ctx[t] ELSE None, method |-> m,
            total |-> Fare * Cardinality(confirming[t]) + ServiceFee]]
    /\ conn' = [conn EXCEPT ![c] =
           [kind |-> "sale", from |-> t, todo |-> <<r>>, at |-> "start",
            settled |-> {}, refused |-> FALSE]]
    /\ UNCHANGED <<serverVars, pageVars, storeVars, confirming>>

\* Receipt or refusal: the alert closes and the map is drawn again.
Sold(c) ==
    /\ conn[c].kind = "sale" /\ conn[c].todo = <<>>
    /\ conn' = [conn EXCEPT ![c] = Idle]
    /\ confirming' = [confirming EXCEPT ![conn[c].from] = {}]
    /\ ctx' = [ctx EXCEPT ![conn[c].from] = IF conn[c].refused \/ @ \notin Contexts THEN @ ELSE Context]
    /\ UNCHANGED <<serverVars, sale, online, storeVars>>

\* The line is cut under a request: its handler stops, the page reports an
\* error and keeps its queue.
Drop(c) ==
    /\ conn[c] # Idle
    /\ conn' = [conn EXCEPT ![c] = Idle]
    /\ confirming' = [confirming EXCEPT ![conn[c].from] =
                        IF conn[c].kind = "sale" THEN {} ELSE @]
    /\ UNCHANGED <<serverVars, sale, pageVars, storeVars>>

-----------------------------------------------------------------------------
(* The handlers: one transaction of connection c for its current sale       *)

At(c, label) == conn[c] # Idle /\ conn[c].todo # <<>> /\ conn[c].at = label
Current(c)   == Head(conn[c].todo)
Goto(c, label) == conn' = [conn EXCEPT ![c].at = label]

\* The current sale is answered; the next one of the list begins.
Answer(c, accepted) ==
    conn' = [conn EXCEPT ![c].todo = Tail(@), ![c].at = "start",
                         ![c].settled = @ \cup {Current(c)},
                         ![c].refused = ~accepted]

Reject(c) == row' = [row EXCEPT ![Current(c)] = "REJECTED"] /\ Answer(c, FALSE)

TakeSeats(r, from) ==
    /\ \A s \in sale[r].seats : owner[s] = from
    /\ owner' = [s \in Seats |-> IF s \in sale[r].seats THEN r ELSE owner[s]]
    /\ stage' = [stage EXCEPT ![r] = "seated"]

clientVars == <<sale, pageVars, storeVars, confirming>>

\* Mutant of Claim: the row is written but a duplicate is not noticed.
ClaimAgain(c) ==
    /\ At(c, "start") /\ conn[c].kind = "flush"
    /\ row' = [row EXCEPT ![Current(c)] = "REPLAYED"]
    /\ Goto(c, "seats")
    /\ UNCHANGED <<owner, stage, drawer, shift, counted, clientVars>>

\* handleReplayOffline: the first delivery of a client_ref inserts its row, and
\* any later one is answered "already_replayed".
Claim(c) ==
    /\ At(c, "start") /\ conn[c].kind = "flush"
    /\ IF row[Current(c)] = "none"
       THEN row' = [row EXCEPT ![Current(c)] = "REPLAYED"] /\ Goto(c, "seats")
       ELSE Answer(c, TRUE) /\ UNCHANGED row
    /\ UNCHANGED <<owner, stage, drawer, shift, counted, clientVars>>

\* The claim itself fails: outcome "error", the sale stays in the queue.
ClaimFails(c) ==
    /\ At(c, "start") /\ conn[c].kind = "flush"
    /\ conn' = [conn EXCEPT ![c].todo = Tail(@)]
    /\ UNCHANGED <<serverVars, clientVars>>

\* SellQuota moves the seats only if all of them are this counter's quota.
ReplaySeats(c) ==
    /\ At(c, "seats")
    /\ IF \A s \in sale[Current(c)].seats : owner[s] = "quota"
       THEN TakeSeats(Current(c), "quota") /\ Goto(c, "pay") /\ UNCHANGED row
       ELSE Reject(c) /\ UNCHANGED <<owner, stage>>
    /\ UNCHANGED <<drawer, shift, counted, clientVars>>

\* handleCounterSale: cash needs an open shift, then AcquireHold decides.
HoldSeats(c) ==
    /\ At(c, "start") /\ conn[c].kind = "sale"
    /\ IF /\ sale[Current(c)].method = "CASH" => sale[Current(c)].shift \in OpenShifts
          /\ \A s \in sale[Current(c)].seats : owner[s] = "free"
       THEN TakeSeats(Current(c), "free") /\ Goto(c, "pay")
       ELSE Answer(c, FALSE) /\ UNCHANGED <<owner, stage>>
    /\ UNCHANGED <<row, drawer, shift, counted, clientVars>>

\* CreateBooking, then the payments row, whose amount the schema wants positive
\* (nothing else looks at a booking that waits for payment).
Pay(c) ==
    /\ At(c, "pay")
    /\ IF sale[Current(c)].total > 0
       THEN /\ stage' = [stage EXCEPT ![Current(c)] = IF @ = "seated" THEN "paid" ELSE @]
            /\ Goto(c, "ticket") /\ UNCHANGED row
       ELSE Reject(c) /\ UNCHANGED stage
    /\ UNCHANGED <<owner, drawer, shift, counted, clientVars>>

\* ConfirmHold, then Finalise.  A hold that has lapsed cannot be confirmed: the
\* clerk reads that nothing has been charged, though the payments row says PAID.
Ticket(c) ==
    /\ At(c, "ticket")
    /\ IF stage[Current(c)] = "paid"
       THEN stage' = [stage EXCEPT ![Current(c)] = "ticketed"] /\ Goto(c, "drawer")
       ELSE Answer(c, FALSE) /\ UNCHANGED stage
    /\ UNCHANGED <<owner, row, drawer, shift, counted, clientVars>>

\* The hold of an online sale lapses before it is confirmed; the seats of a
\* replayed sale are confirmed as soon as they move.
Lapse(r) ==
    /\ stage[r] \in {"seated", "paid"} /\ sale[r].kind = "online"
    /\ owner' = [s \in Seats |-> IF owner[s] = r THEN "free" ELSE owner[s]]
    /\ stage' = [stage EXCEPT ![r] = "expired"]
    /\ UNCHANGED <<row, drawer, shift, counted, clientVars, conn>>

\* The cash enters the drawer of the shift the sale names, open or not; a sale
\* without a shift, or paid by other means, enters none.
Drawer(c) ==
    /\ At(c, "drawer")
    /\ drawer' = [drawer EXCEPT ![Current(c)] =
           IF sale[Current(c)].method = "CASH" THEN sale[Current(c)].shift ELSE None]
    /\ Answer(c, TRUE)
    /\ UNCHANGED <<owner, row, stage, shift, counted, clientVars>>

\* Another channel sells a free seat.
SoldElsewhere(s) ==
    /\ owner[s] = "free"
    /\ owner' = [owner EXCEPT ![s] = "elsewhere"]
    /\ UNCHANGED <<row, stage, drawer, shift, counted, clientVars, conn>>

-----------------------------------------------------------------------------
Next ==
    \/ \E t \in Terminals :
          \/ OpenDesk(t) \/ OpenQuota(t) \/ Install(t) \/ LineChanges(t)
          \/ CloseShift(t) \/ StepBack(t)
    \/ \E t \in Terminals, S \in SUBSET Seats : Reserve(t, S) \/ AskToPay(t, S)
    \/ \E t \in Terminals, s \in Seats : Release(t, s)
    \/ \E t \in Terminals, k \in Shifts : OpenShift(t, k)
    \/ \E t \in Terminals, r \in Sales, S \in SUBSET Seats : OfflineSell(t, r, S)
    \/ \E t \in Terminals, c \in Conns : Flush(t, c)
    \/ \E t \in Terminals, c \in Conns, r \in Sales, m \in Methods : Sell(t, c, r, m)
    \/ \E r \in Sales : Lapse(r)
    \/ \E c \in Conns :
          \/ Flushed(c) \/ Sold(c) \/ Drop(c)
          \/ Claim(c) \/ ClaimFails(c) \/ ReplaySeats(c) \/ HoldSeats(c)
          \/ Pay(c) \/ Ticket(c) \/ Drawer(c)
    \/ \E s \in Seats : SoldElsewhere(s)

Spec == Init /\ [][Next]_vars

-----------------------------------------------------------------------------
Offline(r) == sale[r] # NoSale /\ sale[r].kind = "offline"
Queued(r)  == \E t \in Terminals : Contains(queue[t], r)

\* Cash for an offline sale is in somebody's hand, so the sale must stay on
\* record: until the server has its row (offline_sales keeps the payload), it is
\* in the queue of its terminal, whatever is cut, retried or answered late.
NoSaleUnrecorded ==
    \A r \in Sales : Offline(r) /\ row[r] = "none" => Queued(r)

\* Two flushes of one queue, or a retry of a flush that was cut, do the work of
\* a sale once: the server never refuses a sale it has ticketed, nor tickets
\* one it has refused.
NeverBothTicketedAndRefused ==
    \A r \in Sales : row[r] = "REJECTED" => stage[r] # "ticketed"

\* A terminal closes the shift only when the server has the row of every sale
\* this terminal made without a line (the rule of shift/page.tsx:84-90).
ShiftClosesAfterReplay ==
    [][\A t \in Terminals :
         ctx[t] \in Shifts /\ shift[ctx[t]] = "OPEN" /\ ctx'[t] = None
             /\ shift'[ctx[t]] = "CLOSED"
         => \A r \in Sales : Offline(r) /\ sale[r].at = t => row[r] # "none"]_vars

-----------------------------------------------------------------------------
\* counter.go:490-493 and offline.ts:12-15: flushing again is harmless.  A sale
\* that has left the queue was ticketed, or the clerk was told it is refused.
ReplayIsHarmless ==
    \A r \in Sales :
        Offline(r) /\ ~Queued(r) => stage[r] = "ticketed" \/ row[r] = "REJECTED"

\* offline.ts:5-6: a counter sells offline only seats it exclusively owns, so
\* no seat is on two paper tickets.
PaperTicketsDistinct ==
    \A q, r \in Sales : q # r /\ Offline(q) /\ Offline(r)
        => sale[q].seats \cap sale[r].seats = {}

\* shift/page.tsx:85-87: no cash reaches a drawer after it has been counted.
ClosedDrawerIsFinal ==
    \A k \in Shifts : shift[k] = "CLOSED" =>
        {r \in Sales : drawer[r] = k} \subseteq counted[k]

\* page.tsx:37-39: the total is the server's, for every seat of the sale.
OfflineSalePaysFare ==
    \A r \in Sales : Offline(r) /\ stage[r] = "ticketed" =>
        sale[r].total = Fare * Cardinality(sale[r].seats) + ServiceFee

-----------------------------------------------------------------------------
\* The claims on seat s, as inventory-service has them: an online sale holds its seats
\* until it is ticketed (store.go:49-155), a replayed one is sold its seats as they leave
\* the quota (quota.go:163-251), and what another channel has is a hold of its own.
SaleHold(r)  == [of |-> "sale", id |-> r]
OtherHold(s) == [of |-> "elsewhere", id |-> s]
ThisCounter  == "counter"

SoldTo(r) == Offline(r) \/ stage[r] = "ticketed"

SeatClaims(s) ==
    CASE owner[s] = "free"      -> {}
      [] owner[s] = "quota"     -> {[kind |-> "quota", who |-> ThisCounter]}
      [] owner[s] = "elsewhere" -> {[kind |-> "held", who |-> OtherHold(s)]}
      [] OTHER -> {[kind |-> IF SoldTo(owner[s]) THEN "sold" ELSE "held",
                    who |-> SaleHold(owner[s])]}

\* A cell of the market is a seat for the whole way.
Market == INSTANCE SeatMarket WITH
    Segments <- {"whole way"},
    Holds    <- {SaleHold(r) : r \in Sales} \cup {OtherHold(s) : s \in Seats},
    Counters <- {ThisCounter},
    rights   <- [cell \in Seats \X {"whole way"} |-> SeatClaims(cell[1])]

\* The counter takes, sells and returns seats as SeatMarket allows and in no other way:
\* what this module assumes of inventory-service is what Inventory promises (counter.go,
\* store.go, quota.go).
ImplementsMarket == Market!Spec
=============================================================================
