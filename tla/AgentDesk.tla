----------------------------- MODULE AgentDesk ------------------------------
(***************************************************************************)
(* An agency that sells on its wallet: the pages of apps/web/app/agent and *)
(* admin/recharges, handleAgentSale of httpapi/agent.go, package wallet    *)
(* and SettleAgentSale of commerce/channels.go.                            *)
(*                                                                         *)
(* Several clerks share one wallet, each looking at the figures her page   *)
(* last loaded.  A sale is one request that makes nine transactions in     *)
(* turn (at[r]); it can be cut after any of them, and two sales interleave *)
(* freely.  Inventory is what module Inventory says of AcquireHold,        *)
(* ConfirmHold, ReleaseHold and SweepExpired, for whole seats.             *)
(***************************************************************************)
EXTENDS Integers, Sequences, FiniteSets, SequencesExt, FiniteSetsExt

CONSTANTS
    Clerks,         \* agency staff, one page each
    Approvers,      \* staff with wallet.approve; a clerk may be one of them
    Sales,          \* ids of sale requests
    Recharges,
    Seats,
    Fare, Fee, AgentShare, TopUp,
    CreditLimit,
    NoOne

ASSUME AgentConstants ==
    /\ {Fare, Fee, AgentShare, TopUp, CreditLimit} \subseteq Nat
    /\ Fare > 0 /\ TopUp > 0
    /\ IsFiniteSet(Sales) /\ IsFiniteSet(Seats)
    /\ NoOne \notin Clerks \cup Approvers

VARIABLES
    seatHold,   \* seatHold[r]: status of the seat hold of sale r
    available, held,    \* the columns of agent.wallets
    txns,       \* agent.wallet_transactions, in order
    walletHold, \* walletHold[r]: status of the wallet hold of r
    made,       \* made[r]: status of the booking of r
    paid,       \* the sales with a payments row
    earned,     \* the sales with an agent.commissions row
    recharge,   \* recharge[q]: a row of agent.recharges
    at,         \* at[r]: the next transaction of the request for r
    sale,       \* sale[r]: who asked for which seats
    figure      \* figure[k]: the spendable figure on the page of clerk k

wallet == <<available, held, txns, walletHold>>
agentVars == <<seatHold, wallet, made, paid, earned, recharge, at, sale, figure>>

-----------------------------------------------------------------------------
NotAsked == [by |-> NoOne]
NoRecharge    == [status |-> "none", by |-> NoOne, approver |-> NoOne]
NotLoaded == -1     \* no page has such a figure: see WithinCredit

Price(r)  == Fare * Cardinality(sale[r].seats) + Fee
Spendable == available + CreditLimit - held
Row(kind, ref, delta) == [kind |-> kind, ref |-> ref, delta |-> delta]

Steps == {"idle", "seats", "money", "no money", "book", "no booking", "capture",
          "pay", "confirm", "ticket", "commission", "credit", "done", "over"}

\* The type of the wallet, its entries and the sales under way (wallet.go).
AgentTypeOK ==
    /\ seatHold \in [Sales -> {"none", "HELD", "CONFIRMED", "RELEASED", "EXPIRED"}]
    /\ available \in Int /\ held \in Nat
    /\ txns \in Seq([kind : {"SALE", "COMMISSION", "RECHARGE"},
                     ref : Sales \cup Recharges, delta : Int])
    /\ walletHold \in [Sales -> {"none", "HELD", "CAPTURED", "RELEASED"}]
    /\ made \in [Sales -> {"none", "PAYMENT_PENDING", "TICKETED"}]
    /\ paid \subseteq Sales /\ earned \subseteq Sales
    /\ recharge \in [Recharges -> [status : {"none", "REQUESTED", "APPROVED"},
                                   by : Clerks \cup {NoOne},
                                   approver : Approvers \cup {NoOne}]]
    /\ at \in [Sales -> Steps]
    /\ sale \in [Sales -> {NotAsked} \cup [by : Clerks, seats : (SUBSET Seats) \ {{}}]]
    /\ figure \in [Clerks -> Int]

AgentInit ==
    /\ seatHold = [r \in Sales |-> "none"]
    /\ available = 0 /\ held = 0 /\ txns = <<>>
    /\ walletHold = [r \in Sales |-> "none"]
    /\ made = [r \in Sales |-> "none"]
    /\ paid = {} /\ earned = {}
    /\ recharge = [q \in Recharges |-> NoRecharge]
    /\ at = [r \in Sales |-> "idle"]
    /\ sale = [r \in Sales |-> NotAsked]
    /\ figure = [k \in Clerks |-> NotLoaded]

-----------------------------------------------------------------------------
(* The pages                                                                *)

\* loadWallet(), when a page opens.
LoadWallet(k) ==
    /\ figure' = [figure EXCEPT ![k] = Spendable]
    /\ UNCHANGED <<seatHold, wallet, made, paid, earned, recharge, at, sale>>

Selling(k) == \E r \in Sales : sale[r].by = k /\ at[r] \notin {"idle", "over"}

\* Mutant of Sell: the button is enabled before a seat is picked.
SellNothing(k, r, S) ==
    /\ at[r] = "idle" /\ ~Selling(k)
    /\ sale' = [sale EXCEPT ![r] = [by |-> k, seats |-> S]]
    /\ at' = [at EXCEPT ![r] = "seats"]
    /\ UNCHANGED <<seatHold, wallet, made, paid, earned, recharge, figure>>

\* The sell button: not while this page waits for a sale, and not when the total
\* is more than the figure it shows.  The seats are those of a map that may be
\* old, so they may be anybody's by now.
Sell(k, r, S) ==
    /\ at[r] = "idle" /\ ~Selling(k) /\ S # {}
    /\ figure[k] # NotLoaded => Fare * Cardinality(S) + Fee <= figure[k]
    /\ sale' = [sale EXCEPT ![r] = [by |-> k, seats |-> S]]
    /\ at' = [at EXCEPT ![r] = "seats"]
    /\ UNCHANGED <<seatHold, wallet, made, paid, earned, recharge, figure>>

\* 201: the page shows the wallet the server sent with the ticket.
Receipt(r) ==
    /\ at[r] = "done"
    /\ at' = [at EXCEPT ![r] = "over"]
    /\ figure' = [figure EXCEPT ![sale[r].by] = Spendable]
    /\ UNCHANGED <<seatHold, wallet, made, paid, earned, recharge, sale>>

\* The request is cut, or one of its transactions fails and the handler answers
\* 500 without putting anything back.  The page enables its button again.
Cut(r) ==
    /\ at[r] \notin {"idle", "over"}
    /\ at' = [at EXCEPT ![r] = "over"]
    /\ UNCHANGED <<seatHold, wallet, made, paid, earned, recharge, sale, figure>>

\* The recharge form; the balance does not move.
RequestRecharge(k, q) ==
    /\ recharge[q] = NoRecharge
    /\ recharge' = [recharge EXCEPT ![q] = [status |-> "REQUESTED", by |-> k, approver |-> NoOne]]
    /\ UNCHANGED <<seatHold, wallet, made, paid, earned, at, sale, figure>>

-----------------------------------------------------------------------------
(* Package wallet                                                           *)

Log(kind, ref, delta) == txns' = Append(txns, Row(kind, ref, delta))

\* Mutant of Hold: the balance the page checked is trusted.
HoldUnchecked(r) ==
    /\ held' = held + Price(r)
    /\ walletHold' = [walletHold EXCEPT ![r] = "HELD"]
    /\ UNCHANGED <<available, txns>>

\* Hold, when the conditional UPDATE finds the row.
Hold(r) ==
    /\ Spendable >= Price(r)
    /\ held' = held + Price(r)
    /\ walletHold' = [walletHold EXCEPT ![r] = "HELD"]
    /\ UNCHANGED <<available, txns>>

Capture(r) ==
    /\ walletHold[r] = "HELD"
    /\ walletHold' = [walletHold EXCEPT ![r] = "CAPTURED"]
    /\ held' = held - Price(r) /\ available' = available - Price(r)
    /\ Log("SALE", r, -Price(r))

ReleaseHold(r) ==
    /\ walletHold' = [walletHold EXCEPT ![r] = "RELEASED"]
    /\ held' = held - Price(r)
    /\ UNCHANGED <<available, txns>>

\* The admin page offers Approve for the rows of a list that may be old; the
\* UPDATE takes a row that is still REQUESTED, and by somebody else.
ApproveRecharge(p, q) ==
    /\ recharge[q].status = "REQUESTED" /\ recharge[q].by # p
    /\ recharge' = [recharge EXCEPT ![q].status = "APPROVED", ![q].approver = p]
    /\ available' = available + TopUp
    /\ Log("RECHARGE", q, TopUp)
    /\ UNCHANGED <<seatHold, held, walletHold, made, paid, earned, at, sale, figure>>

-----------------------------------------------------------------------------
(* handleAgentSale: seats, money, booking, ticket, commission               *)

Goto(r, step) == at' = [at EXCEPT ![r] = step]
Taken(s) == \E r \in Sales : seatHold[r] \in {"HELD", "CONFIRMED"} /\ s \in sale[r].seats

\* AcquireHold; a 409 sends the page to a fresh seat map.
HoldSeats(r) ==
    /\ at[r] = "seats"
    /\ IF \E s \in sale[r].seats : Taken(s)
       THEN Goto(r, "over") /\ UNCHANGED seatHold
       ELSE Goto(r, "money") /\ seatHold' = [seatHold EXCEPT ![r] = "HELD"]
    /\ UNCHANGED <<wallet, made, paid, earned, recharge, sale, figure>>

HoldMoney(r) ==
    /\ at[r] = "money"
    /\ Hold(r)
    /\ Goto(r, "book")
    /\ UNCHANGED <<seatHold, made, paid, earned, recharge, sale, figure>>

NoMoney(r) ==
    /\ at[r] = "money"
    /\ Spendable < Price(r)
    /\ Goto(r, "no money")
    /\ UNCHANGED <<seatHold, wallet, made, paid, earned, recharge, sale, figure>>

\* 402: the seats go back (the sweeper may have been first), the page loads the
\* wallet again.
HandBackSeats(r) ==
    /\ at[r] = "no money"
    /\ seatHold' = [seatHold EXCEPT ![r] = IF @ = "HELD" THEN "RELEASED" ELSE @]
    /\ figure' = [figure EXCEPT ![sale[r].by] = Spendable]
    /\ Goto(r, "over")
    /\ UNCHANGED <<wallet, made, paid, earned, recharge, sale>>

CreateBooking(r) ==
    /\ at[r] = "book"
    /\ made' = [made EXCEPT ![r] = "PAYMENT_PENDING"]
    /\ Goto(r, "capture")
    /\ UNCHANGED <<seatHold, wallet, paid, earned, recharge, sale, figure>>

\* The trip cannot be read or the booking not written: the money goes back, then
\* the seats.
BookingFails(r) ==
    /\ at[r] = "book"
    /\ ReleaseHold(r)
    /\ Goto(r, "no booking")
    /\ UNCHANGED <<seatHold, made, paid, earned, recharge, sale, figure>>

HandBackUnbooked(r) ==
    /\ at[r] = "no booking"
    /\ seatHold' = [seatHold EXCEPT ![r] = IF @ = "HELD" THEN "RELEASED" ELSE @]
    /\ Goto(r, "over")
    /\ UNCHANGED <<wallet, made, paid, earned, recharge, sale, figure>>

\* Mutant of CaptureMoney: the ticket first, the money when it is issued.
CaptureLater(r) ==
    /\ at[r] = "capture"
    /\ Goto(r, "pay")
    /\ UNCHANGED <<seatHold, wallet, made, paid, earned, recharge, sale, figure>>

CaptureMoney(r) ==
    /\ at[r] = "capture"
    /\ Capture(r)
    /\ Goto(r, "pay")
    /\ UNCHANGED <<seatHold, made, paid, earned, recharge, sale, figure>>

\* SettleAgentSale: the payments row, the seats, the ticket, the commission.
RecordPayment(r) ==
    /\ at[r] = "pay"
    /\ paid' = paid \cup {r}
    /\ Goto(r, "confirm")
    /\ UNCHANGED <<seatHold, wallet, made, earned, recharge, sale, figure>>

ConfirmSeats(r) ==
    /\ at[r] = "confirm"
    /\ IF seatHold[r] = "HELD"
       THEN seatHold' = [seatHold EXCEPT ![r] = "CONFIRMED"] /\ Goto(r, "ticket")
       ELSE Goto(r, "over") /\ UNCHANGED seatHold
    /\ UNCHANGED <<wallet, made, paid, earned, recharge, sale, figure>>

Finalise(r) ==
    /\ at[r] = "ticket"
    /\ made' = [made EXCEPT ![r] = "TICKETED"]
    /\ Goto(r, "commission")
    /\ UNCHANGED <<seatHold, wallet, paid, earned, recharge, sale, figure>>

\* The commission journal and row; a sale may earn none.
EarnCommission(r) ==
    /\ at[r] = "commission"
    /\ IF AgentShare > 0
       THEN earned' = earned \cup {r} /\ Goto(r, "credit")
       ELSE Goto(r, "done") /\ UNCHANGED earned
    /\ UNCHANGED <<seatHold, wallet, made, paid, recharge, sale, figure>>

\* Credit; its error is ignored, the sale is answered all the same.
CreditCommission(r) ==
    /\ at[r] = "credit"
    /\ \/ available' = available + AgentShare /\ Log("COMMISSION", r, AgentShare)
       \/ UNCHANGED <<available, txns>>
    /\ Goto(r, "done")
    /\ UNCHANGED <<seatHold, held, walletHold, made, paid, earned, recharge, sale, figure>>

\* SweepExpired: five minutes are over.
SweepSeats(r) ==
    /\ seatHold[r] = "HELD"
    /\ seatHold' = [seatHold EXCEPT ![r] = "EXPIRED"]
    /\ UNCHANGED <<wallet, made, paid, earned, recharge, at, sale, figure>>

-----------------------------------------------------------------------------
AgentNext ==
    \/ \E k \in Clerks : LoadWallet(k)
    \/ \E k \in Clerks, r \in Sales, S \in SUBSET Seats : Sell(k, r, S)
    \/ \E k \in Clerks, q \in Recharges : RequestRecharge(k, q)
    \/ \E p \in Approvers, q \in Recharges : ApproveRecharge(p, q)
    \/ \E r \in Sales :
          \/ HoldSeats(r) \/ HoldMoney(r) \/ NoMoney(r) \/ HandBackSeats(r)
          \/ CreateBooking(r) \/ BookingFails(r) \/ HandBackUnbooked(r)
          \/ CaptureMoney(r) \/ RecordPayment(r) \/ ConfirmSeats(r)
          \/ Finalise(r) \/ EarnCommission(r) \/ CreditCommission(r)
          \/ Receipt(r) \/ Cut(r) \/ SweepSeats(r)

AgentSpec == AgentInit /\ [][AgentNext]_agentVars

-----------------------------------------------------------------------------
Logged(kind, ref) == {i \in DOMAIN txns : txns[i].kind = kind /\ txns[i].ref = ref}

\* However many clerks sell on however old a figure, the wallet never promises
\* more than its balance and its credit line.
WithinCredit == Spendable >= 0

\* No ticket exists that the wallet was not charged for, exactly once, and no
\* ticket for seats the sale has lost meanwhile.
TicketsArePaid ==
    \A r \in Sales : made[r] = "TICKETED" =>
        /\ walletHold[r] = "CAPTURED" /\ Cardinality(Logged("SALE", r)) = 1
        /\ seatHold[r] = "CONFIRMED"

-----------------------------------------------------------------------------
\* agent/page.tsx:14-15: "held" is what is committed to sales in flight.
HeldIsInFlight == \A r \in Sales : walletHold[r] = "HELD" => at[r] # "over"

-----------------------------------------------------------------------------
\* The claims on seat s that the seat holds of the sales state.
SeatClaims(s) == {[kind |-> IF seatHold[r] = "HELD" THEN "held" ELSE "sold", who |-> r] :
                    r \in {q \in Sales : seatHold[q] \in {"HELD", "CONFIRMED"} /\ s \in sale[q].seats}}

\* A cell of the market is a seat for the whole way; a hold is a sale's.
Market == INSTANCE SeatMarket WITH
    Segments <- {"whole way"}, Holds <- Sales, Counters <- {},
    rights   <- [cell \in Seats \X {"whole way"} |-> SeatClaims(cell[1])]

\* However the requests of the clerks are cut and the sweeper comes between, seats are
\* taken, sold and given back as SeatMarket allows and in no other way: what this module
\* assumes of inventory-service is what Inventory promises (agent.go, store.go).
ImplementsMarket == Market!Spec
=============================================================================
