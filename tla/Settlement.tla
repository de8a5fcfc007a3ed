----------------------------- MODULE Settlement -----------------------------
(***************************************************************************)
(* Settling with one operator: the finance console (apps/web/app/admin     *)
(* settlements and recon), commerce/channels.go and recon.go.  A page is   *)
(* one browser window of a member of staff: it acts on the row it opened,  *)
(* which may be out of date.  Approving is a request of three statements;  *)
(* every other request is one transaction.  A settlement is known by its   *)
(* period, and the exceptions of the three-way match by the booking whose  *)
(* payment they are about.  All bookings here are paid by a gateway.       *)
(***************************************************************************)
EXTENDS Ledger, FiniteSets, FiniteSetsExt

CONSTANTS
    Bookings, Pages, Staff,
    Who,            \* Who[w]: the member of staff signed in on page w
    Day,            \* Day[b]: the day on which b was made and paid
    Periods,        \* the <<from, to>> that are entered in the form
    Total,          \* the price of a booking
    Refunds,        \* the refunds the cancellation policies allow, 0 included
    None

ASSUME SettlementConstants ==
    /\ IsFiniteSet(Bookings) /\ IsFiniteSet(Periods)
    /\ Who \in [Pages -> Staff] /\ None \notin Staff
    /\ Day \in [Bookings -> Nat] /\ Periods \subseteq Nat \X Nat
    /\ Total \in Nat /\ Total > ServiceFee
    /\ Refunds \subseteq 0 .. Total /\ 0 \in Refunds

VARIABLES
    booking,        \* booking[b]: status of the commerce.bookings row
    refund,         \* refund[b]: amount of its commerce.refunds row
    listed,         \* the bookings whose payment the imported files confirm
    exception,      \* exception[b]: status of its finance.recon_exceptions row
    settlement,     \* settlement[p]: the finance.settlements row
    payable, bank,  \* what 2101 owes the operator, what 1001 has paid out
    shown,          \* shown[w]: the settlement row page w has open
    approving,      \* approving[w]: how far the approval sent by w has got
    signed          \* signed[p]: the figures of p when it was last reviewed

books == <<booking, refund, payable>>
match == <<listed, exception>>
vars  == <<books, match, settlement, bank, shown, approving, signed>>

-----------------------------------------------------------------------------
NoRow == [status |-> "none", items |-> {}, net |-> 0,
          reviewer |-> None, approver |-> None]

\* The stages of FLOW that a settlement reaches.
Stages == {"none", "CALCULATED", "REVIEWED", "APPROVED", "PAID"}
Rows   == [status : Stages, items : SUBSET Bookings, net : Int,
           reviewer : Staff \cup {None}, approver : Staff \cup {None}]
Figures(row) == [items |-> row.items, net |-> row.net]

\* What the page goes by; the figures of the row are for the reader.
View(p, row) == [period |-> p, status |-> row.status, reviewer |-> row.reviewer]
NoPage   == View(None, NoRow)
Idle     == [at |-> "idle", period |-> None]

\* The type of settlements, exceptions and the windows open on them (channels.go).
TypeOK ==
    /\ booking \in [Bookings -> {"none", "PAYMENT_PENDING", "TICKETED", "CANCELLED",
                                 "REFUND_PENDING", "REFUNDED"}]
    /\ refund \in [Bookings -> Refunds]
    /\ listed \subseteq Bookings
    /\ exception \in [Bookings -> {"none", "OPEN", "RESOLVED"}]
    /\ settlement \in [Periods -> Rows]
    /\ payable \in Int /\ bank \in Nat
    /\ shown \in [Pages -> [period : Periods \cup {None}, status : Stages,
                            reviewer : Staff \cup {None}]]
    /\ approving \in [Pages -> [at : {"idle", "internal", "match", "update"},
                                period : Periods \cup {None}]]
    /\ signed \in [Periods -> [items : SUBSET Bookings, net : Int]]

Init ==
    /\ booking = [b \in Bookings |-> "none"]
    /\ refund = [b \in Bookings |-> 0]
    /\ listed = {}
    /\ exception = [b \in Bookings |-> "none"]
    /\ settlement = [p \in Periods |-> NoRow]
    /\ payable = 0 /\ bank = 0
    /\ shown = [w \in Pages |-> NoPage]
    /\ approving = [w \in Pages |-> Idle]
    /\ signed = [p \in Periods |-> Figures(NoRow)]

-----------------------------------------------------------------------------
(* The bookings, and what their journals do to Operator Payable            *)

Within(b, p) == Day[b] \in p[1] .. p[2]

\* The payment is recorded, and its transaction that tickets comes later.
Pay(b) ==
    /\ booking[b] = "none"
    /\ booking' = [booking EXCEPT ![b] = "PAYMENT_PENDING"]
    /\ UNCHANGED <<refund, payable, match, settlement, bank, shown, approving, signed>>

Ticket(b) ==
    /\ booking[b] = "PAYMENT_PENDING"
    /\ booking' = [booking EXCEPT ![b] = "TICKETED"]
    /\ payable' = payable - GatewayPostings(Total)["2101"]
    /\ UNCHANGED <<refund, match, settlement, bank, shown, approving, signed>>

Cancel(b, amount) ==
    /\ booking[b] = "TICKETED"
    /\ booking' = [booking EXCEPT ![b] = IF amount > 0 THEN "REFUND_PENDING" ELSE "CANCELLED"]
    /\ refund' = [refund EXCEPT ![b] = amount]
    /\ payable' = payable - CancellationPostings(Total, amount)["2101"]
    /\ UNCHANGED <<match, settlement, bank, shown, approving, signed>>

SettleRefund(b) ==
    /\ booking[b] = "REFUND_PENDING"
    /\ booking' = [booking EXCEPT ![b] = "REFUNDED"]
    /\ UNCHANGED <<refund, payable, match, settlement, bank, shown, approving, signed>>

-----------------------------------------------------------------------------
(* The three-way match                                                     *)

PaidOn(d) == {b \in Bookings : Day[b] = d /\ booking[b] # "none"}

\* The files of a day replace the lines imported before; they are made from the
\* payments that exist by then, and seeded with errors.
Import(d, confirmed) ==
    /\ confirmed \subseteq PaidOn(d)
    /\ listed' = {b \in listed : Day[b] # d} \cup confirmed
    /\ UNCHANGED <<books, exception, settlement, bank, shown, approving, signed>>

\* A mismatch becomes an exception once: on conflict, nothing is done.
RunMatch(d) ==
    /\ exception' = [b \in Bookings |->
                        IF b \in PaidOn(d) \ listed /\ exception[b] = "none"
                        THEN "OPEN" ELSE exception[b]]
    /\ UNCHANGED <<books, listed, settlement, bank, shown, approving, signed>>

\* The Resolve button of an open exception.
Resolve(b) ==
    /\ exception[b] = "OPEN"
    /\ exception' = [exception EXCEPT ![b] = "RESOLVED"]
    /\ UNCHANGED <<books, listed, settlement, bank, shown, approving, signed>>

-----------------------------------------------------------------------------
(* Calculating and reviewing                                               *)

Settled(p) == {b \in Bookings :
                  Within(b, p) /\ booking[b] \in {"TICKETED", "CANCELLED", "REFUNDED"}}
Refunded(b) == IF booking[b] = "REFUNDED" THEN refund[b] ELSE 0
Nets        == [b \in Bookings |-> Total - PlatformShare(Total) - Refunded(b)]
Net(p)      == SumFunctionOnSet(Nets, Settled(p))

\* The page shows the settlement it acted on as it now is, unless the answer
\* gets lost.
Refresh(w, p) ==
    shown' \in {shown, [shown EXCEPT ![w] = View(p, settlement'[p])]}
Busy(w)         == approving[w].at # "idle"

\* Mutant of Recalculated: a reviewed settlement stays reviewed.
RecalculatedInPlace(p) ==
    IF settlement[p].status \in {"APPROVED", "PAID"} THEN settlement[p]
    ELSE [settlement[p] EXCEPT !.status = IF @ = "none" THEN "CALCULATED" ELSE @,
                               !.items = Settled(p), !.net = Net(p)]

\* An approved settlement is history; any other is calculated anew, and its
\* reviewer stays on the row.
Recalculated(p) ==
    IF settlement[p].status \in {"APPROVED", "PAID"} THEN settlement[p]
    ELSE [settlement[p] EXCEPT !.status = "CALCULATED", !.items = Settled(p), !.net = Net(p)]

Calculate(w, p) ==
    /\ ~Busy(w)
    /\ settlement' = [settlement EXCEPT ![p] = Recalculated(p)]
    /\ IF shown[w].period = None THEN UNCHANGED shown ELSE Refresh(w, shown[w].period)
    /\ UNCHANGED <<books, match, bank, approving, signed>>

OpenRow(w, p) ==
    /\ settlement[p].status # "none"
    /\ shown' = [shown EXCEPT ![w] = View(p, settlement[p])]
    /\ UNCHANGED <<books, match, settlement, bank, approving, signed>>

CloseRow(w) ==
    /\ shown' = [shown EXCEPT ![w] = NoPage]
    /\ UNCHANGED <<books, match, settlement, bank, approving, signed>>

\* The button is there when the page shows the settlement calculated; the
\* statement has an effect when it still is.
Review(w) ==
    LET p == shown[w].period
    IN  /\ ~Busy(w) /\ shown[w].status = "CALCULATED"
        /\ settlement[p].status = "CALCULATED"
        /\ settlement' = [settlement EXCEPT ![p].status = "REVIEWED", ![p].reviewer = Who[w]]
        /\ signed' = [signed EXCEPT ![p] = Figures(settlement[p])]
        /\ Refresh(w, p)
        /\ UNCHANGED <<books, match, bank, approving>>

-----------------------------------------------------------------------------
(* Approving and paying                                                    *)

\* Bookings of the statement whose refund has not settled.  PAYMENT_PENDING
\* is counted too, but no line of a statement is.
Internal(p) == {b \in settlement[p].items : booking[b] \in {"PAYMENT_PENDING", "REFUND_PENDING"}}
Unmatched(p) == {b \in Bookings : Within(b, p) /\ exception[b] = "OPEN"}

\* The button is not shown to the reviewer.
SendApproval(w) ==
    LET p == shown[w].period
    IN  /\ ~Busy(w) /\ shown[w].status = "REVIEWED" /\ shown[w].reviewer # Who[w]
        /\ approving' = [approving EXCEPT ![w] = [at |-> "internal", period |-> p]]
        /\ UNCHANGED <<books, match, settlement, bank, shown, signed>>

\* A check of the request: it goes on when nothing is found.
Check(w, at, found, next) ==
    /\ approving[w].at = at
    /\ approving' = [approving EXCEPT ![w] = IF found = {} THEN [@ EXCEPT !.at = next] ELSE Idle]
    /\ UNCHANGED <<books, match, settlement, bank, shown, signed>>

CheckInternal(w) == Check(w, "internal", Internal(approving[w].period), "match")

CheckMatch(w) == Check(w, "match", Unmatched(approving[w].period), "update")

\* Mutant of Approvable: the button was not shown to the reviewer.
ApprovableByAnyone(w, row) == row.status = "REVIEWED"

Approvable(w, row) == row.status = "REVIEWED" /\ row.reviewer # Who[w]

ApproveUpdate(w) ==
    LET p == approving[w].period
    IN  /\ approving[w].at = "update"
        /\ approving' = [approving EXCEPT ![w] = Idle]
        /\ IF Approvable(w, settlement[p])
           THEN /\ settlement' = [settlement EXCEPT ![p].status = "APPROVED",
                                                    ![p].approver = Who[w]]
                /\ Refresh(w, p)
           ELSE UNCHANGED <<settlement, shown>>
        /\ UNCHANGED <<books, match, bank, signed>>

\* Mutant of MarkPaid: the row on the page is believed.
MarkShownPaid(w) ==
    LET p == shown[w].period
    IN  /\ ~Busy(w) /\ shown[w].status = "APPROVED"
        /\ settlement' = [settlement EXCEPT ![p].status = "PAID"]
        /\ bank' = bank + Max({settlement[p].net, 0})
        /\ payable' = payable - Max({settlement[p].net, 0})
        /\ Refresh(w, p)
        /\ UNCHANGED <<booking, refund, match, approving, signed>>

\* Mutant of MarkPaid: straight to the last state of the flow.
MarkReconciled(w) ==
    LET p == shown[w].period
    IN  /\ ~Busy(w) /\ shown[w].status = "APPROVED"
        /\ settlement[p].status = "APPROVED"
        /\ settlement' = [settlement EXCEPT ![p].status = "RECONCILED"]
        /\ Refresh(w, p)
        /\ UNCHANGED <<books, match, bank, approving, signed>>

MarkPaid(w) ==
    LET p == shown[w].period
    IN  /\ ~Busy(w) /\ shown[w].status = "APPROVED"
        /\ settlement[p].status = "APPROVED"
        /\ settlement' = [settlement EXCEPT ![p].status = "PAID"]
        /\ bank' = bank + Max({settlement[p].net, 0})
        /\ payable' = payable - Max({settlement[p].net, 0})
        /\ Refresh(w, p)
        /\ UNCHANGED <<booking, refund, match, approving, signed>>

Next ==
    \/ \E b \in Bookings :
          \/ Pay(b) \/ Ticket(b) \/ SettleRefund(b) \/ Resolve(b)
          \/ \E amount \in Refunds : Cancel(b, amount)
    \/ \E d \in {Day[b] : b \in Bookings} :
          \/ RunMatch(d)
          \/ \E confirmed \in SUBSET Bookings : Import(d, confirmed)
    \/ \E w \in Pages :
          \/ Review(w) \/ SendApproval(w) \/ CheckInternal(w) \/ CheckMatch(w)
          \/ ApproveUpdate(w) \/ MarkPaid(w)
          \/ CloseRow(w)
          \/ \E p \in Periods : Calculate(w, p) \/ OpenRow(w, p)

Spec == Init /\ [][Next]_vars

-----------------------------------------------------------------------------
(* Properties                                                              *)

\* What is approved has been reviewed, and not by the person who approved it,
\* whatever windows the two have open (ApproveSettlement's maker-checker).
TwoPeople ==
    \A p \in Periods : settlement[p].status \in {"APPROVED", "PAID"} =>
        /\ settlement[p].reviewer # None
        /\ settlement[p].approver \notin {None, settlement[p].reviewer}

\* From the review on, the lines and the sum of a settlement are the ones that
\* were reviewed: a recalculation asks for a new review or changes nothing.
SignedFiguresStand ==
    \A p \in Periods : settlement[p].status \in {"REVIEWED", "APPROVED", "PAID"} =>
        Figures(settlement[p]) = signed[p]

\* The operator has been paid every settlement marked paid, once, and nothing
\* else (MarkSettlementPaid from several windows, on rows out of date).
BankPaysSettlements ==
    bank = SumFunctionOnSet([p \in Periods |-> Max({settlement[p].net, 0})],
                            {p \in Periods : settlement[p].status = "PAID"})

\* Paying a settlement that is up to date and covers every booking clears what
\* the books owe the operator: the split of a sale and of a refund is "the same
\* split the journal posted" (MarkSettlementPaid, CalculateSettlement).
PaidClearsPayable ==
    \A p \in Periods :
        (/\ settlement[p].status = "PAID"
         /\ settlement[p].items = {b \in Bookings : booking[b] # "none"}
         /\ settlement[p].items = Settled(p)
         /\ settlement[p].net = Net(p)
         /\ \A q \in Periods \ {p} : settlement[q].status # "PAID")
        => payable = 0
=============================================================================
