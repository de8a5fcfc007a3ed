---------------------------- MODULE FinanceProofs -----------------------------
(***************************************************************************)
(* The theorems about the three parts of Finance: what the platform owes the*)
(* operators (Settlement), the agents' wallets (AgentDesk) and the sign-in of*)
(* the staff (StaffSession), each for every value of its constants, and about*)
(* the three together.  The parts share no state.                           *)
(***************************************************************************)
EXTENDS Finance, DataProofs, SequenceTheorems

-----------------------------------------------------------------------------
(* Settlement: types                                                        *)

\* What a window has open is one of the periods, or nothing, and an approval under
\* way is about one.
PagesOfPeriods ==
    \A w \in Pages :
        /\ shown[w].status # "none" => shown[w].period \in Periods
        /\ approving[w].at # "idle" => approving[w].period \in Periods

WellTyped == TypeOK /\ PagesOfPeriods

\* A settlement paid out is an amount of money, and never a negative one.
LEMMA MaxOfNet ==
    ASSUME NEW n \in Int
    PROVE  Max({n, 0}) \in Nat
<1>1. \E x \in {n, 0} : \A y \in {n, 0} : x >= y
  OBVIOUS
<1>2. Max({n, 0}) \in {n, 0} /\ \A y \in {n, 0} : Max({n, 0}) >= y
  BY <1>1 DEF Max
<1> QED BY <1>2

\* The net of a settlement is an integer, whatever bookings it has.
LEMMA NetType == TypeOK => \A p \in Periods : Net(p) \in Int
<1> SUFFICES ASSUME TypeOK, NEW p \in Periods PROVE Net(p) \in Int
    OBVIOUS
<1>1. ServiceFee \in Int /\ Total \in Int
  BY SettlementConstants, LedgerConstants
<1>2. PlatformShare(Total) \in Int
  BY <1>1 DEF PlatformShare, Commission
<1>3. \A b \in Bookings : Refunded(b) \in Int
  <2>1. \A x \in Refunds : x \in Int
    BY SettlementConstants
  <2>2. \A b \in Bookings : refund[b] \in Refunds
    BY DEF TypeOK
  <2> QED BY <2>1, <2>2 DEF Refunded
<1>4. \A b \in Settled(p) : Nets[b] \in Int
  BY <1>1, <1>2, <1>3 DEF Nets, Settled
<1>5. IsFiniteSet(Settled(p))
  BY SettlementConstants, FS_Subset DEF Settled
<1> QED BY <1>4, <1>5, SumType DEF Net

\* What the journals post to an account is an amount.
LEMMA PostedType ==
    /\ GatewayPostings(Total)["2101"] \in Int
    /\ \A amount \in Refunds : CancellationPostings(Total, amount)["2101"] \in Int
<1>1. ServiceFee \in Int /\ Total \in Int /\ Total # 0 /\ Total > 0
  BY SettlementConstants, LedgerConstants
<1>2. OperatorShare(Total) \in Int
  BY <1>1 DEF OperatorShare, Commission
<1>3. \A amount \in Refunds : (amount * OperatorShare(Total)) \div Total \in Int
  BY <1>1, <1>2, SettlementConstants
<1> QED
  BY <1>2, <1>3 DEF GatewayPostings, CancellationPostings, EmptyJournal, Accounts

\* A row, once calculated, is a row.
LEMMA RecalculatedType == TypeOK => \A p \in Periods : Recalculated(p) \in Rows
<1> SUFFICES ASSUME TypeOK, NEW p \in Periods PROVE Recalculated(p) \in Rows
    OBVIOUS
<1>1. settlement[p] \in Rows
  BY DEF TypeOK
<1>2. Net(p) \in Int /\ Settled(p) \in SUBSET Bookings
  BY NetType DEF Settled
<1> HIDE DEF TypeOK
<1> QED BY <1>1, <1>2 DEF Recalculated, Rows, Stages

\* ... and so is one that moves on in the flow.
LEMMA RowMoves ==
    ASSUME NEW s \in [Periods -> Rows], NEW p \in Periods, NEW st \in Stages, NEW who \in Staff
    PROVE  /\ [s EXCEPT ![p].status = st] \in [Periods -> Rows]
           /\ [s EXCEPT ![p].status = st, ![p].reviewer = who] \in [Periods -> Rows]
           /\ [s EXCEPT ![p].status = st, ![p].approver = who] \in [Periods -> Rows]
<1>1. [s[p] EXCEPT !.status = st] \in Rows
  BY DEF Rows
<1>2. [s[p] EXCEPT !.status = st, !.reviewer = who] \in Rows
  BY DEF Rows
<1>3. [s[p] EXCEPT !.status = st, !.approver = who] \in Rows
  BY DEF Rows
<1> QED BY <1>1, <1>2, <1>3

\* Showing a row of the settlement as it now is keeps the windows windows.
Windows == [period : Periods \cup {None}, status : Stages, reviewer : Staff \cup {None}]
LEMMA RefreshType ==
    ASSUME TypeOK, PagesOfPeriods, settlement' \in [Periods -> Rows],
           NEW w \in Pages, NEW p \in Periods, Refresh(w, p)
    PROVE  /\ shown' \in [Pages -> Windows]
           /\ \A v \in Pages : shown'[v].status # "none" => shown'[v].period \in Periods
<1> DEFINE view == View(p, settlement'[p])
<1>1. view \in Windows /\ view.period \in Periods
  BY DEF View, Windows, Rows
<1>2. shown \in [Pages -> Windows]
  BY DEF TypeOK, Windows
<1>3. \A v \in Pages : shown[v].status # "none" => shown[v].period \in Periods
  BY DEF PagesOfPeriods
<1>4. shown' \in {shown, [shown EXCEPT ![w] = view]}
  BY DEF Refresh
<1> HIDE DEF view
<1> QED BY <1>1, <1>2, <1>3, <1>4

LEMMA TypedInit == Init => WellTyped
BY SettlementConstants
   DEF Init, WellTyped, TypeOK, PagesOfPeriods, NoRow, NoPage, View, Idle, Rows, Stages, Figures

LEMMA TypedStep == WellTyped /\ [Next]_vars => WellTyped'
<1> SUFFICES ASSUME WellTyped, [Next]_vars PROVE WellTyped'
    OBVIOUS
<1> USE SettlementConstants
<1>1. ASSUME NEW b \in Bookings, Pay(b) PROVE WellTyped'
  BY <1>1 DEF Pay, WellTyped, TypeOK, PagesOfPeriods, match
<1>2. ASSUME NEW b \in Bookings, Ticket(b) PROVE WellTyped'
  BY <1>2, PostedType DEF Ticket, WellTyped, TypeOK, PagesOfPeriods, match
<1>3. ASSUME NEW b \in Bookings, SettleRefund(b) PROVE WellTyped'
  BY <1>3 DEF SettleRefund, WellTyped, TypeOK, PagesOfPeriods, match
<1>4. ASSUME NEW b \in Bookings, Resolve(b) PROVE WellTyped'
  BY <1>4 DEF Resolve, WellTyped, TypeOK, PagesOfPeriods, books
<1>5. ASSUME NEW b \in Bookings, NEW amount \in Refunds, Cancel(b, amount) PROVE WellTyped'
  BY <1>5, PostedType DEF Cancel, WellTyped, TypeOK, PagesOfPeriods, match
<1>6. ASSUME NEW d, RunMatch(d) PROVE WellTyped'
  BY <1>6 DEF RunMatch, WellTyped, TypeOK, PagesOfPeriods, books
<1>7. ASSUME NEW d, NEW confirmed \in SUBSET Bookings, Import(d, confirmed) PROVE WellTyped'
  BY <1>7 DEF Import, WellTyped, TypeOK, PagesOfPeriods, books
<1>8. ASSUME NEW w \in Pages, Review(w) PROVE WellTyped'
  <2>1. shown[w].period \in Periods
    BY <1>8 DEF Review, WellTyped, TypeOK, PagesOfPeriods
  <2>2. settlement' \in [Periods -> Rows]
    <3>1. settlement' = [settlement EXCEPT ![shown[w].period].status = "REVIEWED",
                                           ![shown[w].period].reviewer = Who[w]]
      BY <1>8 DEF Review
    <3>2. settlement \in [Periods -> Rows] /\ Who[w] \in Staff
      BY DEF WellTyped, TypeOK
    <3> QED BY <3>1, <3>2, <2>1, RowMoves DEF Stages
  <2>3. signed' \in [Periods -> [items : SUBSET Bookings, net : Int]]
    BY <1>8, <2>1 DEF Review, WellTyped, TypeOK, Rows, Figures
  <2>4. /\ shown' \in [Pages -> Windows]
        /\ \A v \in Pages : shown'[v].status # "none" => shown'[v].period \in Periods
    <3>1. Refresh(w, shown[w].period)
      BY <1>8 DEF Review
    <3> QED BY <3>1, <2>1, <2>2, RefreshType DEF WellTyped
  <2>5. UNCHANGED <<booking, refund, payable, listed, exception, bank, approving>>
    BY <1>8 DEF Review, books, match
  <2> QED
    BY <2>2, <2>3, <2>4, <2>5 DEF Windows, WellTyped, TypeOK, PagesOfPeriods
<1>9. ASSUME NEW w \in Pages, SendApproval(w) PROVE WellTyped'
  <2>1. shown[w].period \in Periods
    BY <1>9 DEF SendApproval, WellTyped, TypeOK, PagesOfPeriods
  <2> QED
    BY <1>9, <2>1 DEF SendApproval, WellTyped, TypeOK, PagesOfPeriods, books, match
<1>10. ASSUME NEW w \in Pages, NEW step \in {"internal", "match"}, NEW found,
              NEW next \in {"match", "update"}, Check(w, step, found, next)
       PROVE  WellTyped'
  BY <1>10 DEF Check, Idle, WellTyped, TypeOK, PagesOfPeriods, books, match
<1>11. ASSUME NEW w \in Pages, ApproveUpdate(w) PROVE WellTyped'
  <2>1. approving[w].period \in Periods
    BY <1>11 DEF ApproveUpdate, WellTyped, TypeOK, PagesOfPeriods
  <2>2. settlement' \in [Periods -> Rows]
    <3>1. \/ UNCHANGED settlement
          \/ settlement' = [settlement EXCEPT ![approving[w].period].status = "APPROVED",
                                              ![approving[w].period].approver = Who[w]]
      BY <1>11 DEF ApproveUpdate
    <3>2. settlement \in [Periods -> Rows] /\ Who[w] \in Staff
      BY DEF WellTyped, TypeOK
    <3>3. [settlement EXCEPT ![approving[w].period].status = "APPROVED",
                             ![approving[w].period].approver = Who[w]] \in [Periods -> Rows]
      BY <3>2, <2>1, RowMoves DEF Stages
    <3> QED BY <3>1, <3>2, <3>3
  <2>3. /\ approving' \in [Pages -> [at : {"idle", "internal", "match", "update"},
                                     period : Periods \cup {None}]]
        /\ \A v \in Pages : approving'[v].at # "idle" => approving'[v].period \in Periods
    BY <1>11 DEF ApproveUpdate, Idle, WellTyped, TypeOK, PagesOfPeriods
  <2>4. /\ shown' \in [Pages -> Windows]
        /\ \A v \in Pages : shown'[v].status # "none" => shown'[v].period \in Periods
    <3>1. \/ UNCHANGED shown
          \/ Refresh(w, approving[w].period)
      BY <1>11 DEF ApproveUpdate
    <3> QED BY <3>1, <2>1, <2>2, RefreshType DEF WellTyped, TypeOK, PagesOfPeriods, Windows
  <2>5. UNCHANGED <<booking, refund, payable, listed, exception, bank, signed>>
    BY <1>11 DEF ApproveUpdate, books, match
  <2> QED
    BY <2>2, <2>3, <2>4, <2>5 DEF Windows, WellTyped, TypeOK, PagesOfPeriods
<1>12. ASSUME NEW w \in Pages, MarkPaid(w) PROVE WellTyped'
  <2>1. shown[w].period \in Periods
    BY <1>12 DEF MarkPaid, WellTyped, TypeOK, PagesOfPeriods
  <2>2. settlement' \in [Periods -> Rows]
    <3>1. settlement' = [settlement EXCEPT ![shown[w].period].status = "PAID"]
      BY <1>12 DEF MarkPaid
    <3>2. settlement \in [Periods -> Rows] /\ Who[w] \in Staff
      BY DEF WellTyped, TypeOK
    <3> QED BY <3>1, <3>2, <2>1, RowMoves DEF Stages
  <2>3. Max({settlement[shown[w].period].net, 0}) \in Nat
    BY <2>1, MaxOfNet DEF WellTyped, TypeOK, Rows
  <2>4. /\ shown' \in [Pages -> Windows]
        /\ \A v \in Pages : shown'[v].status # "none" => shown'[v].period \in Periods
    <3>1. Refresh(w, shown[w].period)
      BY <1>12 DEF MarkPaid
    <3> QED BY <3>1, <2>1, <2>2, RefreshType DEF WellTyped
  <2>5. UNCHANGED <<booking, refund, listed, exception, approving, signed>>
    BY <1>12 DEF MarkPaid, books, match
  <2>6. payable' \in Int /\ bank' \in Nat
    BY <1>12, <2>3 DEF MarkPaid, WellTyped, TypeOK
  <2> QED
    BY <2>2, <2>3, <2>4, <2>5, <2>6 DEF Windows, WellTyped, TypeOK, PagesOfPeriods
<1>13. ASSUME NEW w \in Pages, CloseRow(w) PROVE WellTyped'
  BY <1>13 DEF CloseRow, NoPage, View, NoRow, Stages, WellTyped, TypeOK, PagesOfPeriods, books, match
<1>14. ASSUME NEW w \in Pages, NEW p \in Periods, Calculate(w, p) PROVE WellTyped'
  <2>1. settlement' \in [Periods -> Rows]
    BY <1>14, RecalculatedType DEF Calculate, WellTyped, TypeOK
  <2> QED
    BY <1>14, <2>1, RefreshType
       DEF Windows, Calculate, WellTyped, TypeOK, PagesOfPeriods, books, match
<1>15. ASSUME NEW w \in Pages, NEW p \in Periods, OpenRow(w, p) PROVE WellTyped'
  BY <1>15 DEF OpenRow, View, WellTyped, TypeOK, Rows, PagesOfPeriods, books, match
<1>16. CASE UNCHANGED vars
  BY <1>16 DEF vars, books, match, WellTyped, TypeOK, PagesOfPeriods
<1> QED
  BY <1>1, <1>2, <1>3, <1>4, <1>5, <1>6, <1>7, <1>8, <1>9, <1>10, <1>11, <1>12, <1>13,
     <1>14, <1>15, <1>16
     DEF Next, CheckInternal, CheckMatch

\* A row of a settlement is a row of a settlement of one of the periods, whatever
\* happens (channels.go, BuildSettlement and after).
THEOREM SettlementTypes == Spec => []TypeOK
<1>1. WellTyped => TypeOK
  BY DEF WellTyped
<1> QED BY <1>1, TypedInit, TypedStep, PTL DEF Spec

-----------------------------------------------------------------------------
(* Two people, and the figures they saw                                     *)

\* What the two signatures rest on: a settlement is not approved without a review
\* before, and the review recorded what it saw.
Signatures ==
    \A p \in Periods :
        /\ settlement[p].status \in {"REVIEWED", "APPROVED", "PAID"} =>
               /\ settlement[p].reviewer # None
               /\ Figures(settlement[p]) = signed[p]
        /\ settlement[p].status \in {"APPROVED", "PAID"} =>
               settlement[p].approver \notin {None, settlement[p].reviewer}

\* What has been approved and paid stays as it was; what is calculated anew asks for
\* a review.
LEMMA CalculateKeeps ==
    ASSUME WellTyped, NEW w \in Pages, NEW p \in Periods, Calculate(w, p), NEW q \in Periods
    PROVE  \/ settlement'[q] = settlement[q]
           \/ /\ settlement'[q].status = "CALCULATED"
              /\ settlement[q].status \notin {"APPROVED", "PAID"}
<1>1. settlement' = [settlement EXCEPT ![p] = Recalculated(p)]
  BY DEF Calculate
<1>2. settlement \in [Periods -> Rows]
  BY DEF WellTyped, TypeOK
<1>3. CASE q # p
  BY <1>1, <1>2, <1>3
<1>4. CASE q = p /\ settlement[p].status \in {"APPROVED", "PAID"}
  BY <1>1, <1>2, <1>4 DEF Recalculated
<1>5. CASE q = p /\ settlement[p].status \notin {"APPROVED", "PAID"}
  <2>1. settlement'[p] = [settlement[p] EXCEPT !.status = "CALCULATED", !.items = Settled(p),
                                               !.net = Net(p)]
    BY <1>1, <1>2, <1>5 DEF Recalculated
  <2>2. settlement[p] \in Rows
    BY <1>2
  <2> QED BY <1>5, <2>1, <2>2 DEF Rows
<1> QED BY <1>3, <1>4, <1>5

LEMMA SignaturesInit == Init => Signatures
BY DEF Init, Signatures, NoRow

LEMMA SignaturesStep == WellTyped /\ Signatures /\ [Next]_vars => Signatures'
<1> SUFFICES ASSUME WellTyped, Signatures, [Next]_vars PROVE Signatures'
    OBVIOUS
<1> USE SettlementConstants
<1>1. settlement \in [Periods -> Rows] /\ signed \in [Periods -> [items : SUBSET Bookings, net : Int]]
  BY DEF WellTyped, TypeOK
<1>2. ASSUME NEW w \in Pages, Review(w) PROVE Signatures'
  <2> DEFINE p == shown[w].period
  <2>1. p \in Periods /\ Who[w] # None
    BY <1>2 DEF Review, WellTyped, TypeOK, PagesOfPeriods
  <2>2. /\ settlement' = [settlement EXCEPT ![p].status = "REVIEWED", ![p].reviewer = Who[w]]
        /\ signed' = [signed EXCEPT ![p] = Figures(settlement[p])]
    BY <1>2 DEF Review
  <2> HIDE DEF p
  <2>3. /\ \A q \in Periods \ {p} : settlement'[q] = settlement[q] /\ signed'[q] = signed[q]
        /\ settlement'[p] = [settlement[p] EXCEPT !.status = "REVIEWED", !.reviewer = Who[w]]
        /\ signed'[p] = Figures(settlement[p])
    BY <1>1, <2>1, <2>2
  <2>4. /\ settlement'[p].status = "REVIEWED" /\ settlement'[p].reviewer = Who[w]
        /\ Figures(settlement'[p]) = Figures(settlement[p])
    BY <1>1, <2>1, <2>3 DEF Rows, Figures
  <2> QED BY <2>1, <2>3, <2>4 DEF Signatures
<1>3. ASSUME NEW w \in Pages, ApproveUpdate(w) PROVE Signatures'
  <2> DEFINE p == approving[w].period
  <2>1. p \in Periods /\ Who[w] # None
    BY <1>3 DEF ApproveUpdate, WellTyped, TypeOK, PagesOfPeriods
  <2>2. UNCHANGED signed
    BY <1>3 DEF ApproveUpdate
  <2>3. \/ UNCHANGED settlement
        \/ /\ settlement[p].status = "REVIEWED" /\ settlement[p].reviewer # Who[w]
           /\ settlement' = [settlement EXCEPT ![p].status = "APPROVED", ![p].approver = Who[w]]
    BY <1>3 DEF ApproveUpdate, Approvable
  <2> HIDE DEF p
  <2>4. CASE UNCHANGED settlement
    BY <2>2, <2>4 DEF Signatures
  <2>5. CASE /\ settlement[p].status = "REVIEWED" /\ settlement[p].reviewer # Who[w]
             /\ settlement' = [settlement EXCEPT ![p].status = "APPROVED", ![p].approver = Who[w]]
    <3>1. /\ \A q \in Periods \ {p} : settlement'[q] = settlement[q]
          /\ settlement'[p] = [settlement[p] EXCEPT !.status = "APPROVED", !.approver = Who[w]]
      BY <1>1, <2>1, <2>5
    <3>2. /\ settlement'[p].status = "APPROVED" /\ settlement'[p].approver = Who[w]
          /\ settlement'[p].reviewer = settlement[p].reviewer
          /\ Figures(settlement'[p]) = Figures(settlement[p])
      BY <1>1, <2>1, <3>1 DEF Rows, Figures
    <3>3. settlement[p].reviewer # None /\ Figures(settlement[p]) = signed[p]
      BY <2>1, <2>5 DEF Signatures
    <3>4. /\ settlement'[p].reviewer # None /\ Figures(settlement'[p]) = signed'[p]
          /\ settlement'[p].approver \notin {None, settlement'[p].reviewer}
      BY <2>1, <2>2, <2>5, <3>2, <3>3
    <3>5. ASSUME NEW q \in Periods \ {p}
          PROVE  settlement'[q] = settlement[q] /\ signed'[q] = signed[q]
      BY <2>2, <3>1
    <3> HIDE <2>5
    <3> QED BY <3>4, <3>5 DEF Signatures
  <2> QED BY <2>3, <2>4, <2>5
<1>4. ASSUME NEW w \in Pages, MarkPaid(w) PROVE Signatures'
  <2> DEFINE p == shown[w].period
  <2>1. p \in Periods
    BY <1>4 DEF MarkPaid, WellTyped, TypeOK, PagesOfPeriods
  <2>2. /\ settlement[p].status = "APPROVED" /\ UNCHANGED signed
        /\ settlement' = [settlement EXCEPT ![p].status = "PAID"]
    BY <1>4 DEF MarkPaid
  <2> HIDE DEF p
  <2>3. /\ \A q \in Periods \ {p} : settlement'[q] = settlement[q]
        /\ settlement'[p] = [settlement[p] EXCEPT !.status = "PAID"]
    BY <1>1, <2>1, <2>2
  <2>4. /\ settlement'[p].status = "PAID" /\ settlement'[p].approver = settlement[p].approver
        /\ settlement'[p].reviewer = settlement[p].reviewer
        /\ Figures(settlement'[p]) = Figures(settlement[p])
    BY <1>1, <2>1, <2>3 DEF Rows, Figures
  <2> QED BY <2>1, <2>2, <2>3, <2>4 DEF Signatures
<1>5. ASSUME NEW w \in Pages, NEW p \in Periods, Calculate(w, p) PROVE Signatures'
  <2>1. UNCHANGED signed
    BY <1>5 DEF Calculate
  <2> QED BY <1>5, <2>1, CalculateKeeps DEF Signatures
<1>6. ASSUME UNCHANGED <<settlement, signed>> PROVE Signatures'
  BY <1>6 DEF Signatures
<1> QED
  BY <1>2, <1>3, <1>4, <1>5, <1>6
     DEF Next, Pay, Ticket, SettleRefund, Resolve, Cancel, RunMatch, Import, SendApproval,
         CheckInternal, CheckMatch, Check, CloseRow, OpenRow, vars

LEMMA SignaturesAlways == Spec => []Signatures
BY TypedInit, TypedStep, SignaturesInit, SignaturesStep, PTL DEF Spec

\* No settlement is approved or paid on the word of one person, whichever windows the
\* reviewer and the approver have open (ApproveSettlement's maker-checker).
THEOREM TwoPeopleAlways == Spec => []TwoPeople
<1>1. Signatures => TwoPeople
  BY DEF Signatures, TwoPeople
<1> QED BY <1>1, SignaturesAlways, PTL

\* The figures of a settlement are, from its review to its payment, the ones that were
\* reviewed (CalculateSettlement, ReviewSettlement).
THEOREM SignedFiguresStandAlways == Spec => []SignedFiguresStand
<1>1. Signatures => SignedFiguresStand
  BY DEF Signatures, SignedFiguresStand
<1> QED BY <1>1, SignaturesAlways, PTL

-----------------------------------------------------------------------------
(* What the bank has paid out                                              *)

PaidOut == [p \in Periods |-> Max({settlement[p].net, 0})]
PaidRows == {p \in Periods : settlement[p].status = "PAID"}

LEMMA PaidOutType == ASSUME WellTyped PROVE PaidOut \in [Periods -> Int]
BY MaxOfNet DEF PaidOut, WellTyped, TypeOK, Rows

LEMMA BankInit == Init => BankPaysSettlements
<1> SUFFICES ASSUME Init PROVE BankPaysSettlements
    OBVIOUS
<1>1. PaidRows = {}
  BY DEF Init, NoRow, PaidRows
<1>2. SumFunctionOnSet(PaidOut, {}) = 0
  BY SumEmpty
<1> QED BY <1>1, <1>2 DEF Init, BankPaysSettlements, PaidOut, PaidRows

\* The sum does not move when the paid rows are the same ones with the same figures.
LEMMA BankUnmoved ==
    ASSUME BankPaysSettlements, UNCHANGED bank,
           \A q \in Periods : \/ settlement'[q] = settlement[q]
                              \/ settlement[q].status # "PAID" /\ settlement'[q].status # "PAID"
    PROVE  BankPaysSettlements'
<1>1. PaidRows' = PaidRows
  BY DEF PaidRows
<1>2. \A q \in PaidRows : PaidOut'[q] = PaidOut[q]
  BY DEF PaidOut, PaidRows
<1>3. IsFiniteSet(PaidRows) /\ PaidRows \subseteq Periods
  BY SettlementConstants, FS_Subset DEF PaidRows
<1>4. SumFunctionOnSet(PaidOut', PaidRows) = SumFunctionOnSet(PaidOut, PaidRows)
  BY <1>2, <1>3, SumSame
<1> QED BY <1>1, <1>4 DEF BankPaysSettlements, PaidOut, PaidRows

\* A row is paid out once: it was not among the paid ones before.
LEMMA BankMarkPaid ==
    ASSUME WellTyped, BankPaysSettlements, NEW w \in Pages, MarkPaid(w)
    PROVE  BankPaysSettlements'
<1> DEFINE p == shown[w].period
<1>1. p \in Periods
  BY DEF MarkPaid, WellTyped, TypeOK, PagesOfPeriods
<1>2. /\ settlement[p].status = "APPROVED"
      /\ settlement' = [settlement EXCEPT ![p].status = "PAID"]
      /\ bank' = bank + Max({settlement[p].net, 0})
  BY DEF MarkPaid
<1>3. settlement \in [Periods -> Rows]
  BY DEF WellTyped, TypeOK
<1>4. PaidOut \in [Periods -> Int] /\ bank = SumFunctionOnSet(PaidOut, PaidRows)
  BY PaidOutType DEF BankPaysSettlements, PaidOut, PaidRows
<1> HIDE DEF p
<1>5. /\ \A q \in Periods \ {p} : settlement'[q] = settlement[q]
      /\ settlement'[p] = [settlement[p] EXCEPT !.status = "PAID"]
  BY <1>1, <1>2, <1>3
<1>6. settlement'[p].status = "PAID" /\ settlement'[p].net = settlement[p].net
  BY <1>1, <1>3, <1>5 DEF Rows
<1>7. PaidRows' = PaidRows \cup {p} /\ p \notin PaidRows
  BY <1>1, <1>2, <1>5, <1>6 DEF PaidRows
<1>8. PaidOut' = PaidOut
  BY <1>1, <1>5, <1>6 DEF PaidOut
<1>9. IsFiniteSet(PaidRows) /\ PaidRows \subseteq Periods
  BY SettlementConstants, FS_Subset DEF PaidRows
<1>10. SumFunctionOnSet(PaidOut, PaidRows \cup {p}) = PaidOut[p] + SumFunctionOnSet(PaidOut, PaidRows)
  BY <1>1, <1>4, <1>7, <1>9, SumAdd
<1>11. PaidOut[p] = Max({settlement[p].net, 0}) /\ PaidOut[p] \in Int
  BY <1>1, <1>4 DEF PaidOut
<1>12. SumFunctionOnSet(PaidOut, PaidRows) \in Int
  BY <1>4, <1>9, SumType
<1>13. bank' = SumFunctionOnSet(PaidOut', PaidRows')
  <2>1. bank' = bank + PaidOut[p]
    BY <1>2, <1>11
  <2> QED BY <2>1, <1>4, <1>7, <1>8, <1>10, <1>11, <1>12
<1> QED BY <1>13 DEF BankPaysSettlements, PaidOut, PaidRows

LEMMA BankStep == WellTyped /\ BankPaysSettlements /\ [Next]_vars => BankPaysSettlements'
<1> SUFFICES ASSUME WellTyped, BankPaysSettlements, [Next]_vars PROVE BankPaysSettlements'
    OBVIOUS
<1>1. settlement \in [Periods -> Rows]
  BY DEF WellTyped, TypeOK
<1>2. ASSUME NEW w \in Pages, Review(w) PROVE BankPaysSettlements'
  <2> DEFINE p == shown[w].period
  <2>1. p \in Periods
    BY <1>2 DEF Review, WellTyped, TypeOK, PagesOfPeriods
  <2>2. /\ settlement[p].status = "CALCULATED" /\ UNCHANGED bank
        /\ settlement' = [settlement EXCEPT ![p].status = "REVIEWED", ![p].reviewer = Who[w]]
    BY <1>2 DEF Review
  <2> HIDE DEF p
  <2>3. /\ \A q \in Periods \ {p} : settlement'[q] = settlement[q]
        /\ settlement'[p].status = "REVIEWED"
    BY <1>1, <2>1, <2>2 DEF Rows
  <2> QED BY <2>2, <2>3, BankUnmoved
<1>3. ASSUME NEW w \in Pages, ApproveUpdate(w) PROVE BankPaysSettlements'
  <2> DEFINE p == approving[w].period
  <2>1. p \in Periods
    BY <1>3 DEF ApproveUpdate, WellTyped, TypeOK, PagesOfPeriods
  <2>2. UNCHANGED bank
    BY <1>3 DEF ApproveUpdate
  <2>3. \/ UNCHANGED settlement
        \/ /\ settlement[p].status = "REVIEWED"
           /\ settlement' = [settlement EXCEPT ![p].status = "APPROVED", ![p].approver = Who[w]]
    BY <1>3 DEF ApproveUpdate, Approvable
  <2> HIDE DEF p
  <2>4. \A q \in Periods : \/ settlement'[q] = settlement[q]
                           \/ settlement[q].status # "PAID" /\ settlement'[q].status # "PAID"
    BY <1>1, <2>1, <2>3 DEF Rows
  <2> QED BY <2>2, <2>4, BankUnmoved
<1>4. ASSUME NEW w \in Pages, NEW p \in Periods, Calculate(w, p) PROVE BankPaysSettlements'
  <2>1. UNCHANGED bank
    BY <1>4 DEF Calculate
  <2>2. \A q \in Periods : \/ settlement'[q] = settlement[q]
                           \/ settlement[q].status # "PAID" /\ settlement'[q].status # "PAID"
    BY <1>4, CalculateKeeps
  <2> QED BY <2>1, <2>2, BankUnmoved
<1>5. ASSUME UNCHANGED <<settlement, bank>> PROVE BankPaysSettlements'
  BY <1>5, BankUnmoved
<1> QED
  BY <1>2, <1>3, <1>4, <1>5, BankMarkPaid
     DEF Next, Pay, Ticket, SettleRefund, Resolve, Cancel, RunMatch, Import, SendApproval,
         CheckInternal, CheckMatch, Check, CloseRow, OpenRow, vars, books

\* The bank has paid the operator every settlement that is marked paid, once each
\* (MarkSettlementPaid, whichever windows press the button).
THEOREM BankPaysSettlementsAlways == Spec => []BankPaysSettlements
BY TypedInit, TypedStep, BankInit, BankStep, PTL DEF Spec

-----------------------------------------------------------------------------
(* AgentDesk: the inductive invariant                                       *)

\* The steps before the money is set aside, with it set aside, and with it taken.
BeforeHold == {"idle", "seats", "money", "no money"}
Holding == {"book", "capture"}
AfterCapture == {"pay", "confirm", "ticket", "commission", "credit", "done"}

\* A request that has come to a step has done what is before it, whatever the others
\* and the sweeper did meanwhile.
Phases ==
    \A r \in Sales :
        /\ at[r] # "idle" => sale[r] # NotAsked
        /\ at[r] \in {"idle", "seats"} => seatHold[r] = "none"
        /\ at[r] \in BeforeHold => walletHold[r] = "none"
        /\ at[r] \in Holding => walletHold[r] = "HELD"
        /\ at[r] \in AfterCapture => walletHold[r] = "CAPTURED"
        /\ at[r] = "ticket" => seatHold[r] = "CONFIRMED"
        /\ made[r] = "TICKETED" => /\ at[r] \in {"commission", "credit", "done", "over"}
                                   /\ walletHold[r] = "CAPTURED"
                                   /\ seatHold[r] = "CONFIRMED"

\* What the wallet holds is the price of the sales it holds money for.
Prices == [r \in Sales |-> Price(r)]
Promised == {r \in Sales : walletHold[r] = "HELD"}
HeldIsPromised == held = SumFunctionOnSet(Prices, Promised)

\* A sale has one entry in the wallet's book when its money is taken, none before.
OneEntryPerCapture ==
    \A r \in Sales : IF walletHold[r] = "CAPTURED" THEN \E i : Logged("SALE", r) = {i}
                                                   ELSE Logged("SALE", r) = {}

RechargeRows == [status : {"none", "REQUESTED", "APPROVED"},
                 by : Clerks \cup {NoOne}, approver : Approvers \cup {NoOne}]
Asked == [by : Clerks, seats : (SUBSET Seats) \ {{}}]

AgentTyped == AgentTypeOK /\ Phases /\ HeldIsPromised

\* A sale that was asked for has a price.
LEMMA AskedPrice ==
    \A s \in Asked : s.by \in Clerks /\ Fare * Cardinality(s.seats) + Fee \in Nat
<1> SUFFICES ASSUME NEW s \in Asked
             PROVE  s.by \in Clerks /\ Fare * Cardinality(s.seats) + Fee \in Nat
    OBVIOUS
<1>1. s.seats \subseteq Seats /\ s.by \in Clerks
  BY DEF Asked
<1> DEFINE n == Cardinality(s.seats)
<1>2. n \in Nat
  BY <1>1, AgentConstants, FS_Subset, FS_CardinalityType
<1>3. Fare \in Nat /\ Fee \in Nat
  BY AgentConstants
<1>4. Fare * n + Fee \in Nat
  <2> HIDE DEF n
  <2> QED BY <1>2, <1>3
<1> QED BY <1>1, <1>4

LEMMA PriceType ==
    ASSUME AgentTypeOK, Phases, NEW r \in Sales, at[r] # "idle"
    PROVE  Price(r) \in Nat /\ sale[r].by \in Clerks
<1>1. sale[r] \in Asked
  BY DEF AgentTypeOK, Phases, Asked
<1> QED BY <1>1, AskedPrice DEF Price

LEMMA PromisedType ==
    ASSUME AgentTypeOK, Phases
    PROVE  /\ IsFiniteSet(Promised) /\ Promised \subseteq Sales
           /\ \A r \in Promised : at[r] # "idle" /\ Prices[r] = Price(r) /\ Price(r) \in Nat
<1>1. \A r \in Promised : at[r] # "idle" /\ r \in Sales
  BY DEF Promised, Phases, BeforeHold
<1> QED
  BY <1>1, PriceType, AgentConstants, FS_Subset DEF Promised, Prices

-----------------------------------------------------------------------------
(* What is held                                                             *)

LEMMA HeldInit == AgentInit => HeldIsPromised
<1> SUFFICES ASSUME AgentInit PROVE HeldIsPromised
    OBVIOUS
<1>1. Promised = {} /\ held = 0
  BY DEF AgentInit, Promised
<1> QED BY <1>1, SumEmpty DEF HeldIsPromised

\* The sum does not move while no hold does and no price of a hold does.
LEMMA HeldUnmoved ==
    ASSUME AgentTyped, UNCHANGED <<walletHold, held>>,
           \A r \in Sales : at[r] # "idle" => sale'[r] = sale[r]
    PROVE  HeldIsPromised'
<1>1. Promised' = Promised
  BY DEF Promised
<1>2. \A r \in Promised : Prices'[r] = Prices[r]
  BY PromisedType DEF AgentTyped, Prices, Price
<1>3. SumFunctionOnSet(Prices', Promised) = SumFunctionOnSet(Prices, Promised)
  BY <1>2, PromisedType, SumSame DEF AgentTyped
<1> QED BY <1>1, <1>3 DEF AgentTyped, HeldIsPromised

\* A hold more is its price more ...
LEMMA HeldGrows ==
    ASSUME AgentTyped, NEW r \in Sales, at[r] = "money", UNCHANGED sale,
           held' = held + Price(r), walletHold' = [walletHold EXCEPT ![r] = "HELD"]
    PROVE  HeldIsPromised'
<1>1. walletHold[r] = "none" /\ walletHold \in [Sales -> {"none", "HELD", "CAPTURED", "RELEASED"}]
  BY DEF AgentTyped, AgentTypeOK, Phases, BeforeHold
<1>2. Promised' = Promised \cup {r} /\ r \notin Promised
  BY <1>1 DEF Promised
<1>3. Prices' = Prices
  BY DEF Prices, Price
<1>4. Prices[r] = Price(r) /\ Price(r) \in Int
  BY PriceType DEF AgentTyped, Prices
<1>5. SumFunctionOnSet(Prices, Promised \cup {r}) = Prices[r] + SumFunctionOnSet(Prices, Promised)
  BY <1>2, <1>4, PromisedType, SumAdd DEF AgentTyped
<1>6. SumFunctionOnSet(Prices, Promised) \in Int
  BY PromisedType, SumType DEF AgentTyped
<1> QED BY <1>2, <1>3, <1>4, <1>5, <1>6 DEF AgentTyped, HeldIsPromised

\* ... and one less is its price less.
LEMMA HeldShrinks ==
    ASSUME AgentTyped, NEW r \in Sales, at[r] \in Holding, UNCHANGED sale,
           NEW s \in {"CAPTURED", "RELEASED"},
           held' = held - Price(r), walletHold' = [walletHold EXCEPT ![r] = s]
    PROVE  HeldIsPromised'
<1>1. walletHold[r] = "HELD" /\ walletHold \in [Sales -> {"none", "HELD", "CAPTURED", "RELEASED"}]
  BY DEF AgentTyped, AgentTypeOK, Phases
<1>2. Promised' = Promised \ {r} /\ r \in Promised
  BY <1>1 DEF Promised
<1>3. Prices' = Prices
  BY DEF Prices, Price
<1>4. Prices[r] = Price(r) /\ Price(r) \in Int
  BY <1>2, PromisedType DEF AgentTyped
<1>5. SumFunctionOnSet(Prices, Promised) = Prices[r] + SumFunctionOnSet(Prices, Promised \ {r})
  BY <1>2, PromisedType, SumRemove DEF AgentTyped
<1>6. SumFunctionOnSet(Prices, Promised \ {r}) \in Int
  <2>1. IsFiniteSet(Promised \ {r}) /\ \A q \in Promised \ {r} : Prices[q] \in Int
    BY PromisedType, FS_Subset DEF AgentTyped
  <2> QED BY <2>1, SumType
<1> QED BY <1>2, <1>3, <1>4, <1>5, <1>6 DEF AgentTyped, HeldIsPromised

LEMMA HeldStep == AgentTyped /\ [AgentNext]_agentVars => HeldIsPromised'
<1> SUFFICES ASSUME AgentTyped, [AgentNext]_agentVars PROVE HeldIsPromised'
    OBVIOUS
<1>1. ASSUME NEW k \in Clerks, NEW r \in Sales, NEW S \in SUBSET Seats, Sell(k, r, S)
      PROVE  HeldIsPromised'
  <2>1. \A q \in Sales : at[q] # "idle" => sale'[q] = sale[q]
    BY <1>1 DEF Sell, AgentTyped, AgentTypeOK
  <2> QED BY <1>1, <2>1, HeldUnmoved DEF Sell, wallet
<1>2. ASSUME NEW r \in Sales, HoldMoney(r) PROVE HeldIsPromised'
  BY <1>2, HeldGrows DEF HoldMoney, Hold
<1>3. ASSUME NEW r \in Sales, BookingFails(r) PROVE HeldIsPromised'
  BY <1>3, HeldShrinks DEF BookingFails, ReleaseHold, Holding
<1>4. ASSUME NEW r \in Sales, CaptureMoney(r) PROVE HeldIsPromised'
  BY <1>4, HeldShrinks DEF CaptureMoney, Capture, Holding
<1>5. ASSUME UNCHANGED <<walletHold, held, sale>> PROVE HeldIsPromised'
  BY <1>5, HeldUnmoved
<1> QED
  BY <1>1, <1>2, <1>3, <1>4, <1>5
     DEF AgentNext, agentVars, wallet, LoadWallet, RequestRecharge, ApproveRecharge, HoldSeats,
         NoMoney, HandBackSeats, CreateBooking, HandBackUnbooked, RecordPayment, ConfirmSeats,
         Finalise, EarnCommission, CreditCommission, Receipt, Cut, SweepSeats

-----------------------------------------------------------------------------
(* How far a sale has come, and the types                                   *)

LEMMA PhasesInit == AgentInit => Phases
BY DEF AgentInit, Phases, BeforeHold, Holding, AfterCapture

LEMMA PhasesStep == AgentTyped /\ [AgentNext]_agentVars => Phases'
<1> SUFFICES ASSUME AgentTyped, [AgentNext]_agentVars PROVE Phases'
    OBVIOUS
<1>0. /\ seatHold \in [Sales -> {"none", "HELD", "CONFIRMED", "RELEASED", "EXPIRED"}]
      /\ walletHold \in [Sales -> {"none", "HELD", "CAPTURED", "RELEASED"}]
      /\ made \in [Sales -> {"none", "PAYMENT_PENDING", "TICKETED"}]
      /\ at \in [Sales -> Steps] /\ DOMAIN sale = Sales /\ Phases
  BY DEF AgentTyped, AgentTypeOK
<1> USE <1>0 DEF Phases, BeforeHold, Holding, AfterCapture, Goto, wallet
<1>1. ASSUME NEW k \in Clerks, NEW r \in Sales, NEW S \in SUBSET Seats, Sell(k, r, S)
      PROVE  Phases'
  <2>1. [by |-> k, seats |-> S] # NotAsked
    BY AgentConstants DEF NotAsked
  <2>2. /\ at[r] = "idle" /\ at' = [at EXCEPT ![r] = "seats"]
        /\ sale' = [sale EXCEPT ![r] = [by |-> k, seats |-> S]]
        /\ UNCHANGED <<seatHold, walletHold, made>>
    BY <1>1 DEF Sell
  <2>3. sale'[r] # NotAsked /\ \A q \in Sales \ {r} : sale'[q] = sale[q]
    BY <2>1, <2>2
  <2> QED BY <2>2, <2>3, ZenonT(60)
<1>2. ASSUME UNCHANGED <<seatHold, walletHold, made, at, sale>> PROVE Phases'
  BY <1>2
<1>3. ASSUME NEW r \in Sales, at[r] # "idle", Goto(r, "over"), UNCHANGED <<seatHold, walletHold, made, sale>>
      PROVE  Phases'
  BY <1>3
<1>4. ASSUME NEW r \in Sales, HoldSeats(r) PROVE Phases'
  <2>1. CASE Goto(r, "over") /\ UNCHANGED seatHold
    BY <1>3, <1>4, <2>1 DEF HoldSeats
  <2>2. CASE Goto(r, "money") /\ seatHold' = [seatHold EXCEPT ![r] = "HELD"]
    BY <1>4, <2>2 DEF HoldSeats
  <2> QED BY <1>4, <2>1, <2>2 DEF HoldSeats
<1>5. ASSUME NEW r \in Sales, HoldMoney(r) PROVE Phases'
  BY <1>5 DEF HoldMoney, Hold
<1>6. ASSUME NEW r \in Sales, NoMoney(r) PROVE Phases'
  BY <1>6 DEF NoMoney
<1>7. ASSUME NEW r \in Sales, HandBackSeats(r) \/ HandBackUnbooked(r) PROVE Phases'
  <2>1. /\ at[r] \in {"no money", "no booking"} /\ Goto(r, "over")
        /\ \E st \in {"none", "HELD", "CONFIRMED", "RELEASED", "EXPIRED"} :
              seatHold' = [seatHold EXCEPT ![r] = st]
        /\ UNCHANGED <<walletHold, made, sale>>
    BY <1>7 DEF HandBackSeats, HandBackUnbooked
  <2> QED BY <2>1, ZenonT(60)
<1>8. ASSUME NEW r \in Sales, CreateBooking(r) PROVE Phases'
  BY <1>8 DEF CreateBooking
<1>9. ASSUME NEW r \in Sales, BookingFails(r) PROVE Phases'
  BY <1>9 DEF BookingFails, ReleaseHold
<1>10. ASSUME NEW r \in Sales, CaptureMoney(r) PROVE Phases'
  BY <1>10 DEF CaptureMoney, Capture
<1>11. ASSUME NEW r \in Sales, RecordPayment(r) PROVE Phases'
  BY <1>11 DEF RecordPayment
<1>12. ASSUME NEW r \in Sales, ConfirmSeats(r) PROVE Phases'
  <2>1. CASE Goto(r, "over") /\ UNCHANGED seatHold
    BY <1>3, <1>12, <2>1 DEF ConfirmSeats
  <2>2. CASE Goto(r, "ticket") /\ seatHold' = [seatHold EXCEPT ![r] = "CONFIRMED"]
    BY <1>12, <2>2 DEF ConfirmSeats
  <2> QED BY <1>12, <2>1, <2>2 DEF ConfirmSeats
<1>13. ASSUME NEW r \in Sales, Finalise(r) PROVE Phases'
  BY <1>13 DEF Finalise
<1>14. ASSUME NEW r \in Sales, EarnCommission(r) \/ CreditCommission(r) PROVE Phases'
  <2>1. /\ at[r] \in {"commission", "credit"} /\ \E st \in {"credit", "done"} : Goto(r, st)
        /\ UNCHANGED <<seatHold, walletHold, made, sale>>
    BY <1>14 DEF EarnCommission, CreditCommission
  <2> QED BY <2>1, ZenonT(60)
<1>15. ASSUME NEW r \in Sales, SweepSeats(r) PROVE Phases'
  BY <1>15 DEF SweepSeats
<1> QED
  BY <1>1, <1>2, <1>3, <1>4, <1>5, <1>6, <1>7, <1>8, <1>9, <1>10, <1>11, <1>12, <1>13, <1>14,
     <1>15
     DEF AgentNext, agentVars, LoadWallet, RequestRecharge, ApproveRecharge, Receipt, Cut

LEMMA TypesInit == AgentInit => AgentTypeOK
BY DEF AgentInit, AgentTypeOK, NoRecharge, NotAsked, NotLoaded, Steps

\* What the columns of the wallet hold are integers, and what is held an amount,
\* because it is a sum of prices (in TypesStep).
LEMMA AvailableStep ==
    ASSUME AgentTyped, [AgentNext]_agentVars
    PROVE  /\ available' \in Int
           /\ txns' \in Seq([kind : {"SALE", "COMMISSION", "RECHARGE"},
                             ref : Sales \cup Recharges, delta : Int])
<1> DEFINE Entries == [kind : {"SALE", "COMMISSION", "RECHARGE"},
                       ref : Sales \cup Recharges, delta : Int]
<1>0. available \in Int /\ txns \in Seq(Entries) /\ AgentShare \in Int /\ TopUp \in Int
  BY AgentConstants DEF AgentTyped, AgentTypeOK
<1>1. ASSUME NEW r \in Sales, CaptureMoney(r) PROVE available' \in Int /\ txns' \in Seq(Entries)
  <2>1. Price(r) \in Nat
    BY <1>1, PriceType DEF CaptureMoney, AgentTyped
  <2>2. available' = available - Price(r) /\ txns' = Append(txns, Row("SALE", r, -Price(r)))
    BY <1>1 DEF CaptureMoney, Capture, Log
  <2>3. Row("SALE", r, -Price(r)) \in Entries
    BY <2>1 DEF Row
  <2> QED BY <1>0, <2>1, <2>2, <2>3
<1>2. ASSUME NEW r \in Sales, CreditCommission(r)
      PROVE  available' \in Int /\ txns' \in Seq(Entries)
  <2>1. Row("COMMISSION", r, AgentShare) \in Entries
    BY <1>0 DEF Row
  <2>2. \/ available' = available + AgentShare /\ txns' = Append(txns, Row("COMMISSION", r, AgentShare))
        \/ UNCHANGED <<available, txns>>
    BY <1>2 DEF CreditCommission, Log
  <2>3. Append(txns, Row("COMMISSION", r, AgentShare)) \in Seq(Entries)
    <3> HIDE DEF Entries
    <3> QED BY <1>0, <2>1
  <2>4. available + AgentShare \in Int
    BY <1>0
  <2> HIDE DEF Entries
  <2> QED BY <1>0, <2>2, <2>3, <2>4
<1>3. ASSUME NEW p \in Approvers, NEW q \in Recharges, ApproveRecharge(p, q)
      PROVE  available' \in Int /\ txns' \in Seq(Entries)
  <2>1. Row("RECHARGE", q, TopUp) \in Entries
    BY <1>0 DEF Row
  <2> QED BY <1>0, <1>3, <2>1 DEF ApproveRecharge, Log
<1>4. ASSUME UNCHANGED <<available, txns>> PROVE available' \in Int /\ txns' \in Seq(Entries)
  BY <1>0, <1>4
<1> QED
  BY <1>1, <1>2, <1>3, <1>4
     DEF AgentNext, agentVars, wallet, LoadWallet, Sell, RequestRecharge, HoldSeats, HoldMoney, Hold,
         NoMoney, HandBackSeats, CreateBooking, BookingFails, ReleaseHold, HandBackUnbooked,
         RecordPayment, ConfirmSeats, Finalise, EarnCommission, Receipt, Cut, SweepSeats

LEMMA TypesStep == AgentTyped /\ [AgentNext]_agentVars => AgentTypeOK'
<1> SUFFICES ASSUME AgentTyped, [AgentNext]_agentVars PROVE AgentTypeOK'
    OBVIOUS
<1>0. AgentTypeOK /\ Spendable \in Int
  BY AgentConstants DEF AgentTyped, AgentTypeOK, Spendable
<1>1. /\ available' \in Int
      /\ txns' \in Seq([kind : {"SALE", "COMMISSION", "RECHARGE"},
                        ref : Sales \cup Recharges, delta : Int])
  BY AvailableStep
<1>2. /\ seatHold' \in [Sales -> {"none", "HELD", "CONFIRMED", "RELEASED", "EXPIRED"}]
      /\ walletHold' \in [Sales -> {"none", "HELD", "CAPTURED", "RELEASED"}]
      /\ made' \in [Sales -> {"none", "PAYMENT_PENDING", "TICKETED"}]
      /\ paid' \subseteq Sales /\ earned' \subseteq Sales
  BY <1>0, ZenonT(60)
     DEF AgentTypeOK, AgentNext, agentVars, wallet, LoadWallet, Sell, RequestRecharge,
         ApproveRecharge, HoldSeats, HoldMoney, Hold, NoMoney, HandBackSeats, CreateBooking,
         BookingFails, ReleaseHold, HandBackUnbooked, CaptureMoney, Capture, RecordPayment,
         ConfirmSeats, Finalise, EarnCommission, CreditCommission, Receipt, Cut, SweepSeats
<1>3. recharge' \in [Recharges -> [status : {"none", "REQUESTED", "APPROVED"},
                                   by : Clerks \cup {NoOne}, approver : Approvers \cup {NoOne}]]
  <2>1. ASSUME NEW p \in Approvers, NEW q \in Recharges, ApproveRecharge(p, q) PROVE <1>3!:
    <3>1. recharge' = [recharge EXCEPT ![q] = [recharge[q] EXCEPT !.status = "APPROVED", !.approver = p]]
      BY <1>0, <2>1 DEF AgentTypeOK, ApproveRecharge
    <3>2. recharge \in [Recharges -> RechargeRows]
      BY <1>0 DEF AgentTypeOK, RechargeRows
    <3>3. [recharge[q] EXCEPT !.status = "APPROVED", !.approver = p] \in RechargeRows
      BY <3>2 DEF RechargeRows
    <3> QED BY <3>1, <3>2, <3>3 DEF RechargeRows
  <2>2. ASSUME NEW k \in Clerks, NEW q \in Recharges, RequestRecharge(k, q) PROVE <1>3!:
    BY <1>0, <2>2 DEF AgentTypeOK, RequestRecharge
  <2>3. ASSUME UNCHANGED recharge PROVE <1>3!:
    BY <1>0, <2>3 DEF AgentTypeOK
  <2> QED
    BY <2>1, <2>2, <2>3
       DEF AgentNext, agentVars, wallet, LoadWallet, Sell, HoldSeats, HoldMoney, NoMoney,
           HandBackSeats, CreateBooking, BookingFails, HandBackUnbooked, CaptureMoney,
           RecordPayment, ConfirmSeats, Finalise, EarnCommission, CreditCommission, Receipt, Cut,
           SweepSeats
<1>4. at' \in [Sales -> Steps]
  <2>1. \/ UNCHANGED at
        \/ \E r \in Sales, st \in Steps : at' = [at EXCEPT ![r] = st]
    BY DEF AgentNext, agentVars, wallet, LoadWallet, Sell, RequestRecharge, ApproveRecharge,
           HoldSeats, HoldMoney, NoMoney, HandBackSeats, CreateBooking, BookingFails,
           HandBackUnbooked, CaptureMoney, RecordPayment, ConfirmSeats, Finalise, EarnCommission,
           CreditCommission, Receipt, Cut, SweepSeats, Goto, Steps
  <2> QED BY <1>0, <2>1 DEF AgentTypeOK
<1>5. sale' \in [Sales -> {NotAsked} \cup Asked]
  <2>0. \A k \in Clerks, S \in SUBSET Seats : S # {} => [by |-> k, seats |-> S] \in Asked
    BY DEF Asked
  <2>1. \/ UNCHANGED sale
        \/ \E r \in Sales, s \in Asked : sale' = [sale EXCEPT ![r] = s]
    <3>1. ASSUME NEW k \in Clerks, NEW r \in Sales, NEW S \in SUBSET Seats, Sell(k, r, S)
          PROVE  \E s \in Asked : sale' = [sale EXCEPT ![r] = s]
      BY <2>0, <3>1 DEF Sell
    <3> QED
      BY <3>1
         DEF AgentNext, agentVars, wallet, LoadWallet, RequestRecharge, ApproveRecharge, HoldSeats,
             HoldMoney, NoMoney, HandBackSeats, CreateBooking, BookingFails, HandBackUnbooked,
             CaptureMoney, RecordPayment, ConfirmSeats, Finalise, EarnCommission,
             CreditCommission, Receipt, Cut, SweepSeats
  <2> QED BY <1>0, <2>1 DEF AgentTypeOK, Asked
<1>6. figure' \in [Clerks -> Int]
  BY <1>0, ZenonT(60)
     DEF AgentTypeOK, AgentNext, agentVars, wallet, LoadWallet, Sell, RequestRecharge,
         ApproveRecharge, HoldSeats, HoldMoney, NoMoney, HandBackSeats, CreateBooking,
         BookingFails, HandBackUnbooked, CaptureMoney, RecordPayment, ConfirmSeats, Finalise,
         EarnCommission, CreditCommission, Receipt, Cut, SweepSeats
<1>7. held' \in Nat
  <2>1. Phases' /\ HeldIsPromised'
    BY PhasesStep, HeldStep
  <2>2. \A r \in Sales : at'[r] # "idle" => Price(r)' \in Nat
    <3>1. \A r \in Sales : at'[r] # "idle" => sale'[r] \in Asked
      BY <1>5, <2>1 DEF Phases, Asked
    <3> QED BY <3>1, AskedPrice DEF Price
  <2>3. /\ IsFiniteSet(Promised') /\ Promised' \subseteq Sales
        /\ \A r \in Promised' : Prices'[r] \in Nat
    BY <2>1, <2>2, AgentConstants, FS_Subset DEF Promised, Prices, Phases, BeforeHold
  <2> QED BY <2>1, <2>3, SumNat DEF HeldIsPromised
<1> QED BY <1>1, <1>2, <1>3, <1>4, <1>5, <1>6, <1>7 DEF AgentTypeOK, Asked

LEMMA AgentTypedAlways == AgentSpec => []AgentTyped
<1>1. AgentInit => AgentTyped
  BY TypesInit, PhasesInit, HeldInit DEF AgentTyped
<1>2. AgentTyped /\ [AgentNext]_agentVars => AgentTyped'
  BY TypesStep, PhasesStep, HeldStep DEF AgentTyped
<1> QED BY <1>1, <1>2, PTL DEF AgentSpec

\* The columns, entries and sales of the wallet are what they should be: in particular
\* what is held is never negative, although every step takes its price off it
\* unchecked (wallet.go, captureTx and ReleaseHold).
THEOREM AgentTypes == AgentSpec => []AgentTypeOK
<1>1. AgentTyped => AgentTypeOK
  BY DEF AgentTyped
<1> QED BY <1>1, AgentTypedAlways, PTL

\* What a wallet holds is at any moment the price of the sales whose money is set aside
\* and neither taken nor given back (wallet.go, Hold, captureTx, ReleaseHold).
THEOREM HeldIsPromisedAlways == AgentSpec => []HeldIsPromised
<1>1. AgentTyped => HeldIsPromised
  BY DEF AgentTyped
<1> QED BY <1>1, AgentTypedAlways, PTL

-----------------------------------------------------------------------------
(* The credit line                                                          *)

LEMMA CreditStep == AgentTyped /\ WithinCredit /\ [AgentNext]_agentVars => WithinCredit'
<1> SUFFICES ASSUME AgentTyped, WithinCredit, [AgentNext]_agentVars PROVE WithinCredit'
    OBVIOUS
<1>0. /\ available \in Int /\ held \in Int /\ available + CreditLimit - held >= 0
      /\ CreditLimit \in Int /\ AgentShare \in Nat /\ TopUp \in Nat
  BY AgentConstants DEF AgentTyped, AgentTypeOK, WithinCredit, Spendable
<1>1. ASSUME NEW r \in Sales, HoldMoney(r) PROVE WithinCredit'
  <2>1. Price(r) \in Nat
    BY <1>1, PriceType DEF AgentTyped, HoldMoney
  <2> QED BY <1>0, <1>1, <2>1 DEF HoldMoney, Hold, WithinCredit, Spendable
<1>2. ASSUME NEW r \in Sales, CaptureMoney(r) PROVE WithinCredit'
  <2>1. Price(r) \in Nat
    BY <1>2, PriceType DEF AgentTyped, CaptureMoney
  <2> QED BY <1>0, <1>2, <2>1 DEF CaptureMoney, Capture, WithinCredit, Spendable
<1>3. ASSUME NEW r \in Sales, BookingFails(r) PROVE WithinCredit'
  <2>1. Price(r) \in Nat
    BY <1>3, PriceType DEF AgentTyped, BookingFails
  <2>2. held' = held - Price(r) /\ available' = available
    BY <1>3 DEF BookingFails, ReleaseHold
  <2> QED BY <1>0, <2>1, <2>2 DEF WithinCredit, Spendable
<1>4. ASSUME UNCHANGED held,
             available' \in {available, available + AgentShare, available + TopUp}
      PROVE  WithinCredit'
  <2>1. available' \in Int /\ available' >= available /\ held' = held
    BY <1>0, <1>4
  <2>2. \A m, n, h, c \in Int : m >= n /\ n + c - h >= 0 => m + c - h >= 0
    OBVIOUS
  <2>3. available' + CreditLimit - held >= 0
    BY <1>0, <2>1, <2>2
  <2> QED BY <2>1, <2>3 DEF WithinCredit, Spendable
<1> QED
  BY <1>1, <1>2, <1>3, <1>4
     DEF AgentNext, agentVars, wallet, LoadWallet, Sell, RequestRecharge, ApproveRecharge,
         HoldSeats, NoMoney, HandBackSeats, CreateBooking, HandBackUnbooked, RecordPayment,
         ConfirmSeats, Finalise, EarnCommission, CreditCommission, Receipt, Cut, SweepSeats

\* However many clerks sell at the same time on however old a figure, the wallet never
\* promises more than its balance and its credit line (the conditional UPDATE of Hold).
THEOREM WithinCreditAlways == AgentSpec => []WithinCredit
<1>1. AgentInit => WithinCredit
  BY AgentConstants DEF AgentInit, WithinCredit, Spendable
<1> QED BY <1>1, AgentTypedAlways, CreditStep, PTL DEF AgentSpec

-----------------------------------------------------------------------------
(* A ticket and its entry                                                   *)

\* One entry more in the book is one more of its kind and sale, and of no other.
LEMMA Appended ==
    ASSUME AgentTypeOK, NEW kind, NEW ref, NEW delta, Log(kind, ref, delta), NEW r
    PROVE  Logged("SALE", r)' = IF kind = "SALE" /\ ref = r
                                THEN Logged("SALE", r) \cup {Len(txns) + 1}
                                ELSE Logged("SALE", r)
<1> DEFINE E == [kind : {"SALE", "COMMISSION", "RECHARGE"}, ref : Sales \cup Recharges, delta : Int]
<1>1. txns \in Seq(E) /\ txns' = Append(txns, Row(kind, ref, delta))
  BY DEF AgentTypeOK, Log
<1> HIDE DEF E
<1>2. /\ DOMAIN txns = 1 .. Len(txns) /\ DOMAIN txns' = 1 .. (Len(txns) + 1) /\ Len(txns) \in Nat
      /\ txns'[Len(txns) + 1] = Row(kind, ref, delta)
      /\ \A i \in 1 .. Len(txns) : txns'[i] = txns[i]
  BY <1>1
<1> QED BY <1>2 DEF Logged, Row

LEMMA EntriesStep == AgentTyped /\ OneEntryPerCapture /\ [AgentNext]_agentVars => OneEntryPerCapture'
<1> SUFFICES ASSUME AgentTyped, OneEntryPerCapture, [AgentNext]_agentVars PROVE OneEntryPerCapture'
    OBVIOUS
<1>0. AgentTypeOK /\ walletHold \in [Sales -> {"none", "HELD", "CAPTURED", "RELEASED"}]
  BY DEF AgentTyped, AgentTypeOK
<1>1. ASSUME NEW r \in Sales, CaptureMoney(r) PROVE OneEntryPerCapture'
  <2>1. /\ walletHold[r] = "HELD" /\ walletHold' = [walletHold EXCEPT ![r] = "CAPTURED"]
        /\ Log("SALE", r, -Price(r))
    BY <1>1 DEF CaptureMoney, Capture
  <2>2. Logged("SALE", r)' = Logged("SALE", r) \cup {Len(txns) + 1} /\ walletHold'[r] = "CAPTURED"
    BY <1>0, <2>1, Appended
  <2>3. Logged("SALE", r) = {}
    BY <2>1 DEF OneEntryPerCapture
  <2>4. ASSUME NEW q \in Sales \ {r}
        PROVE  Logged("SALE", q)' = Logged("SALE", q) /\ walletHold'[q] = walletHold[q]
    BY <1>0, <2>1, Appended
  <2>5. ASSUME NEW q \in Sales
        PROVE  IF walletHold'[q] = "CAPTURED" THEN \E i : Logged("SALE", q)' = {i}
                                              ELSE Logged("SALE", q)' = {}
    BY <2>2, <2>3, <2>4 DEF OneEntryPerCapture
  <2> QED BY <2>5 DEF OneEntryPerCapture
<1>2. ASSUME UNCHANGED walletHold, \A r \in Sales : Logged("SALE", r)' = Logged("SALE", r)
      PROVE  OneEntryPerCapture'
  BY <1>2 DEF OneEntryPerCapture
<1>3. ASSUME NEW r \in Sales, CreditCommission(r) PROVE OneEntryPerCapture'
  <2>1. CASE UNCHANGED txns
    BY <1>2, <1>3, <2>1 DEF CreditCommission, Logged
  <2>2. CASE Log("COMMISSION", r, AgentShare)
    BY <1>0, <1>2, <1>3, <2>2, Appended DEF CreditCommission
  <2> QED BY <1>3, <2>1, <2>2 DEF CreditCommission
<1>4. ASSUME NEW p \in Approvers, NEW q \in Recharges, ApproveRecharge(p, q)
      PROVE  OneEntryPerCapture'
  BY <1>0, <1>2, <1>4, Appended DEF ApproveRecharge
<1>5. ASSUME UNCHANGED txns, NEW r \in Sales, HoldMoney(r) \/ BookingFails(r)
      PROVE  OneEntryPerCapture'
  <2>1. /\ \E s \in {"HELD", "RELEASED"} : walletHold' = [walletHold EXCEPT ![r] = s]
        /\ walletHold[r] # "CAPTURED"
    BY <1>5 DEF HoldMoney, Hold, BookingFails, ReleaseHold, AgentTyped, Phases, BeforeHold, Holding
  <2>2. \A q \in Sales : Logged("SALE", q)' = Logged("SALE", q)
    BY <1>5 DEF Logged
  <2>3. walletHold'[r] # "CAPTURED" /\ \A q \in Sales \ {r} : walletHold'[q] = walletHold[q]
    BY <1>0, <2>1
  <2> QED BY <2>1, <2>2, <2>3 DEF OneEntryPerCapture
<1>6. ASSUME UNCHANGED <<walletHold, txns>> PROVE OneEntryPerCapture'
  BY <1>2, <1>6 DEF Logged
<1> QED
  BY <1>1, <1>3, <1>4, <1>5, <1>6
     DEF AgentNext, agentVars, wallet, LoadWallet, Sell, RequestRecharge, HoldSeats, HoldMoney, Hold,
         NoMoney, HandBackSeats, CreateBooking, BookingFails, ReleaseHold, HandBackUnbooked,
         RecordPayment, ConfirmSeats, Finalise, EarnCommission, Receipt, Cut, SweepSeats

\* A ticket stands for a sale the wallet was charged for once, and for seats that are
\* confirmed, wherever the request for it or another one was cut (SettleAgentSale).
THEOREM TicketsArePaidAlways == AgentSpec => []TicketsArePaid
<1>1. AgentInit => OneEntryPerCapture
  BY DEF AgentInit, OneEntryPerCapture, Logged
<1>2. AgentSpec => []OneEntryPerCapture
  BY <1>1, AgentTypedAlways, EntriesStep, PTL DEF AgentSpec
<1>3. AgentTyped /\ OneEntryPerCapture => TicketsArePaid
  <2> SUFFICES ASSUME AgentTyped, OneEntryPerCapture, NEW r \in Sales, made[r] = "TICKETED"
               PROVE  /\ walletHold[r] = "CAPTURED" /\ Cardinality(Logged("SALE", r)) = 1
                      /\ seatHold[r] = "CONFIRMED"
      BY DEF TicketsArePaid
  <2>1. walletHold[r] = "CAPTURED" /\ seatHold[r] = "CONFIRMED"
    BY DEF AgentTyped, Phases
  <2>2. PICK i : Logged("SALE", r) = {i}
    BY <2>1 DEF OneEntryPerCapture
  <2> QED BY <2>1, <2>2, FS_Singleton
<1> QED BY <1>2, <1>3, AgentTypedAlways, PTL

-----------------------------------------------------------------------------
(* The agency in the seat market                                            *)

\* Sale r has seat s, and no two sales have one.
HasSeat(r, s) == seatHold[r] \in {"HELD", "CONFIRMED"} /\ s \in sale[r].seats
OneSalePerSeat == \A s \in Seats : \A q, r \in Sales : HasSeat(q, s) /\ HasSeat(r, s) => q = r

AgentMarketView == [cell \in Seats \X {"whole way"} |-> SeatClaims(cell[1])]
WholeWay(S) == S \X {"whole way"}
ClaimOf(r) == [kind |-> IF seatHold[r] = "HELD" THEN "held" ELSE "sold", who |-> r]

LEMMA ClaimsOnSeat ==
    ASSUME NEW s
    PROVE  /\ SeatClaims(s) = {ClaimOf(r) : r \in {q \in Sales : HasSeat(q, s)}}
           /\ SeatClaims(s)' = {ClaimOf(r)' : r \in {q \in Sales : HasSeat(q, s)'}}
<1>1. SeatClaims(s) = {ClaimOf(r) : r \in {q \in Sales : HasSeat(q, s)}}
  BY DEF SeatClaims, ClaimOf, HasSeat
<1>2. SeatClaims(s)' = {ClaimOf(r)' : r \in {q \in Sales : HasSeat(q, s)'}}
  BY DEF SeatClaims, ClaimOf, HasSeat
<1> QED BY <1>1, <1>2

LEMMA SeatsGranted ==
    ASSUME NEW S \in SUBSET Seats, NEW new,
           \A s \in Seats : SeatClaims(s)' = IF s \in S THEN new ELSE SeatClaims(s)
    PROVE  Market!Grant(WholeWay(S), new)
BY DEF Market!Grant, Market!Cells, WholeWay

LEMMA MarketStays ==
    ASSUME \A s \in Seats : SeatClaims(s)' = SeatClaims(s)
    PROVE  UNCHANGED AgentMarketView
BY DEF AgentMarketView

\* What a sale has in the market are its seats, while its hold is live.
LEMMA CellsOfSale ==
    ASSUME AgentTyped, NEW r \in Sales
    PROVE  /\ seatHold[r] \in {"HELD", "CONFIRMED"} => sale[r].seats \in SUBSET Seats /\ sale[r].seats # {}
           /\ Market!CellsOf(Market!Held(r)) =
                 IF seatHold[r] = "HELD" THEN WholeWay(sale[r].seats) ELSE {}
           /\ Market!CellsOf(Market!Sold(r)) =
                 IF seatHold[r] = "CONFIRMED" THEN WholeWay(sale[r].seats) ELSE {}
<1>1. seatHold[r] \in {"HELD", "CONFIRMED"} => sale[r] \in Asked
  BY DEF AgentTyped, AgentTypeOK, Phases, Asked
<1>2. seatHold[r] \in {"HELD", "CONFIRMED"} => sale[r].seats \in SUBSET Seats /\ sale[r].seats # {}
  BY <1>1 DEF Asked
<1>3. ASSUME NEW s \in Seats
      PROVE  /\ Market!Held(r) \in SeatClaims(s) <=> HasSeat(r, s) /\ seatHold[r] = "HELD"
             /\ Market!Sold(r) \in SeatClaims(s) <=> HasSeat(r, s) /\ seatHold[r] = "CONFIRMED"
  BY ClaimsOnSeat DEF ClaimOf, HasSeat, Market!Held, Market!Sold
<1>4. ASSUME NEW claim
      PROVE  Market!CellsOf(claim) = {cell \in Seats \X {"whole way"} : claim \in SeatClaims(cell[1])}
  BY DEF Market!CellsOf, Market!Cells
<1>5. Market!CellsOf(Market!Held(r)) = IF seatHold[r] = "HELD" THEN WholeWay(sale[r].seats) ELSE {}
  BY <1>2, <1>3, <1>4 DEF HasSeat, WholeWay
<1>6. Market!CellsOf(Market!Sold(r)) = IF seatHold[r] = "CONFIRMED" THEN WholeWay(sale[r].seats) ELSE {}
  BY <1>2, <1>3, <1>4 DEF HasSeat, WholeWay
<1> QED BY <1>2, <1>5, <1>6

\* A step that leaves the holds and the seats of live ones alone leaves the market alone.
LEMMA HoldsStay ==
    ASSUME OneSalePerSeat, seatHold' = seatHold,
           \A r \in Sales : seatHold[r] # "none" => sale'[r] = sale[r]
    PROVE  OneSalePerSeat' /\ UNCHANGED AgentMarketView
<1>1. \A s, r : r \in Sales => (HasSeat(r, s)' <=> HasSeat(r, s)) /\ ClaimOf(r)' = ClaimOf(r)
  BY DEF HasSeat, ClaimOf
<1>2. \A s \in Seats : SeatClaims(s)' = SeatClaims(s)
  BY <1>1, ClaimsOnSeat
<1> QED BY <1>1, <1>2, MarketStays DEF OneSalePerSeat

\* The hold of one sale moves: its seats are taken, sold or given back together.
LEMMA HoldMoves ==
    ASSUME AgentTyped, OneSalePerSeat, NEW r \in Sales, sale' = sale, NEW st,
           seatHold' = [seatHold EXCEPT ![r] = st],
           \/ /\ seatHold[r] = "none" /\ st = "HELD" /\ sale[r] # NotAsked
              /\ \A s \in sale[r].seats : ~ Taken(s)
           \/ seatHold[r] = "HELD" /\ st \in {"CONFIRMED", "RELEASED", "EXPIRED"}
    PROVE  OneSalePerSeat' /\ Market!Next
<1> DEFINE S == sale[r].seats
<1>0. seatHold \in [Sales -> {"none", "HELD", "CONFIRMED", "RELEASED", "EXPIRED"}]
      /\ S \in SUBSET Seats /\ S # {}
  <2>1. sale[r] # NotAsked => sale[r] \in Asked
    BY DEF AgentTyped, AgentTypeOK, Asked
  <2> QED BY <2>1, CellsOfSale DEF AgentTyped, AgentTypeOK, Asked
<1> HIDE DEF S
<1>1. /\ \A q \in Sales \ {r} : seatHold'[q] = seatHold[q] /\ ClaimOf(q)' = ClaimOf(q)
      /\ \A q \in Sales \ {r} : \A s : HasSeat(q, s)' <=> HasSeat(q, s)
      /\ seatHold'[r] = st
      /\ \A s : HasSeat(r, s)' <=> st \in {"HELD", "CONFIRMED"} /\ s \in S
      /\ \A s : HasSeat(r, s) <=> seatHold[r] = "HELD" /\ s \in S
  BY <1>0 DEF HasSeat, ClaimOf, S
<1>2. ASSUME NEW s \in S, NEW q \in Sales \ {r} PROVE ~ HasSeat(q, s)
  BY <1>0, <1>1, <1>2 DEF OneSalePerSeat, HasSeat, Taken, S
<1>3. OneSalePerSeat'
  BY <1>1, <1>2 DEF OneSalePerSeat
<1>4. ASSUME NEW s \in Seats
      PROVE  SeatClaims(s)' = IF s \in S THEN IF st = "HELD" THEN {Market!Held(r)}
                                              ELSE IF st = "CONFIRMED" THEN {Market!Sold(r)} ELSE {}
                              ELSE SeatClaims(s)
  <2>1. CASE s \in S /\ st \in {"HELD", "CONFIRMED"}
    <3>1. {q \in Sales : HasSeat(q, s)'} = {r}
      BY <1>1, <1>2, <2>1
    <3>2. ClaimOf(r)' = IF st = "HELD" THEN Market!Held(r) ELSE Market!Sold(r)
      BY <1>1 DEF ClaimOf, Market!Held, Market!Sold
    <3> QED BY <2>1, <3>1, <3>2, ClaimsOnSeat
  <2>2. CASE s \in S /\ st \notin {"HELD", "CONFIRMED"}
    <3>1. {q \in Sales : HasSeat(q, s)'} = {}
      BY <1>1, <1>2, <2>2
    <3> QED BY <2>2, <3>1, ClaimsOnSeat
  <2>3. CASE s \notin S
    <3>1. \A q \in Sales : (HasSeat(q, s)' <=> HasSeat(q, s)) /\ (HasSeat(q, s) => ClaimOf(q)' = ClaimOf(q))
      BY <1>1, <2>3
    <3> QED BY <2>3, <3>1, ClaimsOnSeat
  <2> QED BY <2>1, <2>2, <2>3
<1>5. WholeWay(S) # {} /\ WholeWay(S) \in SUBSET Market!Cells
  <2>1. PICK s \in S : TRUE
    BY <1>0
  <2>2. <<s, "whole way">> \in WholeWay(S)
    BY <2>1 DEF WholeWay
  <2>3. WholeWay(S) \subseteq Seats \X {"whole way"}
    BY <1>0 DEF WholeWay
  <2> QED BY <2>2, <2>3 DEF Market!Cells
<1>6. CASE seatHold[r] = "none"
  <2>1. st = "HELD" /\ \A s \in S : ~ Taken(s)
    BY <1>6 DEF S
  <2>2. \A s \in S : SeatClaims(s) = {}
    <3>1. \A s \in S : {q \in Sales : HasSeat(q, s)} = {}
      BY <2>1 DEF HasSeat, Taken
    <3> QED BY <3>1, ClaimsOnSeat
  <2>3. \A cell \in WholeWay(S) : AgentMarketView[cell] = {}
    BY <1>0, <2>2 DEF WholeWay, AgentMarketView
  <2>4. Market!OwnsNothing(r)
    BY <1>6, CellsOfSale DEF Market!OwnsNothing
  <2>5. Market!Grant(WholeWay(S), {Market!Held(r)})
    BY <1>0, <1>4, <2>1, SeatsGranted
  <2>6. Market!Held(r) \in Market!Claims /\ Market!Held(r).kind = "held" /\ Market!Held(r).who = r
    BY DEF Market!Held, Market!Claims
  <2>7. Market!Take(Market!Held(r), WholeWay(S))
    BY <1>5, <2>3, <2>4, <2>5, <2>6 DEF Market!Take, AgentMarketView
  <2> QED BY <1>3, <1>5, <2>6, <2>7 DEF Market!Next
<1>7. CASE seatHold[r] = "HELD" /\ st = "CONFIRMED"
  <2>1. Market!CellsOf(Market!Held(r)) = WholeWay(S)
    BY <1>7, CellsOfSale DEF S
  <2>2. Market!Grant(WholeWay(S), {Market!Sold(r)})
    BY <1>0, <1>4, <1>7, SeatsGranted
  <2>3. Market!Buy(r)
    BY <1>5, <2>1, <2>2 DEF Market!Buy
  <2> QED BY <1>3, <2>3 DEF Market!Next
<1>8. CASE seatHold[r] = "HELD" /\ st \in {"RELEASED", "EXPIRED"}
  <2>1. Market!CellsOf(Market!Held(r)) = WholeWay(S)
    BY <1>8, CellsOfSale DEF S
  <2>2. Market!Grant(WholeWay(S), {})
    BY <1>0, <1>4, <1>8, SeatsGranted
  <2>3. UNION {Market!CellsOf([kind |-> "held", who |-> h]) : h \in {r}} = WholeWay(S)
    BY <2>1 DEF Market!Held
  <2>4. Market!GiveBack("held", {r})
    BY <2>2, <2>3 DEF Market!GiveBack
  <2> QED BY <1>3, <2>4 DEF Market!Next
<1> QED BY <1>6, <1>7, <1>8

LEMMA AgentMarketStep ==
    AgentTyped /\ OneSalePerSeat /\ [AgentNext]_agentVars
        => OneSalePerSeat' /\ [Market!Next]_AgentMarketView
<1> SUFFICES ASSUME AgentTyped, OneSalePerSeat, [AgentNext]_agentVars
             PROVE  OneSalePerSeat' /\ [Market!Next]_AgentMarketView
    OBVIOUS
<1>0. /\ seatHold \in [Sales -> {"none", "HELD", "CONFIRMED", "RELEASED", "EXPIRED"}]
      /\ DOMAIN sale = Sales /\ Phases
  BY DEF AgentTyped, AgentTypeOK
<1>1. ASSUME UNCHANGED <<seatHold, sale>> PROVE OneSalePerSeat' /\ [Market!Next]_AgentMarketView
  BY <1>1, HoldsStay
<1>2. ASSUME NEW k \in Clerks, NEW r \in Sales, NEW S \in SUBSET Seats, Sell(k, r, S)
      PROVE  OneSalePerSeat' /\ [Market!Next]_AgentMarketView
  <2>1. seatHold' = seatHold /\ seatHold[r] = "none" /\ \A q \in Sales \ {r} : sale'[q] = sale[q]
    BY <1>0, <1>2 DEF Sell, Phases
  <2> QED BY <2>1, HoldsStay
<1>3. ASSUME NEW r \in Sales, HoldSeats(r) PROVE OneSalePerSeat' /\ [Market!Next]_AgentMarketView
  <2>1. CASE \E s \in sale[r].seats : Taken(s)
    BY <1>1, <1>3, <2>1 DEF HoldSeats
  <2>2. CASE \A s \in sale[r].seats : ~ Taken(s)
    <3>1. seatHold[r] = "none" /\ sale[r] # NotAsked
      BY <1>0, <1>3 DEF HoldSeats, Phases
    <3>2. seatHold' = [seatHold EXCEPT ![r] = "HELD"] /\ sale' = sale
      BY <1>3, <2>2 DEF HoldSeats
    <3> QED BY <2>2, <3>1, <3>2, HoldMoves
  <2> QED BY <2>1, <2>2
<1>4. ASSUME NEW r \in Sales, NEW st \in {"CONFIRMED", "RELEASED", "EXPIRED"}, sale' = sale,
             seatHold' = [seatHold EXCEPT ![r] = IF seatHold[r] = "HELD" THEN st ELSE seatHold[r]]
      PROVE  OneSalePerSeat' /\ [Market!Next]_AgentMarketView
  <2>1. CASE seatHold[r] = "HELD"
    BY <1>4, <2>1, HoldMoves
  <2>2. CASE seatHold[r] # "HELD"
    BY <1>0, <1>1, <1>4, <2>2
  <2> QED BY <2>1, <2>2
<1>5. ASSUME NEW r \in Sales, HandBackSeats(r) \/ HandBackUnbooked(r)
      PROVE  OneSalePerSeat' /\ [Market!Next]_AgentMarketView
  BY <1>4, <1>5 DEF HandBackSeats, HandBackUnbooked
<1>6. ASSUME NEW r \in Sales, ConfirmSeats(r) PROVE OneSalePerSeat' /\ [Market!Next]_AgentMarketView
  <2>1. CASE seatHold[r] = "HELD"
    BY <1>4, <1>6, <2>1 DEF ConfirmSeats
  <2>2. CASE seatHold[r] # "HELD"
    BY <1>1, <1>6, <2>2 DEF ConfirmSeats
  <2> QED BY <2>1, <2>2
<1>7. ASSUME NEW r \in Sales, SweepSeats(r) PROVE OneSalePerSeat' /\ [Market!Next]_AgentMarketView
  BY <1>4, <1>7 DEF SweepSeats
<1> QED
  BY <1>1, <1>2, <1>3, <1>5, <1>6, <1>7
     DEF AgentNext, agentVars, wallet, LoadWallet, RequestRecharge, ApproveRecharge, HoldMoney, Hold,
         NoMoney, CreateBooking, BookingFails, ReleaseHold, CaptureMoney, Capture,
         RecordPayment, Finalise, EarnCommission, CreditCommission, Receipt, Cut

LEMMA AgentMarketInit == AgentInit => OneSalePerSeat /\ Market!Init
<1> SUFFICES ASSUME AgentInit PROVE OneSalePerSeat /\ Market!Init
    OBVIOUS
<1>1. \A r \in Sales : \A s : ~ HasSeat(r, s)
  BY DEF AgentInit, HasSeat
<1>2. \A s \in Seats : SeatClaims(s) = {}
  BY <1>1, ClaimsOnSeat
<1> QED BY <1>1, <1>2 DEF OneSalePerSeat, Market!Init, Market!Cells

\* The agency keeps to the seat market: wherever the nine transactions of handleAgentSale
\* are cut and whenever the sweeper comes, the seats of a sale are taken while they are
\* free, sold together and given back by their hold alone.
THEOREM AgentKeepsToTheMarket == AgentSpec => ImplementsMarket
<1>1. AgentTyped /\ OneSalePerSeat /\ [AgentNext]_agentVars
          => OneSalePerSeat' /\ [Market!Next]_[cell \in Seats \X {"whole way"} |-> SeatClaims(cell[1])]
  BY AgentMarketStep DEF AgentMarketView
<1> QED BY <1>1, AgentMarketInit, AgentTypedAlways, PTL DEF AgentSpec, ImplementsMarket, Market!Spec

-----------------------------------------------------------------------------
(* StaffSession                                                             *)

\* The state without the bounds of its counters.
SignInStages == {"sent", "factor", "burn", "open", "mint", "commit", "ok", "refused", "code", "no"}
StaffAsk     == {"me", "login", "logout", "setup", "enable", "disable"}
SixDigits == [secret : Nat, step : Int]
Calls    == [at : SignInStages, what : StaffAsk, held : Nat, code : SixDigits, step : Nat, sees : BOOLEAN]
SignIns  == [live : BOOLEAN, code : SixDigits, step : Nat]
StaffRows == [status : {"ACTIVE", "LOCKED"}, failed : Nat, on : BOOLEAN, secret : Nat, minted : Nat]
StaffTabs == [at : {"login", "boot", "open", "denied"}, to : Places, needCode : BOOLEAN,
              on : BOOLEAN, setup : Nat]

StaffShape ==
    /\ account \in StaffRows /\ now \in Nat /\ token \in Nat
    /\ signIn \in Seq(SignIns) /\ tab \in [Tabs -> StaffTabs] /\ req \in [Tabs -> {NoReq} \cup Calls]

\* A sign-in past its code, between the two statements; and the row its code made.
Opening(k) == req[k].at = "open" /\ req[k].code # NoCode
RowOf(r)   == <<r.code, r.step>>

\* Every session and every sign-in past its code has a row of mfa_used, and no two of
\* them have the same.
RowsBurnt ==
    /\ \A g \in DOMAIN signIn : signIn[g].code # NoCode => RowOf(signIn[g]) \in spent
    /\ \A k \in Tabs : Opening(k) => RowOf(req[k]) \in spent
RowsDiffer ==
    /\ \A k, l \in Tabs : k # l /\ Opening(k) /\ Opening(l) => RowOf(req[k]) # RowOf(req[l])
    /\ \A g \in DOMAIN signIn, k \in Tabs : Opening(k) => RowOf(signIn[g]) # RowOf(req[k])
OneRowEach == StaffShape /\ RowsBurnt /\ RowsDiffer /\ OneSignInPerCode

LEMMA StaffShapeInit == StaffInit => StaffShape
<1> SUFFICES ASSUME StaffInit PROVE StaffShape
    OBVIOUS
<1>1. SignIn \in StaffTabs
  BY DEF SignIn, StaffTabs, Places
<1>2. account \in StaffRows
  <2>1. PICK s \in {0, MaxSecrets} :
            account = [status |-> "ACTIVE", failed |-> 0, on |-> s # 0, secret |-> s, minted |-> s]
    BY DEF StaffInit
  <2>2. s \in Nat /\ (s # 0) \in BOOLEAN
    BY StaffConstants
  <2> QED BY <2>1, <2>2 DEF StaffRows
<1> QED BY <1>1, <1>2 DEF StaffInit, StaffShape

\* What a step puts in the place of a call is a call, or none.
LEMMA CallsMade ==
    ASSUME NEW what \in StaffAsk, NEW serial \in Nat, NEW code \in SixDigits
    PROVE  /\ Call(what, serial, code) \in Calls
           /\ Call(what, serial, code).at = "sent"
           /\ \A how \in SignInStages : /\ [Call(what, serial, code) EXCEPT !.at = how] \in Calls
                                  /\ [Call(what, serial, code) EXCEPT !.at = how].at = how
                                  /\ [Call(what, serial, code) EXCEPT !.at = how].code = code
BY DEF Call, Calls, SignInStages

LEMMA AccountsMade ==
    ASSUME NEW a \in StaffRows
    PROVE  /\ a.status \in {"ACTIVE", "LOCKED"} /\ a.failed \in Nat /\ a.on \in BOOLEAN
           /\ a.secret \in Nat /\ a.minted \in Nat
           /\ \A n \in Nat : /\ [a EXCEPT !.failed = n] \in StaffRows
                             /\ [a EXCEPT !.failed = n, !.status = "LOCKED"] \in StaffRows
                             /\ [a EXCEPT !.secret = n, !.minted = a.minted + 1] \in StaffRows
                             /\ [a EXCEPT !.secret = n, !.minted = a.minted + 1].secret = n
           /\ [a EXCEPT !.failed = a.failed + 1] \in StaffRows
           /\ [a EXCEPT !.on = TRUE] \in StaffRows
           /\ [a EXCEPT !.on = FALSE, !.secret = 0] \in StaffRows
<1>1. /\ a.status \in {"ACTIVE", "LOCKED"} /\ a.failed \in Nat /\ a.on \in BOOLEAN
      /\ a.secret \in Nat /\ a.minted \in Nat
  BY DEF StaffRows
<1>2. ASSUME NEW n \in Nat
      PROVE  /\ [a EXCEPT !.failed = n] \in StaffRows
             /\ [a EXCEPT !.failed = n, !.status = "LOCKED"] \in StaffRows
  BY DEF StaffRows
<1>3. ASSUME NEW n \in Nat
      PROVE  /\ [a EXCEPT !.secret = n, !.minted = a.minted + 1] \in StaffRows
             /\ [a EXCEPT !.secret = n, !.minted = a.minted + 1].secret = n
  <2>1. a.minted + 1 \in Nat
    BY <1>1
  <2> QED BY <2>1 DEF StaffRows
<1>4. [a EXCEPT !.failed = a.failed + 1] \in StaffRows
  <2>1. a.failed + 1 \in Nat
    BY <1>1
  <2> QED BY <2>1 DEF StaffRows
<1>5. [a EXCEPT !.on = TRUE] \in StaffRows
  BY DEF StaffRows
<1>6. [a EXCEPT !.on = FALSE, !.secret = 0] \in StaffRows
  BY DEF StaffRows
<1> QED BY <1>1, <1>2, <1>3, <1>4, <1>5, <1>6

LEMMA NoCodeIsOne == NoCode \in SixDigits
BY DEF NoCode, SixDigits

\* A tab's request waits in some stage: it is a call.
LEMMA WaitingIsACall ==
    ASSUME StaffShape, NEW k \in Tabs, req[k] # NoReq
    PROVE  req[k] \in Calls
BY DEF StaffShape

LEMMA GoesShape ==
    ASSUME StaffShape, NEW k \in Tabs, req[k] # NoReq, NEW to \in SignInStages, Goes(k, to)
    PROVE  /\ req' \in [Tabs -> {NoReq} \cup Calls]
           /\ req'[k].at = to
           /\ \A l \in Tabs \ {k} : req'[l] = req[l]
<1>1. [req[k] EXCEPT !.at = to] \in Calls /\ [req[k] EXCEPT !.at = to].at = to
  BY WaitingIsACall DEF Calls
<1> QED BY <1>1 DEF Goes, StaffShape

LEMMA FinishShape ==
    ASSUME StaffShape, NEW k \in Tabs, req[k] # NoReq, NEW how \in SignInStages, Finish(k, how)
    PROVE  /\ req' \in [Tabs -> {NoReq} \cup Calls]
           /\ req'[k].at = how /\ req'[k].code = NoCode
           /\ \A l \in Tabs \ {k} : req'[l] = req[l]
<1> DEFINE c == [Call(req[k].what, 0, NoCode) EXCEPT !.at = how]
<1>1. req[k].what \in StaffAsk
  BY WaitingIsACall DEF Calls
<1>2. c \in Calls /\ c.at = how /\ c.code = NoCode
  BY <1>1, CallsMade, NoCodeIsOne
<1>3. req' = [req EXCEPT ![k] = c]
  BY DEF Finish
<1> HIDE DEF c
<1> QED BY <1>2, <1>3 DEF StaffShape

LEMMA ShowsShape ==
    ASSUME StaffShape, NEW k \in Tabs, NEW t \in StaffTabs, NEW r \in {NoReq} \cup Calls, Shows(k, t, r)
    PROVE  /\ req' \in [Tabs -> {NoReq} \cup Calls] /\ tab' \in [Tabs -> StaffTabs]
           /\ req'[k] = r
           /\ \A l \in Tabs \ {k} : req'[l] = req[l]
BY DEF Shows, StaffShape

\* A step that opens no sign-in and burns no code leaves the rows as they are.
LEMMA QuietStep ==
    ASSUME OneRowEach, StaffShape', spent' = spent, DOMAIN signIn' = DOMAIN signIn,
           \A g \in DOMAIN signIn : RowOf(signIn'[g]) = RowOf(signIn[g]),
           \A k \in Tabs : Opening(k)' => Opening(k) /\ RowOf(req'[k]) = RowOf(req[k])
    PROVE  OneRowEach'
<1>1. \A g \in DOMAIN signIn : /\ signIn'[g].code = signIn[g].code
                               /\ signIn'[g].step = signIn[g].step
  BY DEF RowOf
<1>2. RowsBurnt'
  BY <1>1 DEF OneRowEach, RowsBurnt, RowOf
<1>3. RowsDiffer'
  BY <1>1 DEF OneRowEach, RowsDiffer, RowOf
<1>4. OneSignInPerCode'
  BY <1>1 DEF OneRowEach, OneSignInPerCode
<1> QED BY <1>2, <1>3, <1>4 DEF OneRowEach

\* What one tab's request becomes is all that changes in the requests.
LEMMA QuietAt ==
    ASSUME OneRowEach, StaffShape', spent' = spent, DOMAIN signIn' = DOMAIN signIn,
           \A g \in DOMAIN signIn : RowOf(signIn'[g]) = RowOf(signIn[g]),
           NEW k \in Tabs, ~ Opening(k)', \A l \in Tabs \ {k} : req'[l] = req[l]
    PROVE  OneRowEach'
<1>1. \A l \in Tabs : Opening(l)' => Opening(l) /\ RowOf(req'[l]) = RowOf(req[l])
  BY DEF Opening
<1> QED BY <1>1, QuietStep

\* A session that ends keeps its row.
LEMMA EndingKeepsRows ==
    ASSUME StaffShape, NEW g \in Nat, signIn' = [signIn EXCEPT ![g].live = FALSE]
    PROVE  /\ signIn' \in Seq(SignIns) /\ DOMAIN signIn' = DOMAIN signIn
           /\ \A h \in DOMAIN signIn : RowOf(signIn'[h]) = RowOf(signIn[h])
<1>1. signIn \in Seq(SignIns) /\ DOMAIN signIn = 1 .. Len(signIn)
  BY LenProperties DEF StaffShape
<1>2. CASE g \notin DOMAIN signIn
  <2>1. signIn' = signIn
    BY <1>1, <1>2
  <2> QED BY <1>1, <2>1
<1>3. CASE g \in DOMAIN signIn
  <2> DEFINE e == [signIn[g] EXCEPT !.live = FALSE]
  <2>1. signIn[g] \in SignIns
    BY <1>1, <1>3, ElementOfSeq
  <2>2. e \in SignIns /\ RowOf(e) = RowOf(signIn[g])
    BY <2>1 DEF SignIns, RowOf
  <2>3. signIn' = [signIn EXCEPT ![g] = e]
    OBVIOUS
  <2> HIDE DEF e
  <2>4. /\ signIn' \in Seq(SignIns) /\ DOMAIN signIn' = DOMAIN signIn
        /\ \A h \in DOMAIN signIn : signIn'[h] = IF h = g THEN e ELSE signIn[h]
    <3>1. g \in 1 .. Len(signIn)
      BY <1>1, <1>3
    <3>2. /\ signIn' \in Seq(SignIns) /\ Len(signIn') = Len(signIn)
          /\ \A h \in 1 .. Len(signIn) : signIn'[h] = IF h = g THEN e ELSE signIn[h]
      BY ONLY <1>1, <2>2, <2>3, <3>1, ExceptSeq
    <3> QED BY <1>1, <3>2, LenProperties
  <2>5. \A h \in DOMAIN signIn : RowOf(signIn'[h]) = RowOf(signIn[h])
    <3> SUFFICES ASSUME NEW h \in DOMAIN signIn PROVE RowOf(signIn'[h]) = RowOf(signIn[h])
      OBVIOUS
    <3>1. CASE h = g
      <4>1. signIn'[g] = e
        BY <1>3, <2>4
      <4> QED BY <3>1, <4>1, <2>2
    <3>2. CASE h # g
      <4>1. signIn'[h] = signIn[h]
        BY <3>2, <2>4
      <4> QED BY <4>1
    <3> QED BY <3>1, <3>2
  <2> QED BY <2>4, <2>5
<1> QED BY <1>2, <1>3

LEMMA ServesKeep ==
    ASSUME OneRowEach, NEW k \in Tabs, StaffServes(k)
    PROVE  OneRowEach'
<1>0. StaffShape
  BY DEF OneRowEach
<1>t. /\ account.status \in {"ACTIVE", "LOCKED"} /\ account.failed \in Nat /\ account.on \in BOOLEAN
      /\ account.secret \in Nat /\ account.minted \in Nat /\ account \in StaffRows
  BY <1>0 DEF StaffShape, StaffRows
<1>w. ASSUME NEW stage, NEW what, Waits(k, stage, what), stage # "idle"
      PROVE  req[k] # NoReq /\ req[k] \in Calls /\ req[k].at = stage
  BY <1>0, <1>w, WaitingIsACall DEF Waits, NoReq
<1>1. CASE Refuse(k)
  <2>1. Waits(k, "sent", {"me", "logout", "setup", "enable", "disable"}) /\ Finish(k, "refused")
    BY <1>1 DEF Refuse
  <2>2. "refused" \in SignInStages
    BY DEF SignInStages
  <2>3. req' \in [Tabs -> {NoReq} \cup Calls] /\ ~ Opening(k)' /\ \A l \in Tabs \ {k} : req'[l] = req[l]
    BY <1>0, <2>1, <2>2, <1>w, FinishShape DEF Opening
  <2>4. StaffShape'
    BY <1>0, <1>1, <2>3 DEF Refuse, StaffShape
  <2> QED BY <1>1, <2>3, <2>4, QuietAt DEF Refuse
<1>2. CASE ServeMe(k)
  <2>1. req[k] \in Calls
    BY <1>2, <1>w DEF ServeMe
  <2>2. LET r == [req[k] EXCEPT !.at = "ok", !.held = 0, !.sees = account.on]
        IN  r \in Calls /\ r.at = "ok"
    BY <1>t, <2>1 DEF Calls, SignInStages
  <2>3. req' = [req EXCEPT ![k] = [@ EXCEPT !.at = "ok", !.held = 0, !.sees = account.on]]
    BY <1>0, <1>2, <2>1 DEF ServeMe, StaffShape, Calls
  <2>4. req' \in [Tabs -> {NoReq} \cup Calls] /\ ~ Opening(k)' /\ \A l \in Tabs \ {k} : req'[l] = req[l]
    BY <1>0, <2>2, <2>3 DEF StaffShape, Opening
  <2>5. StaffShape'
    BY <1>0, <1>2, <2>4 DEF ServeMe, StaffShape
  <2> QED BY <1>2, <2>4, <2>5, QuietAt DEF ServeMe
<1>3. CASE ServeLogout(k)
  <2>1. req[k] \in Calls /\ req[k] # NoReq /\ Finish(k, "ok")
    BY <1>3, <1>w DEF ServeLogout
  <2>2. "ok" \in SignInStages /\ req[k].held \in Nat
    BY <2>1 DEF SignInStages, Calls
  <2>3. req' \in [Tabs -> {NoReq} \cup Calls] /\ ~ Opening(k)' /\ \A l \in Tabs \ {k} : req'[l] = req[l]
    BY <1>0, <2>1, <2>2, FinishShape DEF Opening
  <2>4. /\ signIn' \in Seq(SignIns) /\ DOMAIN signIn' = DOMAIN signIn
        /\ \A h \in DOMAIN signIn : RowOf(signIn'[h]) = RowOf(signIn[h])
    BY <1>0, <1>3, <2>2, EndingKeepsRows DEF ServeLogout
  <2>5. StaffShape'
    BY <1>0, <1>3, <2>3, <2>4 DEF ServeLogout, StaffShape
  <2> QED BY <1>3, <2>3, <2>4, <2>5, QuietAt DEF ServeLogout
<1>4. CASE WrongPassword(k)
  <2>1. req[k] # NoReq /\ Finish(k, "no")
    BY <1>4, <1>w DEF WrongPassword
  <2>2. req' \in [Tabs -> {NoReq} \cup Calls] /\ ~ Opening(k)' /\ \A l \in Tabs \ {k} : req'[l] = req[l]
    BY <1>0, <2>1, FinishShape DEF Opening, SignInStages
  <2>3. account' \in StaffRows
    BY <1>4, <1>t, AccountsMade, StaffConstants DEF WrongPassword
  <2>4. StaffShape'
    BY <1>0, <1>4, <2>2, <2>3 DEF WrongPassword, StaffShape
  <2> QED BY <1>4, <2>2, <2>4, QuietAt DEF WrongPassword
<1>5. CASE RightPassword(k)
  <2>1. req[k] # NoReq /\ (Goes(k, "factor") \/ Finish(k, "no"))
    BY <1>5, <1>w DEF RightPassword
  <2>2. req' \in [Tabs -> {NoReq} \cup Calls] /\ ~ Opening(k)' /\ \A l \in Tabs \ {k} : req'[l] = req[l]
    BY <1>0, <2>1, FinishShape, GoesShape DEF Opening, SignInStages
  <2>3. StaffShape'
    BY <1>0, <1>5, <2>2 DEF RightPassword, StaffShape
  <2> QED BY <1>5, <2>2, <2>3, QuietAt DEF RightPassword
<1>6. CASE SecondFactor(k)
  <2>1. req[k] # NoReq /\ req[k] \in Calls
    BY <1>6, <1>w DEF SecondFactor
  <2>2. req' \in [Tabs -> {NoReq} \cup Calls] /\ ~ Opening(k)' /\ \A l \in Tabs \ {k} : req'[l] = req[l]
    <3>1. CASE Goes(k, "burn") \/ Finish(k, "code")
      BY <1>0, <2>1, <3>1, FinishShape, GoesShape DEF Opening, SignInStages
    <3>2. CASE req' = [req EXCEPT ![k].at = "open", ![k].code = NoCode]
      <4>1. LET r == [req[k] EXCEPT !.at = "open", !.code = NoCode]
            IN  r \in Calls /\ r.code = NoCode
        BY <2>1, NoCodeIsOne DEF Calls, SignInStages
      <4>2. req' = [req EXCEPT ![k] = [@ EXCEPT !.at = "open", !.code = NoCode]]
        BY <1>0, <2>1, <3>2 DEF StaffShape, Calls
      <4> QED BY <1>0, <4>1, <4>2 DEF StaffShape, Opening
    <3> QED BY <1>6, <3>1, <3>2 DEF SecondFactor
  <2>3. StaffShape'
    BY <1>0, <1>6, <2>2 DEF SecondFactor, StaffShape
  <2> QED BY <1>6, <2>2, <2>3, QuietAt DEF SecondFactor
<1>7. CASE Burn(k)
  <2>1. req[k] # NoReq /\ req[k] \in Calls
    BY <1>7, <1>w DEF Burn
  <2>2. CASE Finish(k, "code") /\ spent' = spent
    <3>1. req' \in [Tabs -> {NoReq} \cup Calls] /\ ~ Opening(k)' /\ \A l \in Tabs \ {k} : req'[l] = req[l]
      BY <1>0, <2>1, <2>2, FinishShape DEF Opening, SignInStages
    <3>2. StaffShape'
      BY <1>0, <1>7, <3>1 DEF Burn, StaffShape
    <3> QED BY <1>7, <2>2, <3>1, <3>2, QuietAt DEF Burn
  <2>3. CASE /\ <<req[k].code, now>> \notin spent /\ spent' = spent \cup {<<req[k].code, now>>}
             /\ Burnt(k)
    <3> DEFINE r == [req[k] EXCEPT !.at = "open", !.step = now]
    <3>1. r \in Calls /\ r.code = req[k].code /\ r.step = now
      BY <1>0, <2>1 DEF StaffShape, Calls, SignInStages
    <3>2. req' = [req EXCEPT ![k] = r]
      BY <1>0, <2>1, <2>3 DEF StaffShape, Calls, Burnt
    <3> HIDE DEF r
    <3>3. req' \in [Tabs -> {NoReq} \cup Calls] /\ req'[k] = r /\ \A l \in Tabs \ {k} : req'[l] = req[l]
      BY <1>0, <3>1, <3>2 DEF StaffShape
    <3>4. RowOf(req'[k]) = <<req[k].code, now>>
      BY <3>1, <3>3 DEF RowOf
    <3>5. \A l \in Tabs \ {k} : Opening(l)' => Opening(l) /\ RowOf(req'[l]) = RowOf(req[l])
      BY <3>3 DEF Opening
    <3>6. StaffShape' /\ signIn' = signIn
      BY <1>0, <1>7, <3>3 DEF Burn, StaffShape
    <3>7. RowsBurnt'
      BY <2>3, <3>4, <3>5, <3>6 DEF OneRowEach, RowsBurnt
    <3>8. \A l \in Tabs \ {k} : Opening(l)' => RowOf(req'[l]) # RowOf(req'[k])
      BY <2>3, <3>4, <3>5 DEF OneRowEach, RowsBurnt
    <3>9. \A g \in DOMAIN signIn : Opening(k)' => RowOf(signIn[g]) # RowOf(req'[k])
      BY <1>0, <2>3, <3>1, <3>3, <3>4 DEF OneRowEach, RowsBurnt, RowOf, Opening
    <3>10. RowsDiffer'
      BY <3>5, <3>6, <3>8, <3>9 DEF OneRowEach, RowsDiffer
    <3>11. OneSignInPerCode'
      BY <3>6 DEF OneRowEach, OneSignInPerCode
    <3> QED BY <3>6, <3>7, <3>10, <3>11 DEF OneRowEach
  <2> QED BY <1>7, <2>2, <2>3 DEF Burn
<1>8. CASE OpenSession(k)
  <2>1. req[k] # NoReq /\ req[k] \in Calls /\ req[k].at = "open"
    BY <1>8, <1>w DEF OpenSession
  <2> DEFINE s == [live |-> TRUE, code |-> req[k].code, step |-> req[k].step]
  <2>2. s \in SignIns /\ RowOf(s) = RowOf(req[k]) /\ s.code = req[k].code /\ s.step = req[k].step
    BY <2>1 DEF SignIns, Calls, RowOf
  <2>3. signIn \in Seq(SignIns) /\ signIn' = Append(signIn, s)
    BY <1>0, <1>8 DEF StaffShape, OpenSession
  <2> HIDE DEF s
  <2>4. /\ signIn' \in Seq(SignIns) /\ Len(signIn') = Len(signIn) + 1
        /\ signIn'[Len(signIn) + 1] = s /\ \A g \in 1 .. Len(signIn) : signIn'[g] = signIn[g]
        /\ DOMAIN signIn = 1 .. Len(signIn) /\ DOMAIN signIn' = 1 .. Len(signIn) + 1
        /\ Len(signIn) \in Nat
    BY <2>2, <2>3, AppendProperties, LenProperties
  <2>5. req' \in [Tabs -> {NoReq} \cup Calls] /\ ~ Opening(k)' /\ \A l \in Tabs \ {k} : req'[l] = req[l]
    <3>1. CASE Finish(k, "no")
      BY <1>0, <2>1, <3>1, FinishShape DEF Opening, SignInStages
    <3>2. CASE req' = [req EXCEPT ![k].at = "ok", ![k].held = Len(signIn'),
                                  ![k].code = NoCode, ![k].step = 0]
      <4> DEFINE r == [req[k] EXCEPT !.at = "ok", !.held = Len(signIn'), !.code = NoCode, !.step = 0]
      <4>1. r \in Calls /\ r.code = NoCode
        <5>1. Len(signIn') \in Nat /\ NoCode \in SixDigits
          BY <2>4, NoCodeIsOne
        <5> QED BY <2>1, <5>1 DEF Calls, SignInStages
      <4>2. req' = [req EXCEPT ![k] = r]
        BY <1>0, <2>1, <3>2 DEF StaffShape, Calls
      <4> HIDE DEF r
      <4> QED BY <1>0, <4>1, <4>2 DEF StaffShape, Opening
    <3> QED BY <1>8, <3>1, <3>2 DEF OpenSession
  <2>6. \A l \in Tabs : Opening(l)' => l # k /\ Opening(l) /\ RowOf(req'[l]) = RowOf(req[l])
    BY <2>5 DEF Opening
  <2>7. account' \in StaffRows
    BY <1>8, <1>t DEF OpenSession, StaffRows
  <2>8. StaffShape' /\ spent' = spent
    BY <1>0, <1>8, <2>4, <2>5, <2>7 DEF OpenSession, StaffShape
  <2>9. \A g \in DOMAIN signIn' : \/ g \in DOMAIN signIn /\ signIn'[g] = signIn[g]
                                  \/ g = Len(signIn) + 1 /\ signIn'[g] = s
    BY <2>4
  <2>10. s.code # NoCode => RowOf(s) \in spent /\ Opening(k)
    BY <2>1, <2>2 DEF OneRowEach, RowsBurnt, Opening
  <2>11. RowsBurnt'
    BY <2>6, <2>8, <2>9, <2>10 DEF OneRowEach, RowsBurnt
  <2>12. ASSUME NEW l \in Tabs, Opening(l)' PROVE RowOf(s) # RowOf(req'[l])
    BY <2>1, <2>2, <2>6, <2>12 DEF OneRowEach, RowsDiffer, Opening, RowOf
  <2>13. RowsDiffer'
    BY <2>6, <2>9, <2>12 DEF OneRowEach, RowsDiffer
  <2>14. \A g \in DOMAIN signIn : s.code # NoCode /\ signIn[g].code = s.code => signIn[g].step # s.step
    BY <2>2, <2>10 DEF OneRowEach, RowsDiffer, RowOf
  <2>15. OneSignInPerCode'
    BY <2>9, <2>14 DEF OneRowEach, OneSignInPerCode
  <2> QED BY <2>8, <2>11, <2>13, <2>15 DEF OneRowEach
<1>9. CASE BeginSetup(k)
  <2>1. req[k] # NoReq /\ (Goes(k, "mint") \/ Finish(k, "no"))
    BY <1>9, <1>w DEF BeginSetup
  <2>2. req' \in [Tabs -> {NoReq} \cup Calls] /\ ~ Opening(k)' /\ \A l \in Tabs \ {k} : req'[l] = req[l]
    BY <1>0, <2>1, FinishShape, GoesShape DEF Opening, SignInStages
  <2>3. StaffShape'
    BY <1>0, <1>9, <2>2 DEF BeginSetup, StaffShape
  <2> QED BY <1>9, <2>2, <2>3, QuietAt DEF BeginSetup
<1>10. CASE WriteSecret(k)
  <2>1. req[k] # NoReq /\ req[k] \in Calls
    BY <1>10, <1>w DEF WriteSecret
  <2>2. account' \in StaffRows /\ account'.secret \in Nat
    <3>1. account.minted + 1 \in Nat
      BY <1>t
    <3>2. account' = [account EXCEPT !.secret = account.minted + 1, !.minted = account.minted + 1]
      BY <1>10 DEF WriteSecret
    <3> QED BY <1>t, <3>1, <3>2, AccountsMade
  <2> DEFINE c == [secret |-> account'.secret, step |-> 0]
             r == [req[k] EXCEPT !.at = "ok", !.held = 0, !.code = c]
  <2>3. c \in SixDigits
    BY <2>2 DEF SixDigits
  <2>4. req' = [req EXCEPT ![k] = r]
    BY <1>0, <1>10, <2>1 DEF WriteSecret, StaffShape, Calls
  <2> HIDE DEF c
  <2>5. r \in Calls /\ r.at = "ok"
    BY <2>1, <2>3 DEF Calls, SignInStages
  <2> HIDE DEF r
  <2>6. req' \in [Tabs -> {NoReq} \cup Calls] /\ ~ Opening(k)' /\ \A l \in Tabs \ {k} : req'[l] = req[l]
    BY <1>0, <2>4, <2>5 DEF StaffShape, Opening
  <2>7. StaffShape'
    BY <1>0, <1>10, <2>2, <2>6 DEF WriteSecret, StaffShape
  <2> QED BY <1>10, <2>6, <2>7, QuietAt DEF WriteSecret
<1>11. CASE CheckCode(k)
  <2>1. req[k] # NoReq /\ (Goes(k, "commit") \/ Finish(k, "no"))
    BY <1>11, <1>w DEF CheckCode
  <2>2. req' \in [Tabs -> {NoReq} \cup Calls] /\ ~ Opening(k)' /\ \A l \in Tabs \ {k} : req'[l] = req[l]
    BY <1>0, <2>1, FinishShape, GoesShape DEF Opening, SignInStages
  <2>3. StaffShape'
    BY <1>0, <1>11, <2>2 DEF CheckCode, StaffShape
  <2> QED BY <1>11, <2>2, <2>3, QuietAt DEF CheckCode
<1>12. CASE SwitchOn(k) \/ SwitchOff(k)
  <2>1. req[k] # NoReq /\ Finish(k, "ok")
    BY <1>12, <1>w DEF SwitchOn, SwitchOff
  <2>2. req' \in [Tabs -> {NoReq} \cup Calls] /\ ~ Opening(k)' /\ \A l \in Tabs \ {k} : req'[l] = req[l]
    BY <1>0, <2>1, FinishShape DEF Opening, SignInStages
  <2>3. account' \in StaffRows
    BY <1>12, <1>t, AccountsMade DEF SwitchOn, SwitchOff
  <2>4. StaffShape'
    BY <1>0, <1>12, <2>2, <2>3 DEF SwitchOn, SwitchOff, StaffShape
  <2> QED BY <1>12, <2>2, <2>4, QuietAt DEF SwitchOn, SwitchOff
<1> QED BY <1>1, <1>2, <1>3, <1>4, <1>5, <1>6, <1>7, <1>8, <1>9, <1>10, <1>11, <1>12 DEF StaffServes

\* A tab that shows something else and asks anew, or stops asking.
LEMMA ShownKeeps ==
    ASSUME OneRowEach, NEW k \in Tabs, NEW t \in StaffTabs, NEW r \in {NoReq} \cup Calls,
           r.at # "open", Shows(k, t, r), token' \in Nat, UNCHANGED <<account, spent, signIn, now>>
    PROVE  OneRowEach'
<1>1. StaffShape
  BY DEF OneRowEach
<1>2. StaffShape' /\ ~ Opening(k)' /\ \A l \in Tabs \ {k} : req'[l] = req[l]
  BY <1>1, ShowsShape DEF StaffShape, Opening
<1> QED BY <1>2, QuietAt

\* A tab that asks something new stays as it is.
LEMMA AskingKeeps ==
    ASSUME OneRowEach, NEW k \in Tabs, NEW r \in Calls, r.at # "open",
           req' = [req EXCEPT ![k] = r], UNCHANGED <<account, spent, signIn, now, token, tab>>
    PROVE  OneRowEach'
<1>1. tab[k] \in StaffTabs /\ tab \in [Tabs -> StaffTabs] /\ token \in Nat
  BY DEF OneRowEach, StaffShape
<1>2. tab' = [tab EXCEPT ![k] = tab[k]] /\ token' \in Nat
  BY <1>1
<1> QED BY <1>1, <1>2, ShownKeeps DEF Shows

\* What the pages put in place of a tab is one.
LEMMA TabsMade ==
    ASSUME StaffShape, NEW k \in Tabs
    PROVE  /\ tab[k] \in StaffTabs /\ tab[k].to \in Places
           /\ SignIn \in StaffTabs
           /\ \A p \in Places : [SignIn EXCEPT !.to = p] \in StaffTabs /\ At(p) \in StaffTabs
           /\ [tab[k] EXCEPT !.needCode = TRUE] \in StaffTabs
           /\ \A n \in Nat : [tab[k] EXCEPT !.setup = n] \in StaffTabs
           /\ \A a \in {"open", "denied"}, on \in BOOLEAN : [tab[k] EXCEPT !.at = a, !.on = on] \in StaffTabs
<1>1. tab[k] \in StaffTabs
  BY DEF StaffShape
<1>2. tab[k].to \in Places /\ SignIn \in StaffTabs
  BY <1>1 DEF StaffTabs, SignIn, Places
<1>3. ASSUME NEW p \in Places
      PROVE  [SignIn EXCEPT !.to = p] \in StaffTabs /\ At(p) \in StaffTabs
  BY DEF StaffTabs, SignIn, At
<1>4. [tab[k] EXCEPT !.needCode = TRUE] \in StaffTabs
  BY <1>1 DEF StaffTabs
<1>5. ASSUME NEW n \in Nat PROVE [tab[k] EXCEPT !.setup = n] \in StaffTabs
  BY <1>1 DEF StaffTabs
<1>6. ASSUME NEW a \in {"open", "denied"}, NEW on \in BOOLEAN
      PROVE  [tab[k] EXCEPT !.at = a, !.on = on] \in StaffTabs
  BY <1>1 DEF StaffTabs
<1> QED BY <1>1, <1>2, <1>3, <1>4, <1>5, <1>6

LEMMA AnswersKeep ==
    ASSUME OneRowEach, NEW k \in Tabs, StaffAnswers(k)
    PROVE  OneRowEach'
<1>0. StaffShape /\ token \in Nat /\ NoReq.at # "open" /\ 0 \in Nat
  BY DEF OneRowEach, StaffShape, NoReq
<1>w. ASSUME NEW stage, NEW what, Waits(k, stage, what), stage # "idle"
      PROVE  req[k] \in Calls
  BY <1>0, <1>w, WaitingIsACall DEF Waits, NoReq
<1>a. ASSUME NEW n \in Nat
      PROVE  LET r == Call("me", n, NoCode) IN r \in Calls /\ r.at # "open"
  <2>1. "me" \in StaffAsk
    BY DEF StaffAsk
  <2> QED BY <2>1, CallsMade, NoCodeIsOne
<1>1. CASE Entered(k)
  <2>1. req[k].sees \in BOOLEAN
    BY <1>1, <1>w DEF Entered, Calls
  <2> DEFINE a == IF Opens(tab[k].to) THEN "open" ELSE "denied"
             on == req[k].sees /\ tab[k].to = Switcher
  <2>2. a \in {"open", "denied"} /\ on \in BOOLEAN
    BY <2>1
  <2>3. Shows(k, [tab[k] EXCEPT !.at = a, !.on = on], NoReq)
    BY <1>1 DEF Entered
  <2> HIDE DEF a, on
  <2>4. [tab[k] EXCEPT !.at = a, !.on = on] \in StaffTabs
    BY <1>0, <2>2, TabsMade
  <2> QED BY <1>0, <1>1, <2>3, <2>4, ShownKeeps DEF Entered
<1>2. CASE SentAway(k)
  BY <1>0, <1>2, TabsMade, ShownKeeps DEF SentAway
<1>3. CASE Unreachable(k)
  <2> DEFINE t == IF tab[k].at = "boot" THEN [SignIn EXCEPT !.to = tab[k].to] ELSE tab[k]
  <2>1. t \in StaffTabs
    BY <1>0, TabsMade
  <2>2. Shows(k, t, NoReq)
    BY <1>3 DEF Unreachable
  <2> HIDE DEF t
  <2> QED BY <1>0, <1>3, <2>1, <2>2, ShownKeeps DEF Unreachable
<1>4. CASE SignedInAs(k)
  <2>1. req[k].held \in Nat
    BY <1>4, <1>w DEF SignedInAs, Calls
  <2>2. At(tab[k].to) \in StaffTabs
    BY <1>0, TabsMade
  <2>3. token' \in Nat /\ Call("me", token', NoCode) \in Calls /\ Call("me", token', NoCode).at # "open"
    BY <1>4, <1>a, <2>1 DEF SignedInAs
  <2> QED BY <1>4, <2>2, <2>3, ShownKeeps DEF SignedInAs
<1>5. CASE AskedForCode(k)
  BY <1>0, <1>5, TabsMade, ShownKeeps DEF AskedForCode
<1>6. CASE Told(k)
  BY <1>0, <1>6, TabsMade, ShownKeeps DEF Told
<1>7. CASE StaffSignedOut(k)
  BY <1>0, <1>7, TabsMade, ShownKeeps DEF StaffSignedOut
<1>8. CASE SecretShown(k)
  <2>1. req[k].code.secret \in Nat
    BY <1>8, <1>w DEF SecretShown, Calls, SixDigits
  <2> QED BY <1>0, <1>8, <2>1, TabsMade, ShownKeeps DEF SecretShown
<1>9. CASE Turned(k)
  <2> DEFINE n == IF req[k].what = "enable" THEN 0 ELSE tab[k].setup
  <2>1. n \in Nat
    BY <1>0, TabsMade DEF StaffTabs
  <2>2. Shows(k, [tab[k] EXCEPT !.setup = n], Call("me", token, NoCode))
    BY <1>9 DEF Turned, Asks
  <2> HIDE DEF n
  <2>3. [tab[k] EXCEPT !.setup = n] \in StaffTabs
    BY <1>0, <2>1, TabsMade
  <2> QED BY <1>0, <1>9, <1>a, <2>2, <2>3, ShownKeeps DEF Turned
<1> QED BY <1>1, <1>2, <1>3, <1>4, <1>5, <1>6, <1>7, <1>8, <1>9 DEF StaffAnswers

\* What an employee types is a code, or a typing error.
LEMMA TypedAreCodes == StaffShape => Typed \subseteq SixDigits
BY DEF Typed, StaffShape, SixDigits, StaffRows

LEMMA StaffStep ==
    ASSUME OneRowEach, [StaffNext]_staffVars
    PROVE  OneRowEach'
<1>0. StaffShape /\ token \in Nat /\ NoReq.at # "open"
  BY DEF OneRowEach, StaffShape, NoReq
<1>a. ASSUME NEW what \in StaffAsk, NEW n \in Nat, NEW c \in SixDigits
      PROVE  LET r == Call(what, n, c) IN r \in Calls /\ r.at # "open"
  BY CallsMade
<1>1. ASSUME NEW k \in Tabs, StaffServes(k)
      PROVE  OneRowEach'
  BY <1>1, ServesKeep
<1>2. ASSUME NEW k \in Tabs, StaffAnswers(k)
      PROVE  OneRowEach'
  BY <1>2, AnswersKeep
<1>3. ASSUME NEW k \in Tabs, Submit(k)
      PROVE  OneRowEach'
  <2>1. PICK code \in Typed \cup {NoCode} : req' = [req EXCEPT ![k] = Call("login", 0, code)]
    BY <1>3 DEF Submit
  <2>2. code \in SixDigits /\ "login" \in StaffAsk /\ 0 \in Nat
    BY <1>0, <2>1, TypedAreCodes, NoCodeIsOne DEF StaffAsk
  <2>3. LET r == Call("login", 0, code) IN r \in Calls /\ r.at # "open"
    BY <1>a, <2>2
  <2> QED BY <1>3, <2>1, <2>3, AskingKeeps DEF Submit
<1>4. ASSUME NEW k \in Tabs, SignOut(k) \/ SetUp(k)
      PROVE  OneRowEach'
  <2>1. PICK what \in {"logout", "setup"} : req' = [req EXCEPT ![k] = Call(what, token, NoCode)]
    BY <1>4 DEF SignOut, SetUp, Asks
  <2>2. LET r == Call(what, token, NoCode) IN r \in Calls /\ r.at # "open"
    BY <1>0, <1>a, NoCodeIsOne DEF StaffAsk
  <2>3. UNCHANGED <<account, spent, signIn, now, token, tab>>
    BY <1>4 DEF SignOut, SetUp
  <2> QED BY <2>1, <2>2, <2>3, AskingKeeps
<1>5. ASSUME NEW k \in Tabs, NEW place \in Places, Enter(k, place)
      PROVE  OneRowEach'
  <2>1. LET r == Call("me", token, NoCode) IN r \in Calls /\ r.at # "open"
    BY <1>0, <1>a, NoCodeIsOne DEF StaffAsk
  <2>2. [SignIn EXCEPT !.to = place] \in StaffTabs /\ At(place) \in StaffTabs
    BY <1>0, TabsMade
  <2>3. CASE Shows(k, [SignIn EXCEPT !.to = place], NoReq)
    BY <1>0, <1>5, <2>2, <2>3, ShownKeeps DEF Enter
  <2>4. CASE Shows(k, At(place), Call("me", token, NoCode))
    BY <1>0, <1>5, <2>1, <2>2, <2>4, ShownKeeps DEF Enter
  <2> QED BY <1>5, <2>3, <2>4 DEF Enter, Asks
<1>6. ASSUME NEW k \in Tabs, NEW code \in Typed, TurnOn(k, code) \/ TurnOff(k, code)
      PROVE  OneRowEach'
  <2>1. PICK what \in {"enable", "disable"} : req' = [req EXCEPT ![k] = Call(what, token, code)]
    BY <1>6 DEF TurnOn, TurnOff
  <2>2. LET r == Call(what, token, code) IN r \in Calls /\ r.at # "open"
    BY <1>0, <1>a, TypedAreCodes DEF StaffAsk
  <2>3. UNCHANGED <<account, spent, signIn, now, token, tab>>
    BY <1>6 DEF TurnOn, TurnOff
  <2> QED BY <2>1, <2>2, <2>3, AskingKeeps
<1>7. ASSUME NEW g \in DOMAIN signIn, SessionEnds(g)
      PROVE  OneRowEach'
  <2>1. g \in Nat
    BY <1>0, LenProperties DEF StaffShape
  <2>2. /\ signIn' \in Seq(SignIns) /\ DOMAIN signIn' = DOMAIN signIn
        /\ \A h \in DOMAIN signIn : RowOf(signIn'[h]) = RowOf(signIn[h])
    BY <1>0, <1>7, <2>1, EndingKeepsRows DEF SessionEnds
  <2>3. StaffShape' /\ req' = req /\ spent' = spent
    BY <1>0, <1>7, <2>2 DEF SessionEnds, StaffShape
  <2> QED BY <2>2, <2>3, QuietStep DEF Opening
<1>8. CASE Tick
  <2>1. StaffShape' /\ req' = req /\ spent' = spent /\ signIn' = signIn
    BY <1>0, <1>8 DEF Tick, StaffShape
  <2> QED BY <2>1, QuietStep DEF Opening
<1>9. CASE UNCHANGED staffVars
  <2>1. StaffShape' /\ req' = req /\ spent' = spent /\ signIn' = signIn
    BY <1>0, <1>9 DEF staffVars, StaffShape
  <2> QED BY <2>1, QuietStep DEF Opening
<1> QED BY <1>1, <1>2, <1>3, <1>4, <1>5, <1>6, <1>7, <1>8, <1>9 DEF StaffNext

\* Sessions opened with one and the same code lie in different steps of thirty seconds,
\* whatever sign-ins race: the insert into mfa_used is the check (mfa.go, checkSecondFactor).
THEOREM OneSignInPerCodeAlways == StaffSpec => []OneSignInPerCode
<1>1. StaffInit => OneRowEach
  <2> SUFFICES ASSUME StaffInit PROVE OneRowEach
      OBVIOUS
  <2>1. StaffShape /\ DOMAIN signIn = {} /\ \A k \in Tabs : ~ Opening(k)
    <3>1. signIn = <<>> /\ DOMAIN signIn = {}
      BY DEF StaffInit
    <3>2. \A k \in Tabs : req[k].at # "open"
      BY DEF StaffInit, NoReq
    <3> QED BY <3>1, <3>2, StaffShapeInit DEF Opening
  <2> QED BY <2>1 DEF OneRowEach, RowsBurnt, RowsDiffer, OneSignInPerCode
<1>2. OneRowEach /\ [StaffNext]_staffVars => OneRowEach'
  BY StaffStep
<1>3. OneRowEach => OneSignInPerCode
  BY DEF OneRowEach
<1> QED BY <1>1, <1>2, <1>3, PTL DEF StaffSpec

\* The state with its bounds.
BoundCalls == [at : SignInStages, what : StaffAsk, held : 0 .. MaxSignIns, code : Digits \cup {NoCode},
               step : 0 .. MaxStep, sees : BOOLEAN]
BoundSignIns == [live : BOOLEAN, code : Digits \cup {NoCode}, step : 0 .. MaxStep]
BoundRows == [status : {"ACTIVE", "LOCKED"}, failed : 0 .. LockoutAfter, on : BOOLEAN,
              secret : 0 .. MaxSecrets, minted : 0 .. MaxSecrets]
BoundTabs == [at : {"login", "boot", "open", "denied"}, to : Places, needCode : BOOLEAN,
              on : BOOLEAN, setup : 0 .. MaxSecrets]

\* A call that may still open a session, or issue a secret.
WillOpen(r) == r.at \in {"sent", "factor", "burn", "open"} /\ r.what = "login"
WillMint(r) == r.at \in {"sent", "mint"} /\ r.what = "setup"
ToOpen == {k \in Tabs : WillOpen(req[k])}
ToMint == {k \in Tabs : WillMint(req[k])}

\* A call names a session there is, and only digits come to be used up.
CallBound(r) == r.held <= Len(signIn) /\ (r.at = "burn" => r.code \in Digits)

\* There is room for every session and secret that is still to come.
StaffBound ==
    /\ StaffTypeOK
    /\ \A k \in Tabs : req[k] # NoReq => CallBound(req[k])
    /\ Len(signIn) + Cardinality(ToOpen) <= MaxSignIns
    /\ account.minted + Cardinality(ToMint) <= MaxSecrets

LEMMA StaffTypesSplit ==
    StaffTypeOK <=> /\ account \in BoundRows /\ spent \subseteq Digits \X (0 .. MaxStep)
                    /\ signIn \in Seq(BoundSignIns) /\ Len(signIn) <= MaxSignIns
                    /\ now \in 0 .. MaxStep /\ token \in 0 .. Len(signIn)
                    /\ tab \in [Tabs -> BoundTabs] /\ req \in [Tabs -> {NoReq} \cup BoundCalls]
BY DEF StaffTypeOK, BoundRows, BoundSignIns, BoundTabs, BoundCalls, SignInStages, StaffAsk

LEMMA StaffBoundInit == StaffInit => StaffBound
<1> SUFFICES ASSUME StaffInit PROVE StaffBound
    OBVIOUS
<1>1. PICK s \in {0, MaxSecrets} :
        account = [status |-> "ACTIVE", failed |-> 0, on |-> s # 0, secret |-> s, minted |-> s]
  BY DEF StaffInit
<1>2. s \in 0 .. MaxSecrets /\ (s # 0) \in BOOLEAN /\ 0 \in 0 .. LockoutAfter
  BY <1>1, StaffConstants
<1>3. account \in BoundRows /\ account.minted <= MaxSecrets /\ account.minted \in Nat
  BY <1>1, <1>2 DEF BoundRows
<1>4. SignIn \in BoundTabs
  BY StaffConstants DEF SignIn, BoundTabs, Places
<1>5. signIn = <<>> /\ signIn \in Seq(BoundSignIns) /\ Len(signIn) = 0 /\ 0 \in 0 .. MaxSignIns
      /\ 0 \in 0 .. MaxStep
  BY StaffConstants DEF StaffInit
<1>6. \A k \in Tabs : req[k] = NoReq
  BY DEF StaffInit
<1>7. ToOpen = {} /\ ToMint = {}
  BY <1>6 DEF ToOpen, ToMint, WillOpen, WillMint, NoReq
<1>8. Cardinality(ToOpen) = 0 /\ Cardinality(ToMint) = 0
  BY <1>7, FS_EmptySet
<1>9. StaffTypeOK
  BY <1>3, <1>4, <1>5, StaffTypesSplit DEF StaffInit
<1> QED BY <1>3, <1>5, <1>6, <1>8, <1>9, StaffConstants DEF StaffBound

\* One tab's call becomes r.  What is still to come of it was to come before, or there
\* is room for it, or it has come.
LEMMA StaffMoves ==
    ASSUME StaffBound, NEW k \in Tabs, NEW r \in {NoReq} \cup BoundCalls, req' = [req EXCEPT ![k] = r],
           account' \in BoundRows, spent' \subseteq Digits \X (0 .. MaxStep),
           signIn' \in Seq(BoundSignIns), now' \in 0 .. MaxStep, token' \in 0 .. Len(signIn'),
           tab' \in [Tabs -> BoundTabs], Len(signIn) <= Len(signIn'), r # NoReq => r.held <= Len(signIn') /\ (r.at = "burn" => r.code \in Digits),
           \/ Len(signIn') = Len(signIn) /\ (WillOpen(r) => WillOpen(req[k]))
           \/ Len(signIn') = Len(signIn) + 1 /\ WillOpen(req[k]) /\ ~ WillOpen(r)
           \/ Len(signIn') = Len(signIn) /\ Len(signIn) + Out("login") < MaxSignIns,
           \/ account'.minted = account.minted /\ (WillMint(r) => WillMint(req[k]))
           \/ account'.minted = account.minted + 1 /\ WillMint(req[k]) /\ ~ WillMint(r)
           \/ account'.minted = account.minted /\ account.minted + Out("setup") < MaxSecrets
    PROVE  StaffBound'
<1> USE StaffConstants
<1>1. StaffTypeOK /\ req \in [Tabs -> {NoReq} \cup BoundCalls] /\ signIn \in Seq(BoundSignIns)
      /\ account \in BoundRows
  BY StaffTypesSplit DEF StaffBound
<1>2. /\ req'[k] = r /\ \A l \in Tabs \ {k} : req'[l] = req[l]
      /\ req' \in [Tabs -> {NoReq} \cup BoundCalls]
  BY <1>1
<1>3. /\ Len(signIn) \in Nat /\ Len(signIn') \in Nat
      /\ account.minted \in Nat /\ account'.minted \in Nat
  BY <1>1, LenProperties DEF BoundRows
<1>4. \A l \in Tabs : req'[l] # NoReq => CallBound(req[l])'
  <2> SUFFICES ASSUME NEW l \in Tabs, req'[l] # NoReq PROVE CallBound(req[l])'
      OBVIOUS
  <2>1. CASE l = k
    BY <1>2, <2>1 DEF CallBound
  <2>2. CASE l # k
    <3>1. req'[l] = req[l] /\ CallBound(req[l]) /\ req[l].held \in Nat
      BY <1>1, <1>2, <2>2 DEF StaffBound, BoundCalls
    <3> QED BY <1>3, <3>1 DEF CallBound
  <2> QED BY <2>1, <2>2
<1>5. /\ ToOpen \in SUBSET Tabs /\ ToOpen' \in SUBSET Tabs
      /\ ToMint \in SUBSET Tabs /\ ToMint' \in SUBSET Tabs
      /\ \A l \in Tabs \ {k} : /\ l \in ToOpen <=> l \in ToOpen'
                               /\ l \in ToMint <=> l \in ToMint'
      /\ k \in ToOpen <=> WillOpen(req[k])
      /\ k \in ToOpen' <=> WillOpen(r)
      /\ k \in ToMint <=> WillMint(req[k])
      /\ k \in ToMint' <=> WillMint(r)
  BY <1>2 DEF ToOpen, ToMint, WillOpen, WillMint
<1> DEFINE a == Cardinality(ToOpen)   b == Cardinality(ToOpen')
           c == Cardinality(ToMint)   d == Cardinality(ToMint')
<1>6. /\ a \in Nat /\ b \in Nat /\ b <= a + 1
      /\ (WillOpen(r) => WillOpen(req[k])) => b <= a
      /\ WillOpen(req[k]) /\ ~ WillOpen(r) => b = a - 1
  BY <1>5, CountsOfNeighbours
<1>7. /\ c \in Nat /\ d \in Nat /\ d <= c + 1
      /\ (WillMint(r) => WillMint(req[k])) => d <= c
      /\ WillMint(req[k]) /\ ~ WillMint(r) => d = c - 1
  BY <1>5, CountsOfNeighbours
<1>8. ASSUME NEW what, NEW S, S \subseteq {l \in Tabs : req[l] # NoReq /\ req[l].what = what}
      PROVE  Cardinality(S) <= Out(what) /\ Out(what) \in Nat /\ Cardinality(S) \in Nat
  <2>1. IsFiniteSet({l \in Tabs : req[l] # NoReq /\ req[l].what = what})
    BY FS_Subset
  <2> QED BY <1>8, <2>1, FS_Subset, FS_CardinalityType DEF Out
<1>9. a <= Out("login") /\ Out("login") \in Nat
  <2>1. ToOpen \subseteq {l \in Tabs : req[l] # NoReq /\ req[l].what = "login"}
    BY DEF ToOpen, WillOpen, NoReq
  <2> QED BY <1>8, <2>1
<1>10. c <= Out("setup") /\ Out("setup") \in Nat
  <2>1. ToMint \subseteq {l \in Tabs : req[l] # NoReq /\ req[l].what = "setup"}
    BY DEF ToMint, WillMint, NoReq
  <2> QED BY <1>8, <2>1
<1>11. Len(signIn) + a <= MaxSignIns /\ account.minted + c <= MaxSecrets
  BY DEF StaffBound
<1> HIDE DEF a, b, c, d
<1>12. Len(signIn') + b <= MaxSignIns /\ Len(signIn') <= MaxSignIns
  BY <1>3, <1>6, <1>9, <1>11
<1>13. account'.minted + d <= MaxSecrets
  <2> DEFINE m == account.minted   n == account'.minted   o == Out("setup")
  <2>1. /\ m \in Nat /\ n \in Nat /\ o \in Nat /\ m + c <= MaxSecrets /\ c <= o
        /\ \/ n = m /\ d <= c
           \/ n = m + 1 /\ d = c - 1
           \/ n = m /\ m + o < MaxSecrets
    BY <1>3, <1>7, <1>10, <1>11
  <2> HIDE DEF m, n, o
  <2>2. n + d <= MaxSecrets
    BY ONLY <2>1, <1>7, StaffConstants
  <2> QED BY <2>2 DEF n
<1>14. StaffTypeOK'
  BY <1>2, <1>12, StaffTypesSplit DEF StaffTypeOK, BoundRows, BoundSignIns, BoundTabs, BoundCalls,
     SignInStages, StaffAsk
<1> QED BY <1>4, <1>12, <1>13, <1>14 DEF StaffBound, b, d

\* A call that makes nothing goes on, ends or is given up.
LEMMA StaffGoesOn ==
    ASSUME StaffBound, NEW k \in Tabs, NEW r \in {NoReq} \cup BoundCalls, req' = [req EXCEPT ![k] = r],
           account' \in BoundRows, account'.minted = account.minted,
           spent' \subseteq Digits \X (0 .. MaxStep),
           signIn' \in Seq(BoundSignIns), Len(signIn') = Len(signIn), now' = now,
           token' \in 0 .. Len(signIn), tab' \in [Tabs -> BoundTabs], r # NoReq => CallBound(r),
           WillOpen(r) => WillOpen(req[k]), WillMint(r) => WillMint(req[k])
    PROVE  StaffBound'
<1>1. now \in 0 .. MaxStep /\ Len(signIn) \in Nat
  BY StaffTypesSplit, LenProperties DEF StaffBound
<1>2. r # NoReq => r.held <= Len(signIn') /\ (r.at = "burn" => r.code \in Digits)
  BY DEF CallBound
<1>3. now' \in 0 .. MaxStep /\ token' \in 0 .. Len(signIn') /\ Len(signIn) <= Len(signIn')
  BY <1>1
<1> QED BY <1>2, <1>3, StaffMoves

LEMMA BoundCallsMade ==
    ASSUME NEW what \in StaffAsk, NEW seen \in 0 .. MaxSignIns, NEW c \in Digits \cup {NoCode}
    PROVE  LET r == Call(what, seen, c)
           IN  /\ r \in BoundCalls /\ r.at = "sent" /\ r.what = what /\ r.held = seen
               /\ \A how \in SignInStages : LET e == [r EXCEPT !.at = how]
                                            IN  /\ e \in BoundCalls /\ e.at = how
                                                /\ e.what = what /\ e.held = seen /\ e.code = c
<1>1. 0 \in 0 .. MaxStep
  BY StaffConstants
<1> QED BY <1>1 DEF Call, BoundCalls, SignInStages

LEMMA EndedCall ==
    ASSUME StaffBound, NEW k \in Tabs, req[k] # NoReq, NEW how \in {"refused", "ok", "no", "code"},
           Finish(k, how)
    PROVE  \E r \in BoundCalls : /\ req' = [req EXCEPT ![k] = r] /\ CallBound(r)
                                 /\ ~ WillOpen(r) /\ ~ WillMint(r)
                                 /\ r.at # "burn"
<1> DEFINE r == [Call(req[k].what, 0, NoCode) EXCEPT !.at = how]
<1>1. req[k].what \in StaffAsk /\ 0 \in 0 .. MaxSignIns /\ how \in SignInStages
  BY StaffTypesSplit, StaffConstants DEF StaffBound, BoundCalls, SignInStages
<1>2. r \in BoundCalls /\ r.at = how /\ r.held = 0
  BY <1>1, BoundCallsMade
<1>3. Len(signIn) \in Nat
  BY StaffTypesSplit, LenProperties DEF StaffBound
<1>4. req' = [req EXCEPT ![k] = r]
  BY DEF Finish
<1> HIDE DEF r
<1>5. CallBound(r) /\ ~ WillOpen(r) /\ ~ WillMint(r) /\ r.at # "burn"
  BY <1>2, <1>3 DEF CallBound, WillOpen, WillMint
<1> QED BY <1>2, <1>4, <1>5

LEMMA MovedCall ==
    ASSUME StaffBound, NEW k \in Tabs, req[k] # NoReq, NEW to \in {"factor", "burn", "mint", "commit"},
           Goes(k, to), to = "burn" => req[k].code \in Digits,
           to \in {"factor", "burn"} => req[k].at \in {"sent", "factor"},
           to = "mint" => req[k].at = "sent"
    PROVE  \E r \in BoundCalls : /\ req' = [req EXCEPT ![k] = r] /\ CallBound(r)
                                 /\ WillOpen(r) => WillOpen(req[k])
                                 /\ WillMint(r) => WillMint(req[k])
<1> DEFINE r == [req[k] EXCEPT !.at = to]
<1>1. req[k] \in BoundCalls /\ CallBound(req[k])
  BY StaffTypesSplit DEF StaffBound
<1>2. /\ r \in BoundCalls /\ r.at = to /\ r.what = req[k].what /\ r.held = req[k].held
      /\ r.code = req[k].code
  BY <1>1 DEF BoundCalls, SignInStages
<1>3. req' = [req EXCEPT ![k] = r]
  BY DEF Goes
<1> HIDE DEF r
<1>4. CallBound(r)
  BY <1>1, <1>2 DEF CallBound
<1>5. (WillOpen(r) => WillOpen(req[k])) /\ (WillMint(r) => WillMint(req[k]))
  BY <1>2 DEF WillOpen, WillMint
<1> QED BY <1>2, <1>3, <1>4, <1>5

\* A session that ends is still one of those there were.
LEMMA EndingKeepsSessions ==
    ASSUME signIn \in Seq(BoundSignIns), NEW g \in Nat, signIn' = [signIn EXCEPT ![g].live = FALSE]
    PROVE  signIn' \in Seq(BoundSignIns) /\ Len(signIn') = Len(signIn)
<1>1. CASE g \notin DOMAIN signIn
  <2>1. signIn' = signIn
    BY <1>1
  <2> QED BY <2>1
<1>2. CASE g \in DOMAIN signIn
  <2>1. g \in 1 .. Len(signIn) /\ signIn[g] \in BoundSignIns
    BY <1>2, LenProperties, ElementOfSeq
  <2>2. [signIn[g] EXCEPT !.live = FALSE] \in BoundSignIns
    BY <2>1 DEF BoundSignIns
  <2> QED BY <2>1, <2>2, ExceptSeq
<1> QED BY <1>1, <1>2

LEMMA StaffServesBound ==
    ASSUME StaffBound, NEW k \in Tabs, StaffServes(k)
    PROVE  StaffBound'
<1>0. /\ account \in BoundRows /\ spent \subseteq Digits \X (0 .. MaxStep)
      /\ signIn \in Seq(BoundSignIns) /\ Len(signIn) <= MaxSignIns /\ Len(signIn) \in Nat
      /\ now \in 0 .. MaxStep /\ token \in 0 .. Len(signIn)
      /\ tab \in [Tabs -> BoundTabs] /\ req \in [Tabs -> {NoReq} \cup BoundCalls]
  BY StaffTypesSplit, LenProperties DEF StaffBound
<1>t. /\ account.status \in {"ACTIVE", "LOCKED"} /\ account.failed \in 0 .. LockoutAfter
      /\ account.on \in BOOLEAN /\ account.secret \in 0 .. MaxSecrets /\ account.minted \in 0 .. MaxSecrets
  BY <1>0 DEF BoundRows
<1>w. ASSUME NEW stage, NEW what, Waits(k, stage, what), stage # "idle"
      PROVE  /\ req[k] # NoReq /\ req[k] \in BoundCalls /\ CallBound(req[k])
             /\ req[k].at = stage /\ req[k].what \in what
  BY <1>0, <1>w DEF Waits, NoReq, StaffBound
<1>e. ASSUME NEW how \in {"refused", "ok", "no", "code"}, Finish(k, how), req[k] # NoReq,
             account' \in BoundRows, account'.minted = account.minted,
             spent' \subseteq Digits \X (0 .. MaxStep), signIn' \in Seq(BoundSignIns),
             Len(signIn') = Len(signIn), now' = now, token' = token, tab' = tab
      PROVE  StaffBound'
  <2>1. PICK r \in BoundCalls : /\ req' = [req EXCEPT ![k] = r] /\ CallBound(r)
                                /\ ~ WillOpen(r) /\ ~ WillMint(r)
    BY <1>e, EndedCall
  <2>2. token' \in 0 .. Len(signIn) /\ tab' \in [Tabs -> BoundTabs]
    BY <1>0, <1>e
  <2> QED BY <1>e, <2>1, <2>2, StaffGoesOn
<1>g. ASSUME NEW to \in {"factor", "burn", "mint", "commit"}, Goes(k, to), req[k] # NoReq,
             to = "burn" => req[k].code \in Digits,
             to \in {"factor", "burn"} => req[k].at \in {"sent", "factor"},
             to = "mint" => req[k].at = "sent", UNCHANGED <<account, spent, signIn, now, token, tab>>
      PROVE  StaffBound'
  <2>1. PICK r \in BoundCalls : /\ req' = [req EXCEPT ![k] = r] /\ CallBound(r)
                                /\ WillOpen(r) => WillOpen(req[k])
                                /\ WillMint(r) => WillMint(req[k])
    BY <1>g, MovedCall
  <2>2. /\ account' \in BoundRows /\ account'.minted = account.minted
        /\ spent' \subseteq Digits \X (0 .. MaxStep) /\ signIn' \in Seq(BoundSignIns)
        /\ Len(signIn') = Len(signIn) /\ now' = now
        /\ token' \in 0 .. Len(signIn) /\ tab' \in [Tabs -> BoundTabs]
    BY <1>0, <1>g
  <2> QED BY <2>1, <2>2, StaffGoesOn
<1>1. CASE Refuse(k)
  BY <1>0, <1>1, <1>w, <1>e DEF Refuse
<1>2. CASE ServeMe(k)
  <2> DEFINE r == [req[k] EXCEPT !.at = "ok", !.held = 0, !.sees = account.on]
  <2>1. req[k] \in BoundCalls
    BY <1>2, <1>w DEF ServeMe
  <2>2. r \in BoundCalls /\ r.at = "ok" /\ r.held = 0
    <3>1. 0 \in 0 .. MaxSignIns
      BY StaffConstants
    <3> QED BY <1>t, <2>1, <3>1 DEF BoundCalls, SignInStages
  <2>3. req' = [req EXCEPT ![k] = r]
    BY <1>0, <1>2, <2>1 DEF ServeMe, BoundCalls
  <2> HIDE DEF r
  <2>4. CallBound(r) /\ ~ WillOpen(r) /\ ~ WillMint(r)
    BY <1>0, <2>2 DEF CallBound, WillOpen, WillMint
  <2>5. UNCHANGED <<account, spent, signIn, now, token, tab>>
    BY <1>2 DEF ServeMe
  <2> QED BY <1>0, <2>2, <2>3, <2>4, <2>5, StaffGoesOn
<1>3. CASE ServeLogout(k)
  <2>1. req[k] \in BoundCalls /\ req[k] # NoReq /\ Finish(k, "ok") /\ req[k].held \in Nat
    BY <1>3, <1>w DEF ServeLogout, BoundCalls
  <2>2. signIn' \in Seq(BoundSignIns) /\ Len(signIn') = Len(signIn)
    BY <1>0, <1>3, <2>1, EndingKeepsSessions DEF ServeLogout
  <2> QED BY <1>0, <1>3, <2>1, <2>2, <1>e DEF ServeLogout
<1>4. CASE WrongPassword(k)
  <2>1. req[k] # NoReq /\ Finish(k, "no")
    BY <1>4, <1>w DEF WrongPassword
  <2>2. account' \in BoundRows /\ account'.minted = account.minted
    <3>1. CASE account.failed + 1 < LockoutAfter /\ account' = [account EXCEPT !.failed = @ + 1]
      <4>1. account.failed + 1 \in 0 .. LockoutAfter
        BY <1>t, <3>1, StaffConstants
      <4> QED BY <1>0, <3>1, <4>1 DEF BoundRows
    <3>2. CASE account' = [account EXCEPT !.failed = LockoutAfter, !.status = "LOCKED"]
      <4>1. LockoutAfter \in 0 .. LockoutAfter
        BY StaffConstants
      <4> QED BY <1>0, <3>2, <4>1 DEF BoundRows
    <3> QED BY <1>4, <3>1, <3>2 DEF WrongPassword
  <2> QED BY <1>0, <1>4, <2>1, <2>2, <1>e DEF WrongPassword
<1>5. CASE RightPassword(k)
  <2>1. req[k] # NoReq /\ req[k].at = "sent"
    BY <1>5, <1>w DEF RightPassword
  <2>2. CASE Goes(k, "factor")
    BY <1>5, <2>1, <2>2, <1>g DEF RightPassword
  <2>3. CASE Finish(k, "no")
    BY <1>0, <1>5, <2>1, <2>3, <1>e DEF RightPassword
  <2> QED BY <1>5, <2>2, <2>3 DEF RightPassword
<1>6. CASE SecondFactor(k)
  <2>1. /\ req[k] # NoReq /\ req[k] \in BoundCalls /\ CallBound(req[k])
        /\ req[k].at = "factor" /\ req[k].what = "login"
    BY <1>6, <1>w DEF SecondFactor
  <2>2. UNCHANGED <<account, spent, signIn, now, token, tab>>
    BY <1>6 DEF SecondFactor
  <2>3. CASE req' = [req EXCEPT ![k].at = "open", ![k].code = NoCode]
    <3> DEFINE r == [req[k] EXCEPT !.at = "open", !.code = NoCode]
    <3>1. r \in BoundCalls /\ r.at = "open" /\ r.held = req[k].held
      BY <2>1 DEF BoundCalls, SignInStages
    <3>2. req' = [req EXCEPT ![k] = r]
      BY <1>0, <2>1, <2>3 DEF BoundCalls
    <3> HIDE DEF r
    <3>3. CallBound(r) /\ WillOpen(req[k]) /\ ~ WillMint(r)
      BY <2>1, <3>1 DEF CallBound, WillOpen, WillMint
    <3> QED BY <1>0, <2>2, <3>1, <3>2, <3>3, StaffGoesOn
  <2>4. CASE Fits(req[k].code, account.secret) /\ Goes(k, "burn")
    <3>1. req[k].code \in Digits
      BY <2>1, <2>4 DEF Fits, BoundCalls, NoCode
    <3> QED BY <2>1, <2>2, <2>4, <3>1, <1>g
  <2>5. CASE Finish(k, "code")
    BY <1>0, <2>1, <2>2, <2>5, <1>e
  <2> QED BY <1>6, <2>3, <2>4, <2>5 DEF SecondFactor
<1>7. CASE Burn(k)
  <2>1. /\ req[k] # NoReq /\ req[k] \in BoundCalls /\ CallBound(req[k])
        /\ req[k].at = "burn" /\ req[k].what = "login" /\ req[k].code \in Digits
    BY <1>7, <1>w DEF Burn, CallBound
  <2>2. UNCHANGED <<account, signIn, now, token, tab>>
    BY <1>7 DEF Burn
  <2>3. CASE Finish(k, "code") /\ spent' = spent
    BY <1>0, <2>1, <2>2, <2>3, <1>e
  <2>4. CASE spent' = spent \cup {<<req[k].code, now>>} /\ Burnt(k)
    <3> DEFINE r == [req[k] EXCEPT !.at = "open", !.step = now]
    <3>1. r \in BoundCalls /\ r.at = "open" /\ r.held = req[k].held
      BY <1>0, <2>1 DEF BoundCalls, SignInStages
    <3>2. req' = [req EXCEPT ![k] = r]
      BY <1>0, <2>1, <2>4 DEF BoundCalls, Burnt
    <3>3. spent' \subseteq Digits \X (0 .. MaxStep)
      BY <1>0, <2>1, <2>4
    <3> HIDE DEF r
    <3>4. CallBound(r) /\ WillOpen(req[k]) /\ ~ WillMint(r)
      BY <2>1, <3>1 DEF CallBound, WillOpen, WillMint
    <3> QED BY <1>0, <2>2, <3>1, <3>2, <3>3, <3>4, StaffGoesOn
  <2> QED BY <1>7, <2>3, <2>4 DEF Burn
<1>8. CASE OpenSession(k)
  <2>1. /\ req[k] # NoReq /\ req[k] \in BoundCalls /\ CallBound(req[k])
        /\ req[k].at = "open" /\ req[k].what = "login"
    BY <1>8, <1>w DEF OpenSession
  <2> DEFINE s == [live |-> TRUE, code |-> req[k].code, step |-> req[k].step]
  <2>2. s \in BoundSignIns
    BY <2>1 DEF BoundSignIns, BoundCalls
  <2>3. signIn' = Append(signIn, s) /\ UNCHANGED <<spent, now, token, tab>>
    BY <1>8 DEF OpenSession
  <2> HIDE DEF s
  <2>4. signIn' \in Seq(BoundSignIns) /\ Len(signIn') = Len(signIn) + 1
    BY <1>0, <2>2, <2>3, AppendProperties
  <2>5. WillOpen(req[k]) /\ k \in ToOpen
    BY <2>1 DEF WillOpen, ToOpen
  <2>6. Len(signIn) + 1 <= MaxSignIns
    <3>1. IsFiniteSet(ToOpen) /\ Cardinality(ToOpen) \in Nat /\ Cardinality(ToOpen) # 0
      BY <2>5, StaffConstants, FS_Subset, FS_CardinalityType, FS_EmptySet DEF ToOpen
    <3> QED BY <1>0, <3>1, StaffConstants DEF StaffBound
  <2>7. \E r \in BoundCalls : /\ req' = [req EXCEPT ![k] = r] /\ r.held <= Len(signIn')
                              /\ r.at # "burn" /\ ~ WillOpen(r) /\ ~ WillMint(r)
    <3>1. CASE Finish(k, "no")
      <4>1. PICK r \in BoundCalls : /\ req' = [req EXCEPT ![k] = r] /\ CallBound(r)
                                    /\ ~ WillOpen(r) /\ ~ WillMint(r)
                                    /\ r.at # "burn"
        BY <2>1, <3>1, EndedCall
      <4>2. r.held \in Nat
        BY DEF BoundCalls
      <4>3. r.held <= Len(signIn')
        BY <1>0, <2>4, <4>1, <4>2 DEF CallBound
      <4> QED BY <4>1, <4>3
    <3>2. CASE req' = [req EXCEPT ![k].at = "ok", ![k].held = Len(signIn'),
                                  ![k].code = NoCode, ![k].step = 0]
      <4> DEFINE r == [req[k] EXCEPT !.at = "ok", !.held = Len(signIn'), !.code = NoCode, !.step = 0]
      <4>1. Len(signIn') \in 0 .. MaxSignIns /\ 0 \in 0 .. MaxStep
        BY <1>0, <2>4, <2>6, StaffConstants
      <4>2. r \in BoundCalls /\ r.at = "ok" /\ r.held = Len(signIn')
        BY <2>1, <4>1 DEF BoundCalls, SignInStages
      <4>3. req' = [req EXCEPT ![k] = r]
        BY <1>0, <2>1, <3>2 DEF BoundCalls
      <4> HIDE DEF r
      <4>4. r.held <= Len(signIn') /\ r.at # "burn" /\ ~ WillOpen(r) /\ ~ WillMint(r)
        BY <4>1, <4>2 DEF WillOpen, WillMint
      <4> QED BY <4>2, <4>3, <4>4
    <3> QED BY <1>8, <3>1, <3>2 DEF OpenSession
  <2>8. account' \in BoundRows /\ account'.minted = account.minted
    <3>1. account' = [account EXCEPT !.failed = 0] /\ 0 \in 0 .. LockoutAfter
      BY <1>8, StaffConstants DEF OpenSession
    <3> QED BY <1>0, <3>1 DEF BoundRows
  <2>9. PICK r \in BoundCalls : /\ req' = [req EXCEPT ![k] = r] /\ r.held <= Len(signIn')
                                /\ r.at # "burn" /\ ~ WillOpen(r) /\ ~ WillMint(r)
    BY <2>7
  <2>10. /\ spent' \subseteq Digits \X (0 .. MaxStep) /\ now' \in 0 .. MaxStep
         /\ token' \in 0 .. Len(signIn') /\ tab' \in [Tabs -> BoundTabs]
         /\ Len(signIn) <= Len(signIn')
    BY <1>0, <2>3, <2>4
  <2> QED BY <2>4, <2>5, <2>8, <2>9, <2>10, StaffMoves
<1>9. CASE BeginSetup(k)
  <2>1. req[k] # NoReq /\ req[k].at = "sent"
    BY <1>9, <1>w DEF BeginSetup
  <2>2. CASE Goes(k, "mint")
    BY <1>9, <2>1, <2>2, <1>g DEF BeginSetup
  <2>3. CASE Finish(k, "no")
    BY <1>0, <1>9, <2>1, <2>3, <1>e DEF BeginSetup
  <2> QED BY <1>9, <2>2, <2>3 DEF BeginSetup
<1>10. CASE WriteSecret(k)
  <2>1. /\ req[k] \in BoundCalls /\ req[k].at = "mint" /\ req[k].what = "setup"
        /\ UNCHANGED <<spent, signIn, now, token, tab>>
    BY <1>10, <1>w DEF WriteSecret
  <2>2. WillMint(req[k]) /\ k \in ToMint
    BY <2>1 DEF WillMint, ToMint
  <2>3. account.minted + 1 \in 0 .. MaxSecrets
    <3>1. IsFiniteSet(ToMint) /\ Cardinality(ToMint) \in Nat /\ Cardinality(ToMint) # 0
      BY <2>2, StaffConstants, FS_Subset, FS_CardinalityType, FS_EmptySet DEF ToMint
    <3>2. account.minted \in Nat /\ account.minted + Cardinality(ToMint) <= MaxSecrets
      BY <1>t DEF StaffBound
    <3> QED BY <3>1, <3>2, StaffConstants
  <2>4. account' = [account EXCEPT !.secret = account.minted + 1, !.minted = account.minted + 1]
    BY <1>0, <1>10 DEF WriteSecret, BoundRows
  <2>5. /\ account' \in BoundRows /\ account'.minted = account.minted + 1
        /\ account'.secret = account.minted + 1
    BY <1>0, <2>3, <2>4 DEF BoundRows
  <2> DEFINE c == [secret |-> account'.secret, step |-> 0]
             r == [req[k] EXCEPT !.at = "ok", !.held = 0, !.code = c]
  <2>6. c \in Digits
    BY <2>3, <2>5, StaffConstants DEF Digits
  <2>7. req' = [req EXCEPT ![k] = r]
    BY <1>0, <1>10, <2>1 DEF WriteSecret, BoundCalls
  <2> HIDE DEF c
  <2>8. r \in BoundCalls /\ r.at = "ok" /\ r.held = 0
    <3>1. 0 \in 0 .. MaxSignIns /\ c \in Digits \cup {NoCode}
      BY <2>6, StaffConstants
    <3> QED BY <2>1, <3>1 DEF BoundCalls, SignInStages
  <2> HIDE DEF r
  <2>9. r.held <= Len(signIn') /\ r.at # "burn" /\ ~ WillOpen(r) /\ ~ WillMint(r)
    BY <1>0, <2>1, <2>8 DEF WillOpen, WillMint
  <2>10. /\ spent' \subseteq Digits \X (0 .. MaxStep) /\ signIn' \in Seq(BoundSignIns)
         /\ now' \in 0 .. MaxStep /\ token' \in 0 .. Len(signIn') /\ tab' \in [Tabs -> BoundTabs]
         /\ Len(signIn) = Len(signIn') /\ Len(signIn) <= Len(signIn')
    BY <1>0, <2>1
  <2> QED BY <2>2, <2>5, <2>7, <2>8, <2>9, <2>10, StaffMoves
<1>11. CASE CheckCode(k)
  <2>1. req[k] # NoReq
    BY <1>11, <1>w DEF CheckCode
  <2>2. CASE Goes(k, "commit")
    BY <1>11, <2>1, <2>2, <1>g DEF CheckCode
  <2>3. CASE Finish(k, "no")
    BY <1>0, <1>11, <2>1, <2>3, <1>e DEF CheckCode
  <2> QED BY <1>11, <2>2, <2>3 DEF CheckCode
<1>12. CASE SwitchOn(k) \/ SwitchOff(k)
  <2>1. req[k] # NoReq /\ Finish(k, "ok")
    BY <1>12, <1>w DEF SwitchOn, SwitchOff
  <2>2. account' \in BoundRows /\ account'.minted = account.minted
    <3>1. 0 \in 0 .. MaxSecrets
      BY StaffConstants
    <3>2. CASE account' = [account EXCEPT !.on = TRUE]
      BY <1>0, <3>2 DEF BoundRows
    <3>3. CASE account' = [account EXCEPT !.on = FALSE, !.secret = 0]
      BY <1>0, <3>1, <3>3 DEF BoundRows
    <3> QED BY <1>12, <3>2, <3>3 DEF SwitchOn, SwitchOff
  <2> QED BY <1>0, <1>12, <2>1, <2>2, <1>e DEF SwitchOn, SwitchOff
<1> QED BY <1>1, <1>2, <1>3, <1>4, <1>5, <1>6, <1>7, <1>8, <1>9, <1>10, <1>11, <1>12 DEF StaffServes

\* A tab that shows something else, and asks for what makes nothing, or asks no more.
LEMMA ShownStaysBound ==
    ASSUME StaffBound, NEW k \in Tabs, NEW t \in BoundTabs, NEW r \in {NoReq} \cup BoundCalls,
           Shows(k, t, r), r # NoReq => r.at = "sent" /\ r.what = "me" /\ r.held <= Len(signIn),
           token' \in 0 .. Len(signIn), UNCHANGED <<account, spent, signIn, now>>
    PROVE  StaffBound'
<1>1. /\ account' \in BoundRows /\ account'.minted = account.minted
      /\ spent' \subseteq Digits \X (0 .. MaxStep) /\ signIn' \in Seq(BoundSignIns)
      /\ Len(signIn') = Len(signIn) /\ now' = now
  BY StaffTypesSplit DEF StaffBound
<1>2. tab' \in [Tabs -> BoundTabs] /\ req' = [req EXCEPT ![k] = r]
  BY StaffTypesSplit DEF StaffBound, Shows
<1>3. ~ WillOpen(r) /\ ~ WillMint(r) /\ (r # NoReq => CallBound(r))
  BY DEF WillOpen, WillMint, CallBound, NoReq
<1> QED BY <1>1, <1>2, <1>3, StaffGoesOn

LEMMA BoundTabsMade ==
    ASSUME StaffBound, NEW k \in Tabs
    PROVE  /\ tab[k] \in BoundTabs
           /\ SignIn \in BoundTabs
           /\ \A p \in Places : [SignIn EXCEPT !.to = p] \in BoundTabs /\ At(p) \in BoundTabs
           /\ tab[k].to \in Places /\ tab[k].setup \in 0 .. MaxSecrets
           /\ [tab[k] EXCEPT !.needCode = TRUE] \in BoundTabs
           /\ \A n \in 0 .. MaxSecrets : [tab[k] EXCEPT !.setup = n] \in BoundTabs
           /\ \A a \in {"open", "denied"}, on \in BOOLEAN : [tab[k] EXCEPT !.at = a, !.on = on] \in BoundTabs
<1>1. tab[k] \in BoundTabs /\ 0 \in 0 .. MaxSecrets
  BY StaffTypesSplit, StaffConstants DEF StaffBound
<1>2. tab[k].to \in Places /\ tab[k].setup \in 0 .. MaxSecrets /\ SignIn \in BoundTabs
  BY <1>1 DEF BoundTabs, SignIn, Places
<1>3. ASSUME NEW p \in Places
      PROVE  [SignIn EXCEPT !.to = p] \in BoundTabs /\ At(p) \in BoundTabs
  BY <1>1 DEF BoundTabs, SignIn, At
<1>4. [tab[k] EXCEPT !.needCode = TRUE] \in BoundTabs
  BY <1>1 DEF BoundTabs
<1>5. ASSUME NEW n \in 0 .. MaxSecrets PROVE [tab[k] EXCEPT !.setup = n] \in BoundTabs
  BY <1>1 DEF BoundTabs
<1>6. ASSUME NEW a \in {"open", "denied"}, NEW on \in BOOLEAN
      PROVE  [tab[k] EXCEPT !.at = a, !.on = on] \in BoundTabs
  BY <1>1 DEF BoundTabs
<1> QED BY <1>1, <1>2, <1>3, <1>4, <1>5, <1>6

LEMMA StaffAnswersBound ==
    ASSUME StaffBound, NEW k \in Tabs, StaffAnswers(k)
    PROVE  StaffBound'
<1>0. /\ token \in 0 .. Len(signIn) /\ Len(signIn) \in Nat /\ Len(signIn) <= MaxSignIns
      /\ 0 \in 0 .. Len(signIn) /\ req \in [Tabs -> {NoReq} \cup BoundCalls]
  BY StaffTypesSplit, LenProperties DEF StaffBound
<1>w. ASSUME NEW stage, NEW what, Waits(k, stage, what), stage # "idle"
      PROVE  req[k] \in BoundCalls /\ CallBound(req[k])
  BY <1>0, <1>w DEF Waits, NoReq, StaffBound
<1>a. ASSUME NEW n \in 0 .. Len(signIn)
      PROVE  LET r == Call("me", n, NoCode)
             IN  r \in BoundCalls /\ r.at = "sent" /\ r.what = "me" /\ r.held <= Len(signIn)
  <2>1. n \in 0 .. MaxSignIns /\ "me" \in StaffAsk /\ NoCode \in Digits \cup {NoCode}
    BY <1>0, StaffConstants DEF StaffAsk
  <2> QED BY <2>1, BoundCallsMade
<1>1. CASE Entered(k)
  <2>1. req[k].sees \in BOOLEAN
    BY <1>1, <1>w DEF Entered, BoundCalls
  <2> DEFINE a == IF Opens(tab[k].to) THEN "open" ELSE "denied"
             on == req[k].sees /\ tab[k].to = Switcher
  <2>2. a \in {"open", "denied"} /\ on \in BOOLEAN
    BY <2>1
  <2>3. Shows(k, [tab[k] EXCEPT !.at = a, !.on = on], NoReq)
    BY <1>1 DEF Entered
  <2> HIDE DEF a, on
  <2>4. [tab[k] EXCEPT !.at = a, !.on = on] \in BoundTabs
    BY <2>2, BoundTabsMade
  <2> QED BY <1>0, <1>1, <2>3, <2>4, ShownStaysBound DEF Entered
<1>2. CASE SentAway(k)
  BY <1>0, <1>2, BoundTabsMade, ShownStaysBound DEF SentAway
<1>3. CASE Unreachable(k)
  <2> DEFINE t == IF tab[k].at = "boot" THEN [SignIn EXCEPT !.to = tab[k].to] ELSE tab[k]
  <2>1. t \in BoundTabs
    BY BoundTabsMade
  <2>2. Shows(k, t, NoReq)
    BY <1>3 DEF Unreachable
  <2> HIDE DEF t
  <2> QED BY <1>0, <1>3, <2>1, <2>2, ShownStaysBound DEF Unreachable
<1>4. CASE SignedInAs(k)
  <2>1. req[k].held \in 0 .. Len(signIn)
    BY <1>0, <1>4, <1>w DEF SignedInAs, BoundCalls, CallBound
  <2>2. At(tab[k].to) \in BoundTabs
    BY BoundTabsMade
  <2> DEFINE r == Call("me", req[k].held, NoCode)
  <2>3. token' \in 0 .. Len(signIn) /\ Shows(k, At(tab[k].to), r)
    BY <1>4, <2>1 DEF SignedInAs
  <2>4. r \in BoundCalls /\ r.at = "sent" /\ r.what = "me" /\ r.held <= Len(signIn)
    BY <1>a, <2>1
  <2>5. UNCHANGED <<account, spent, signIn, now>>
    BY <1>4 DEF SignedInAs
  <2> HIDE DEF r
  <2> QED BY <2>2, <2>3, <2>4, <2>5, ShownStaysBound
<1>5. CASE AskedForCode(k)
  BY <1>0, <1>5, BoundTabsMade, ShownStaysBound DEF AskedForCode
<1>6. CASE Told(k)
  BY <1>0, <1>6, BoundTabsMade, ShownStaysBound DEF Told
<1>7. CASE StaffSignedOut(k)
  BY <1>0, <1>7, BoundTabsMade, ShownStaysBound DEF StaffSignedOut
<1>8. CASE SecretShown(k)
  <2>1. req[k].code.secret \in 0 .. MaxSecrets
    <3>1. req[k].code \in Digits \cup {NoCode}
      BY <1>8, <1>w DEF SecretShown, BoundCalls
    <3> QED BY <3>1, StaffConstants DEF Digits, NoCode
  <2>2. [tab[k] EXCEPT !.setup = req[k].code.secret] \in BoundTabs
    BY <2>1, BoundTabsMade
  <2> QED BY <1>0, <1>8, <2>2, ShownStaysBound DEF SecretShown
<1>9. CASE Turned(k)
  <2> DEFINE n == IF req[k].what = "enable" THEN 0 ELSE tab[k].setup
             r == Call("me", token, NoCode)
  <2>1. n \in 0 .. MaxSecrets
    <3>1. 0 \in 0 .. MaxSecrets
      BY StaffConstants
    <3>2. tab[k].setup \in 0 .. MaxSecrets
      BY BoundTabsMade
    <3> QED BY <3>1, <3>2
  <2>2. Shows(k, [tab[k] EXCEPT !.setup = n], r) /\ UNCHANGED <<account, spent, signIn, now, token>>
    BY <1>9 DEF Turned, Asks
  <2>3. r \in BoundCalls /\ r.at = "sent" /\ r.what = "me" /\ r.held <= Len(signIn)
    BY <1>0, <1>a
  <2> HIDE DEF n, r
  <2>4. [tab[k] EXCEPT !.setup = n] \in BoundTabs
    BY <2>1, BoundTabsMade
  <2> QED BY <1>0, <2>2, <2>3, <2>4, ShownStaysBound
<1> QED BY <1>1, <1>2, <1>3, <1>4, <1>5, <1>6, <1>7, <1>8, <1>9 DEF StaffAnswers

\* A tab at rest asks.  What it asks for has room, or makes nothing.
LEMMA AskingStaysBound ==
    ASSUME StaffBound, NEW k \in Tabs, NEW what \in StaffAsk, NEW seen \in 0 .. Len(signIn),
           NEW c \in Digits \cup {NoCode}, req' = [req EXCEPT ![k] = Call(what, seen, c)],
           what = "login" => Len(signIn) + Out("login") < MaxSignIns,
           what = "setup" => account.minted + Out("setup") < MaxSecrets,
           UNCHANGED <<account, spent, signIn, now, token, tab>>
    PROVE  StaffBound'
<1> DEFINE r == Call(what, seen, c)
<1>1. /\ Len(signIn) \in Nat /\ Len(signIn) <= MaxSignIns
      /\ signIn \in Seq(BoundSignIns) /\ account \in BoundRows /\ spent \subseteq Digits \X (0 .. MaxStep)
      /\ now \in 0 .. MaxStep /\ token \in 0 .. Len(signIn) /\ tab \in [Tabs -> BoundTabs]
  BY StaffTypesSplit, LenProperties DEF StaffBound
<1>2. seen \in 0 .. MaxSignIns
  BY <1>1, StaffConstants
<1>3. r \in BoundCalls /\ r.at = "sent" /\ r.what = what /\ r.held = seen
  BY <1>2, BoundCallsMade
<1>4. req' = [req EXCEPT ![k] = r]
  OBVIOUS
<1> HIDE DEF r
<1>5. WillOpen(r) => what = "login"
  BY <1>3 DEF WillOpen
<1>6. WillMint(r) => what = "setup"
  BY <1>3 DEF WillMint
<1>7. /\ account' \in BoundRows /\ spent' \subseteq Digits \X (0 .. MaxStep)
      /\ signIn' \in Seq(BoundSignIns) /\ now' \in 0 .. MaxStep /\ token' \in 0 .. Len(signIn')
      /\ tab' \in [Tabs -> BoundTabs] /\ Len(signIn') = Len(signIn) /\ Len(signIn) <= Len(signIn')
      /\ account'.minted = account.minted
      /\ r.held <= Len(signIn') /\ r.at # "burn"
  BY <1>1, <1>3
<1> QED BY <1>3, <1>4, <1>5, <1>6, <1>7, StaffMoves

LEMMA StaffBoundStep ==
    ASSUME StaffBound, [StaffNext]_staffVars
    PROVE  StaffBound'
<1>0. /\ account \in BoundRows /\ spent \subseteq Digits \X (0 .. MaxStep)
      /\ signIn \in Seq(BoundSignIns) /\ Len(signIn) <= MaxSignIns /\ Len(signIn) \in Nat
      /\ now \in 0 .. MaxStep /\ token \in 0 .. Len(signIn) /\ 0 \in 0 .. Len(signIn)
      /\ tab \in [Tabs -> BoundTabs] /\ req \in [Tabs -> {NoReq} \cup BoundCalls]
  BY StaffTypesSplit, LenProperties DEF StaffBound
<1>t. Typed \subseteq Digits
  <2>1. account.minted \in 0 .. MaxSecrets /\ 0 \in 0 .. MaxSecrets /\ 0 \in 0 .. MaxStep
    BY <1>0, StaffConstants DEF BoundRows
  <2>2. 1 .. account.minted \subseteq 0 .. MaxSecrets /\ 0 .. now \subseteq 0 .. MaxStep
    BY <1>0, <2>1, StaffConstants
  <2> QED BY <2>1, <2>2 DEF Typed, Digits
<1>1. ASSUME NEW k \in Tabs, StaffServes(k)
      PROVE  StaffBound'
  BY <1>1, StaffServesBound
<1>2. ASSUME NEW k \in Tabs, StaffAnswers(k)
      PROVE  StaffBound'
  BY <1>2, StaffAnswersBound
<1>3. ASSUME NEW k \in Tabs, Submit(k)
      PROVE  StaffBound'
  <2>1. PICK code \in Typed \cup {NoCode} : req' = [req EXCEPT ![k] = Call("login", 0, code)]
    BY <1>3 DEF Submit
  <2>2. code \in Digits \cup {NoCode} /\ "login" \in StaffAsk
    BY <1>t, <2>1 DEF StaffAsk
  <2>3. /\ Len(signIn) + Out("login") < MaxSignIns
        /\ UNCHANGED <<account, spent, signIn, now, token, tab>>
    BY <1>3 DEF Submit
  <2> QED BY <1>0, <2>1, <2>2, <2>3, AskingStaysBound
<1>4. ASSUME NEW k \in Tabs, SignOut(k) \/ SetUp(k)
      PROVE  StaffBound'
  <2>1. PICK what \in {"logout", "setup"} :
            /\ req' = [req EXCEPT ![k] = Call(what, token, NoCode)]
            /\ what = "setup" => account.minted + Out("setup") < MaxSecrets
    BY <1>4 DEF SignOut, SetUp, Asks
  <2>2. UNCHANGED <<account, spent, signIn, now, token, tab>> /\ what \in StaffAsk
    BY <1>4, <2>1 DEF SignOut, SetUp, StaffAsk
  <2> QED BY <1>0, <2>1, <2>2, AskingStaysBound
<1>5. ASSUME NEW k \in Tabs, NEW place \in Places, Enter(k, place)
      PROVE  StaffBound'
  <2> DEFINE r == Call("me", token, NoCode)
  <2>1. r \in BoundCalls /\ r.at = "sent" /\ r.what = "me" /\ r.held <= Len(signIn)
    <3>1. token \in 0 .. MaxSignIns /\ "me" \in StaffAsk
      BY <1>0, StaffConstants DEF StaffAsk
    <3> QED BY <1>0, <3>1, BoundCallsMade
  <2>2. [SignIn EXCEPT !.to = place] \in BoundTabs /\ At(place) \in BoundTabs
    BY BoundTabsMade
  <2>3. /\ UNCHANGED <<account, spent, signIn, now, token>>
        /\ Shows(k, [SignIn EXCEPT !.to = place], NoReq) \/ Shows(k, At(place), r)
    BY <1>5 DEF Enter, Asks
  <2> HIDE DEF r
  <2>4. CASE Shows(k, [SignIn EXCEPT !.to = place], NoReq)
    BY <1>0, <2>2, <2>3, <2>4, ShownStaysBound
  <2>5. CASE Shows(k, At(place), r)
    BY <1>0, <2>1, <2>2, <2>3, <2>5, ShownStaysBound
  <2> QED BY <2>3, <2>4, <2>5
<1>6. ASSUME NEW k \in Tabs, NEW code \in Typed, TurnOn(k, code) \/ TurnOff(k, code)
      PROVE  StaffBound'
  <2>1. PICK what \in {"enable", "disable"} : req' = [req EXCEPT ![k] = Call(what, token, code)]
    BY <1>6 DEF TurnOn, TurnOff
  <2>2. UNCHANGED <<account, spent, signIn, now, token, tab>> /\ what \in StaffAsk
        /\ what \notin {"login", "setup"} /\ code \in Digits \cup {NoCode}
    BY <1>6, <1>t, <2>1 DEF TurnOn, TurnOff, StaffAsk
  <2> QED BY <1>0, <2>1, <2>2, AskingStaysBound
<1>s. ASSUME UNCHANGED <<account, req>>, spent' \subseteq Digits \X (0 .. MaxStep),
             signIn' \in Seq(BoundSignIns), Len(signIn') = Len(signIn), now' \in 0 .. MaxStep,
             token' = token, tab' = tab
      PROVE  StaffBound'
  <2>1. StaffTypeOK'
    BY <1>0, <1>s DEF StaffTypeOK, BoundRows, BoundSignIns, BoundTabs, BoundCalls, SignInStages, StaffAsk
  <2> QED BY <1>s, <2>1 DEF StaffBound, CallBound, ToOpen, ToMint, WillOpen, WillMint
<1>7. ASSUME NEW g \in DOMAIN signIn, SessionEnds(g)
      PROVE  StaffBound'
  <2>1. g \in Nat
    BY <1>0, LenProperties
  <2>2. signIn' \in Seq(BoundSignIns) /\ Len(signIn') = Len(signIn)
    BY <1>0, <1>7, <2>1, EndingKeepsSessions DEF SessionEnds
  <2> QED BY <1>0, <1>7, <2>2, <1>s DEF SessionEnds
<1>8. CASE Tick
  <2>1. now' \in 0 .. MaxStep
    BY <1>0, <1>8, StaffConstants DEF Tick
  <2> QED BY <1>0, <1>8, <2>1, <1>s DEF Tick
<1>9. CASE UNCHANGED staffVars
  BY <1>0, <1>9, <1>s DEF staffVars
<1> QED BY <1>1, <1>2, <1>3, <1>4, <1>5, <1>6, <1>7, <1>8, <1>9 DEF StaffNext

\* The state has its type.  That there are no more sessions and secrets than the bounds
\* allow rests on the room that is left for every sign-in and setup under way.
THEOREM StaffTypes == StaffSpec => []StaffTypeOK
<1>1. StaffInit => StaffBound
  BY StaffBoundInit
<1>2. StaffBound /\ [StaffNext]_staffVars => StaffBound'
  BY StaffBoundStep
<1>3. StaffBound => StaffTypeOK
  BY DEF StaffBound
<1> QED BY <1>1, <1>2, <1>3, PTL DEF StaffSpec

-----------------------------------------------------------------------------
(* Finance                                                                  *)

\* However many operators, agents, clerks and members of the staff there are, settlements,
\* wallets and sign-ins keep their types: FinanceTypeOK.
THEOREM FinanceTypes == FinanceSpec => []FinanceTypeOK
BY SettlementTypes, AgentTypes, StaffTypes, PTL DEF FinanceSpec, FinanceTypeOK
=============================================================================
