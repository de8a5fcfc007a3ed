---------------------------- MODULE BookingProofs ----------------------------
(***************************************************************************)
(* The theorems about Booking, for every trip, every set of holds,          *)
(* bookings, payment references and workers, every fare and every tier,     *)
(* and about the journals Ledger posts, for every amount of money.          *)
(***************************************************************************)
EXTENDS Booking, DataProofs, TLAPS

Seated == INSTANCE InventoryProofs

-----------------------------------------------------------------------------
(* What the postings of Ledger do                                           *)

\* Booking an amount on a journal keeps it a journal and moves the variance
\* by exactly the variance of what is posted.
LEMMA PostedVariance ==
    ASSUME NEW l \in Journals, NEW j \in Journals
    PROVE  /\ Posted(l, j) \in Journals
           /\ Variance(Posted(l, j)) = Variance(l) + Variance(j)
BY DEF Posted, Journals, Variance, Accounts

\* Rounding never unbalances an online sale: whatever the gross, the debits
\* of GatewayPostings equal its credits, so assert_journal_balanced cannot
\* reject the ticketing transaction of a customer who has paid.
THEOREM GatewayBalances ==
    ASSUME NEW gross \in Int
    PROVE  /\ GatewayPostings(gross) \in Journals
           /\ Variance(GatewayPostings(gross)) = 0
<1>1. ServiceFee \in Int
  BY LedgerConstants
<1>2. /\ GatewayFee(gross) \in Int
      /\ OperatorShare(gross) \in Int
      /\ PlatformShare(gross) \in Int
      /\ OperatorShare(gross) + PlatformShare(gross) = gross
  BY <1>1 DEF GatewayFee, OperatorShare, PlatformShare, Commission
<1> QED
  BY <1>2 DEF GatewayPostings, EmptyJournal, Journals, Accounts, Variance

\* A reschedule balances for every pair of totals, in both directions.
THEOREM RescheduleBalances ==
    ASSUME NEW old \in Int, NEW new \in Int
    PROVE  /\ ReschedulePostings(old, new) \in Journals
           /\ Variance(ReschedulePostings(old, new)) = 0
<1>1. ServiceFee \in Int
  BY LedgerConstants
<1>2. \A t \in Int : /\ OperatorShare(t) \in Int
                     /\ PlatformShare(t) \in Int
                     /\ OperatorShare(t) + PlatformShare(t) = t
  BY <1>1 DEF OperatorShare, PlatformShare, Commission
<1>3. /\ OperatorShare(old) \in Int /\ PlatformShare(old) \in Int
      /\ OperatorShare(new) \in Int /\ PlatformShare(new) \in Int
      /\ OperatorShare(old) + PlatformShare(old) = old
      /\ OperatorShare(new) + PlatformShare(new) = new
  BY <1>2
<1>4. CASE new > old
  BY <1>3, <1>4 DEF ReschedulePostings, EmptyJournal, Journals, Accounts, Variance
<1>5. CASE new < old
  BY <1>3, <1>5 DEF ReschedulePostings, EmptyJournal, Journals, Accounts, Variance
<1>6. CASE new = old
  BY <1>3, <1>6 DEF ReschedulePostings, EmptyJournal, Journals, Accounts, Variance
<1> QED
  BY <1>4, <1>5, <1>6

\* The postings of a sale never have a negative line, which the CHECK on
\* ledger_entries.amount_poisha would refuse: provided the total covers the
\* service fee.
THEOREM SplitsAreNonNegative ==
    ASSUME NEW total \in Nat, total >= ServiceFee
    PROVE  /\ OperatorShare(total) \in Nat
           /\ PlatformShare(total) \in Nat
           /\ total - GatewayFee(total) \in Nat
<1>1. ServiceFee \in Nat
  BY LedgerConstants
<1>2. /\ Commission(total) \in Nat
      /\ Commission(total) <= total - ServiceFee
  BY <1>1 DEF Commission
<1>3. /\ GatewayFee(total) \in Nat
      /\ GatewayFee(total) <= total
  BY DEF GatewayFee
<1> QED
  BY <1>1, <1>2, <1>3 DEF OperatorShare, PlatformShare


-----------------------------------------------------------------------------
(* What a journal changes in the revenue shown, the credits of the operator *)
(* and of the platform                                                      *)

Earned(j) == -(j["2101"] + j["4101"])

LEMMA PostedEarned ==
    ASSUME NEW l \in Journals, NEW j \in Journals
    PROVE  Earned(l) \in Int /\ Earned(Posted(l, j)) = Earned(l) + Earned(j)
BY DEF Posted, Journals, Earned, Accounts

\* A sale earns what was paid, a changed departure the change of price.
LEMMA SaleEarns ==
    ASSUME NEW gross \in Int, NEW old \in Int
    PROVE  /\ Earned(GatewayPostings(gross)) = gross
           /\ Earned(ReschedulePostings(old, gross)) = gross - old
<1>1. ServiceFee \in Int
  BY LedgerConstants
<1>2. /\ OperatorShare(gross) \in Int /\ PlatformShare(gross) \in Int
      /\ OperatorShare(gross) + PlatformShare(gross) = gross
      /\ OperatorShare(old) \in Int /\ PlatformShare(old) \in Int
      /\ OperatorShare(old) + PlatformShare(old) = old
  BY <1>1 DEF OperatorShare, PlatformShare, Commission
<1>3. Earned(GatewayPostings(gross)) = gross
  BY <1>2 DEF GatewayPostings, EmptyJournal, Accounts, Earned
<1>4. Earned(ReschedulePostings(old, gross)) = gross - old
  BY <1>2 DEF ReschedulePostings, EmptyJournal, Accounts, Earned
<1> QED BY <1>3, <1>4

\* A cancellation balances and gives back exactly the refund granted, in whatever
\* proportion the rounding divides it between operator and platform.
THEOREM CancellationBalances ==
    ASSUME NEW gross \in Int, gross > 0, NEW refund \in Int
    PROVE  /\ CancellationPostings(gross, refund) \in Journals
           /\ Variance(CancellationPostings(gross, refund)) = 0
           /\ Earned(CancellationPostings(gross, refund)) = -refund
<1> DEFINE part == (refund * OperatorShare(gross)) \div gross
<1>1. OperatorShare(gross) \in Int
  <2>1. ServiceFee \in Int
    BY LedgerConstants
  <2> QED BY <2>1 DEF OperatorShare, Commission
<1>2. part \in Int
  <2>1. refund * OperatorShare(gross) \in Int
    BY <1>1
  <2> QED BY <2>1
<1>3. CancellationPostings(gross, refund) =
         [EmptyJournal EXCEPT !["2101"] = part, !["4101"] = refund - part, !["2201"] = -refund]
  BY DEF CancellationPostings
<1> HIDE DEF part
<1> QED BY <1>2, <1>3 DEF EmptyJournal, Journals, Accounts, Variance, Earned

\* Paying a refund out balances and leaves the revenue alone.
THEOREM PayingOutBalances ==
    ASSUME NEW amount \in Int
    PROVE  /\ RefundPostings(amount) \in Journals
           /\ Variance(RefundPostings(amount)) = 0
           /\ Earned(RefundPostings(amount)) = 0
BY DEF RefundPostings, EmptyJournal, Journals, Accounts, Variance, Earned

-----------------------------------------------------------------------------
(* The inductive invariant: what a row and a worker's memory vouch for      *)

Known(b)  == booking[b].status # "NONE"
Issued(b) == ticket[b] # "NONE"

\* The steps of a cancellation, of a reschedule, and of one whose new booking exists.
Cancelling   == {"quoted", "unseated"}
Rebooked     == {"rebooked", "retired", "voided"}
Rescheduling == {"moving", "reheld", "vacated", "linked"} \cup Rebooked

\* A booking has a hold that exists, and a ticket once it has left PAYMENT_PENDING; what
\* it replaces had a ticket.
RowSound(b) ==
    /\ ~Known(b) => booking[b] = NoBooking
    /\ Known(b) => booking[b].hold \in Holds /\ status[booking[b].hold] # "NONE"
    /\ Issued(b) <=> booking[b].status \notin {"NONE", "PAYMENT_PENDING"}
    /\ booking[b].of # None => Issued(booking[b].of)
    /\ replaced[b] # None => Issued(replaced[b])
    /\ booking[b].due <= booking[b].total
RowsSound == \A b \in Bookings : RowSound(b)

\* What a payment reference asks for is the price of a booking, and a refund is of a
\* booking that has been cancelled.
PricesStand ==
    \A t \in DOMAIN intent : /\ Known(intent[t].booking)
                             /\ intent[t].amount = booking[intent[t].booking].total
RefundsOfCancelled == \A i \in DOMAIN refunds : Cancelled(refunds[i].booking)

\* What a worker remembers is still so, and no two of them look after one new booking.
Vouched(x) ==
    /\ x.at \in {"paid", "confirmed"} => x.txn \in payments
    /\ x.at \in Cancelling \cup Rescheduling => Issued(x.booking)
    /\ x.at \in Cancelling /\ x.refund > 0 => booking[x.booking].total > 0
    /\ x.at = "settling" => x.refund \in DOMAIN refunds
    /\ x.at \in {"reheld", "vacated"} => status[x.hold] # "NONE"
    /\ x.at \in Rebooked \cup {"linked"} => Known(x.new)
    /\ x.at \in Rebooked => booking[x.new].of = None
    /\ x.at = "linked" => /\ booking[x.new].of = x.booking
                          /\ booking[x.new].total <= booking[x.booking].total
WorkerSound(w) == Vouched(task[w])
NewBookingsApart ==
    \A v, w \in Workers :
        v # w /\ {task[v].at, task[w].at} \subseteq Rebooked \cup {"linked"}
            => task[v].new # task[w].new
WorkersSound == (\A w \in Workers : WorkerSound(w)) /\ NewBookingsApart

Sound == TypeOK /\ RowsSound /\ PricesStand /\ RefundsOfCancelled /\ WorkersSound

-----------------------------------------------------------------------------
(* The steps of the workers                                                 *)

\* What a worker at a step of a handler remembers.
LEMMA Memory ==
    ASSUME TypeOK, NEW w \in Workers
    PROVE  /\ task[w] \in Tasks
           /\ task[w].at \in {"paid", "confirmed"} =>
                 task[w] \in [at : {"paid", "confirmed"}, txn : Txns]
           /\ task[w].at \in Cancelling =>
                 task[w] \in [at : Cancelling, booking : Bookings, refund : Nat]
           /\ task[w].at = "settling" => task[w] \in [at : {"settling"}, refund : Nat]
           /\ task[w].at = "moving" => task[w] \in [at : {"moving"}, booking : Bookings]
           /\ task[w].at \in {"reheld", "vacated"} =>
                 task[w] \in [at : {"reheld", "vacated"}, booking : Bookings, hold : Holds]
           /\ task[w].at \in Rebooked \cup {"linked"} =>
                 task[w] \in [at : Rebooked \cup {"linked"}, booking : Bookings, new : Bookings]
           /\ task[w].at = "idle" => task[w] = Idle
<1>1. task[w] \in Tasks
  BY DEF TypeOK
<1> QED BY <1>1 DEF Tasks, Idle, Cancelling, Rebooked

LEMMA Stepped ==
    ASSUME TypeOK, NEW w \in Workers, NEW x \in Tasks, task' = [task EXCEPT ![w] = x]
    PROVE  /\ task' \in [Workers -> Tasks] /\ task'[w] = x
           /\ \A v \in Workers \ {w} : task'[v] = task[v]
BY DEF TypeOK

LEMMA RefundRow ==
    ASSUME TypeOK, NEW i \in DOMAIN refunds
    PROVE  refunds[i] \in Refunds /\ refunds[i].booking \in Bookings /\ refunds[i].amount \in Nat
<1>1. refunds[i] \in Refunds
  BY DEF TypeOK
<1> QED BY <1>1 DEF Refunds

\* A status moves and the rest of the bookings stays.
LEMMA StatusMoves ==
    ASSUME TypeOK, NEW b \in Bookings, NEW st \in BookingStatuses, SetStatus(b, st)
    PROVE  /\ booking' \in [Bookings -> BookingRows]
           /\ booking'[b].status = st
           /\ \A c \in Bookings :
                 /\ c # b => booking'[c] = booking[c]
                 /\ booking'[c].hold = booking[c].hold /\ booking'[c].total = booking[c].total
                 /\ booking'[c].due = booking[c].due /\ booking'[c].of = booking[c].of
<1>1. booking \in [Bookings -> BookingRows] /\ booking[b] \in BookingRows
  BY DEF TypeOK
<1>2. booking' = [booking EXCEPT ![b] = [booking[b] EXCEPT !.status = st]]
  BY DEF SetStatus
<1>3. [booking[b] EXCEPT !.status = st] \in BookingRows
  BY <1>1 DEF BookingRows
<1>4. booking' \in [Bookings -> BookingRows] /\ booking'[b] = [booking[b] EXCEPT !.status = st]
      /\ \A c \in Bookings \ {b} : booking'[c] = booking[c]
  BY <1>1, <1>2, <1>3
<1>5. /\ booking'[b].status = st /\ booking'[b].hold = booking[b].hold
      /\ booking'[b].total = booking[b].total /\ booking'[b].due = booking[b].due
      /\ booking'[b].of = booking[b].of
  BY <1>1, <1>4 DEF BookingRows
<1> QED BY <1>4, <1>5

\* A price is an amount.
LEMMA FareType ==
    ASSUME TypeOK, NEW h \in Holds
    PROVE  FareFor(items[h], mask[h]) \in Nat
<1>1. items[h] \subseteq Seats /\ mask[h] \subseteq 0 .. NumSegments - 1
  BY DEF TypeOK, Inv!TypeOK, Inv!Segments
<1>2. IsFiniteSet(0 .. NumSegments - 1)
  <2>1. 0 \in Int /\ NumSegments - 1 \in Int
    BY BookingConstants
  <2> QED BY <2>1, FS_Interval
<1> DEFINE m == Cardinality(mask[h])
           n == Cardinality(items[h])
<1>3. m \in Nat /\ n \in Nat
  BY <1>1, <1>2, BookingConstants, FS_Subset, FS_CardinalityType
<1>4. Fare \in Nat /\ ServiceFee \in Nat
  BY BookingConstants, LedgerConstants
<1>5. Fare * m * n + ServiceFee \in Nat
  <2> HIDE DEF m, n
  <2>1. Fare * m \in Nat  BY <1>3, <1>4
  <2>2. (Fare * m) * n \in Nat  BY <1>3, <2>1
  <2> QED BY <1>4, <2>2
<1> QED BY <1>5 DEF FareFor

\* A booking is made and the others stay.
LEMMA BookingMade ==
    ASSUME TypeOK, NEW b \in Bookings, NEW h \in Holds, CreateBooking(b, h)
    PROVE  /\ booking' \in [Bookings -> BookingRows] /\ ~Known(b)
           /\ booking'[b].status = "PAYMENT_PENDING" /\ booking'[b].hold = h
           /\ booking'[b].due = 0 /\ booking'[b].of = None /\ booking'[b].total \in Nat
           /\ \A c \in Bookings \ {b} : booking'[c] = booking[c]
<1> DEFINE row == [status |-> "PAYMENT_PENDING", hold |-> h,
                   total |-> FareFor(items[h], mask[h]), due |-> 0, of |-> None]
<1>1. booking \in [Bookings -> BookingRows] /\ FareFor(items[h], mask[h]) \in Nat
  BY FareType DEF TypeOK
<1>2. booking' = [booking EXCEPT ![b] = row] /\ ~Known(b)
  BY DEF CreateBooking, Known
<1>3. /\ row \in BookingRows /\ row.status = "PAYMENT_PENDING" /\ row.hold = h
      /\ row.due = 0 /\ row.of = None /\ row.total \in Nat
  BY <1>1 DEF BookingRows, BookingStatuses
<1> HIDE DEF row
<1> QED BY <1>1, <1>2, <1>3

\* The new booking is linked to the old one.
LEMMA BookingLinked ==
    ASSUME TypeOK, NEW w \in Workers, RescheduleLink(w)
    PROVE  LET o == task[w].booking
               b == task[w].new
               diff == booking[b].total - booking[o].total
           IN  /\ o \in Bookings /\ b \in Bookings
               /\ booking' \in [Bookings -> BookingRows]
               /\ booking'[b].of = o /\ booking'[b].due = (IF diff > 0 THEN diff ELSE 0)
               /\ \A c \in Bookings :
                     /\ c # b => booking'[c] = booking[c]
                     /\ booking'[c].status = booking[c].status
                     /\ booking'[c].hold = booking[c].hold /\ booking'[c].total = booking[c].total
<1> DEFINE o == task[w].booking
           b == task[w].new
           diff == booking[b].total - booking[o].total
           due == IF diff > 0 THEN diff ELSE 0
           row == [booking[b] EXCEPT !.of = o, !.due = due]
<1>1. o \in Bookings /\ b \in Bookings
  BY Memory DEF RescheduleLink, At, Rebooked
<1>2. booking \in [Bookings -> BookingRows] /\ booking[b] \in BookingRows /\ booking[o] \in BookingRows
  BY <1>1 DEF TypeOK
<1>3. booking' = [booking EXCEPT ![b] = row]
  BY <1>1, <1>2 DEF RescheduleLink
<1>4. due \in Nat
  <2>1. booking[b].total \in Nat /\ booking[o].total \in Nat
    BY <1>2 DEF BookingRows
  <2> QED BY <2>1
<1> HIDE DEF due, diff, o, b
<1>5. /\ row \in BookingRows /\ row.of = o /\ row.due = due
      /\ row.status = booking[b].status /\ row.hold = booking[b].hold
      /\ row.total = booking[b].total
  BY <1>1, <1>2, <1>4 DEF BookingRows
<1> HIDE DEF row
<1>6. /\ booking' \in [Bookings -> BookingRows] /\ booking'[b] = row
      /\ \A c \in Bookings \ {b} : booking'[c] = booking[c]
  BY <1>1, <1>2, <1>3, <1>5
<1> QED BY <1>1, <1>5, <1>6 DEF o, b, diff, due

-----------------------------------------------------------------------------
(* Seats: what the handlers do to them is what inventory-service offers      *)

LEMMA SeatConstants == Seated!InventoryConstants
BY BookingConstants DEF Seated!InventoryConstants, Seated!IsFiniteSet, IsFiniteSet

LEMMA SameTypes == Seated!TypeOK = Inv!TypeOK /\ Seated!TypeOK' = Inv!TypeOK'
BY DEF Seated!TypeOK, Inv!TypeOK, Seated!Segments, Inv!Segments, Seated!Statuses, Inv!Statuses,
       Seated!QuotaRows, Inv!QuotaRows, Seated!Journeys, Inv!Journeys, Seated!SegmentMask,
       Inv!SegmentMask

\* The transactions Booking calls are those the theorems about Inventory are about.
LEMMA SameCalls ==
    ASSUME NEW h
    PROVE  /\ \A S, m : Inv!AcquireHold(h, S, m) => Seated!AcquireHold(h, S, m)
           /\ Inv!ConfirmHold(h) => Seated!ConfirmHold(h)
           /\ Inv!ReleaseHold(h) => Seated!ReleaseHold(h)
           /\ Inv!ReleaseConfirmed(h) => Seated!ReleaseConfirmed(h)
           /\ Inv!DeadlinePasses(h) => Seated!DeadlinePasses(h)
           /\ \A H : Inv!SweepExpired(H) => Seated!SweepExpired(H)
<1> USE DEF Seated!Set, Inv!Set, Seated!Clear, Inv!Clear, Seated!Bits, Inv!Bits
<1>1. ASSUME NEW S, NEW m, Inv!AcquireHold(h, S, m) PROVE Seated!AcquireHold(h, S, m)
  BY <1>1 DEF Seated!AcquireHold, Inv!AcquireHold, Seated!Free, Inv!Free, Seated!NewHold,
              Inv!NewHold, Seated!LogHeld, Inv!LogHeld
<1>2. Inv!ConfirmHold(h) => Seated!ConfirmHold(h)
  BY DEF Seated!ConfirmHold, Inv!ConfirmHold, Seated!LogBooked, Inv!LogBooked
<1>3. \A H, st : Inv!ReleaseBits(H, st) => Seated!ReleaseBits(H, st)
  BY DEF Seated!ReleaseBits, Inv!ReleaseBits, Seated!LogReleased, Inv!LogReleased
<1>4. Inv!ReleaseHold(h) => Seated!ReleaseHold(h)
  BY <1>3 DEF Seated!ReleaseHold, Inv!ReleaseHold
<1>5. Inv!ReleaseConfirmed(h) => Seated!ReleaseConfirmed(h)
  BY DEF Seated!ReleaseConfirmed, Inv!ReleaseConfirmed, Seated!LogReleased, Inv!LogReleased
<1>6. Inv!DeadlinePasses(h) => Seated!DeadlinePasses(h)
  BY DEF Seated!DeadlinePasses, Inv!DeadlinePasses, Seated!seatVars, Inv!seatVars,
         Seated!holdVars, Inv!holdVars, Seated!logVars, Inv!logVars
<1>7. ASSUME NEW H, Inv!SweepExpired(H) PROVE Seated!SweepExpired(H)
  <2>1. Seated!Cardinality(H) = Inv!Cardinality(H)
    BY DEF Seated!Cardinality, Inv!Cardinality
  <2> QED BY <1>3, <1>7, <2>1 DEF Seated!SweepExpired, Inv!SweepExpired
<1> QED BY <1>1, <1>2, <1>4, <1>5, <1>6, <1>7

\* The hold a booking names exists, so a call about it is one about a hold.
LEMMA HoldOf ==
    ASSUME Sound, NEW b \in Bookings, Known(b)
    PROVE  booking[b].hold \in Holds /\ status[booking[b].hold] # "NONE"
BY DEF Sound, RowsSound, RowSound

LEMMA IssuedIsKnown == ASSUME Sound, NEW b \in Bookings, Issued(b) PROVE Known(b)
BY DEF Sound, RowsSound, RowSound, Known

\* Every step leaves the seats alone or makes one of the transactions of Inventory.
LEMMA SeatsStep == Sound /\ [Next]_vars => [Seated!Next]_(Seated!vars)
<1> SUFFICES ASSUME Sound, [Next]_vars PROVE [Seated!Next]_(Seated!vars)
    OBVIOUS
<1>0. TypeOK
  BY DEF Sound
<1>1. UNCHANGED inventoryVars => UNCHANGED Seated!vars
  BY DEF inventoryVars, Seated!vars, Seated!seatVars, Seated!holdVars, Seated!logVars
<1>2. ASSUME NEW h \in Holds,
             \/ Inv!ConfirmHold(h) \/ Inv!ReleaseHold(h) \/ Inv!ReleaseConfirmed(h)
             \/ Inv!DeadlinePasses(h)
      PROVE  Seated!Next
  BY <1>2, SameCalls DEF Seated!Next
<1>3. ASSUME NEW h \in Holds, NEW S \in SUBSET Seats, NEW m \in Journeys, Inv!AcquireHold(h, S, m)
      PROVE  Seated!Next
  <2>1. m \in Seated!Journeys
    BY DEF Journeys, Inv!Journeys, Seated!Journeys, Inv!Segments, Seated!Segments,
           Inv!SegmentMask, Seated!SegmentMask
  <2> QED BY <1>3, <2>1, SameCalls DEF Seated!Next
<1>4. ASSUME NEW H \in SUBSET Holds, Inv!SweepExpired(H) PROVE Seated!Next
  BY <1>4, SameCalls DEF Seated!Next
<1>5. ASSUME SeatsMoveAlone PROVE Seated!Next
  BY <1>2, <1>4, <1>5 DEF SeatsMoveAlone
<1>6. ASSUME NEW w \in Workers, WebhookConfirm(w) PROVE [Seated!Next]_(Seated!vars)
  <2>1. task[w].txn \in payments
    BY <1>6 DEF WebhookConfirm, At, Sound, WorkersSound, WorkerSound, Vouched
  <2>2. intent[task[w].txn].booking \in Bookings /\ Known(intent[task[w].txn].booking)
    BY <2>1 DEF Sound, TypeOK, PricesStand, Intents
  <2>3. booking[intent[task[w].txn].booking].hold \in Holds
    BY <2>2, HoldOf
  <2> QED BY <1>1, <1>2, <1>6, <2>3 DEF WebhookConfirm
<1>7. ASSUME NEW w \in Workers, CancelRelease(w) \/ RescheduleVacate(w)
      PROVE  [Seated!Next]_(Seated!vars)
  <2>1. task[w].booking \in Bookings /\ Issued(task[w].booking)
    BY <1>0, <1>7, Memory
       DEF CancelRelease, RescheduleVacate, At, Cancelling, Rescheduling, Sound, WorkersSound,
           WorkerSound, Vouched
  <2>2. booking[task[w].booking].hold \in Holds
    BY <2>1, HoldOf, IssuedIsKnown
  <2> QED BY <1>1, <1>2, <1>7, <2>2 DEF CancelRelease, RescheduleVacate, GiveUpSeats
<1>8. ASSUME NEW w \in Workers, RescheduleCompensate(w) \/ RescheduleFail(w)
      PROVE  [Seated!Next]_(Seated!vars)
  <2>1. task[w].hold \in Holds
    BY <1>0, <1>8, Memory DEF RescheduleCompensate, RescheduleFail, At
  <2> QED BY <1>1, <1>2, <1>8, <2>1 DEF RescheduleCompensate, RescheduleFail, ReleaseNewHold
<1> QED
  BY <1>1, <1>3, <1>5, <1>6, <1>7, <1>8
     DEF Next, WorkerStep, vars, HoldSeats, BookHold, PaymentIntent, WebhookPay, WebhookReject,
         WebhookFinalise, CancelQuote, CancelRecord, SettleRead, SettleRefund, RescheduleRead,
         RescheduleSeatTaken, RescheduleHold, RescheduleBook, RescheduleRetire, RescheduleVoid,
         RescheduleIgnore, RescheduleLink, RescheduleSettle

\* So the seat tables stay what they are, and a hold only moves on.
LEMMA SeatTypesStep == Sound /\ [Next]_vars => Inv!TypeOK'
<1> SUFFICES ASSUME Sound, [Next]_vars PROVE Inv!TypeOK'
    OBVIOUS
<1>1. Seated!TypeOK /\ [Seated!Next]_(Seated!vars)
  BY SeatsStep, SameTypes DEF Sound, TypeOK
<1>2. Seated!TypeOK'
  BY <1>1, SeatConstants, Seated!TypeStep
<1> QED BY <1>2, SameTypes

HoldFlow(from, to) ==
    \/ from = to
    \/ from = "NONE" /\ to \in {"HELD", "CONFIRMED"}
    \/ from = "HELD" /\ to \in {"CONFIRMED", "RELEASED", "EXPIRED"}
    \/ from = "CONFIRMED" /\ to = "RELEASED"

LEMMA HoldsMoveOn ==
    ASSUME Sound, [Next]_vars, NEW h \in Holds
    PROVE  HoldFlow(status[h], status'[h])
<1>1. status \in [Holds -> Inv!Statuses]
  BY DEF Sound, TypeOK, Inv!TypeOK
<1>2. [Seated!Next]_(Seated!vars)
  BY SeatsStep
<1> QED
  BY <1>1, <1>2
     DEF HoldFlow, Seated!Next, Seated!vars, Seated!holdVars, Seated!AcquireHold, Seated!NewHold,
         Seated!ConfirmHold, Seated!ReleaseHold, Seated!ReleaseBits, Seated!SweepExpired,
         Seated!ReleaseConfirmed, Seated!DeadlinePasses, Seated!AllocateQuota,
         Seated!ReleaseQuota, Seated!SellQuota

-----------------------------------------------------------------------------
(* Bookings: the six things that happen to them                             *)

Makes(b, h) == CreateBooking(b, h) /\ status[h] # "NONE" /\ UNCHANGED <<ticket, replaced>>
Issues(b) ==
    /\ booking[b].status = "PAYMENT_PENDING" /\ SetStatus(b, "TICKETED")
    /\ ticket' = [ticket EXCEPT ![b] = "VALID"]
    /\ replaced' = [replaced EXCEPT ![b] = booking[b].of]
Ends(b, st) ==
    /\ Issued(b) /\ SetStatus(b, st)
    /\ ticket' \in {ticket, [ticket EXCEPT ![b] = "CANCELLED"]} /\ UNCHANGED replaced
Voids(b) ==
    Issued(b) /\ ticket' = [ticket EXCEPT ![b] = "CANCELLED"] /\ UNCHANGED <<booking, replaced>>
Links(w) == RescheduleLink(w) /\ UNCHANGED <<ticket, replaced>>

Over == {"CANCELLED", "REFUND_PENDING", "REFUNDED"}

LEMMA BookingChanges ==
    ASSUME Sound, [Next]_vars
    PROVE  \/ UNCHANGED bookingVars
           \/ \E b \in Bookings, h \in Holds : Makes(b, h)
           \/ \E b \in Bookings : Issues(b)
           \/ \E b \in Bookings, st \in Over : Ends(b, st)
           \/ \E b \in Bookings : Voids(b)
           \/ \E w \in Workers : Links(w)
<1> DEFINE Goal == \/ UNCHANGED bookingVars
                   \/ \E b \in Bookings, h \in Holds : Makes(b, h)
                   \/ \E b \in Bookings : Issues(b)
                   \/ \E b \in Bookings, st \in Over : Ends(b, st)
                   \/ \E b \in Bookings : Voids(b)
                   \/ \E w \in Workers : Links(w)
<1>0. TypeOK /\ \A w \in Workers : WorkerSound(w)
  BY DEF Sound, WorkersSound
<1>1. ASSUME NEW b \in Bookings, NEW h \in Holds, BookHold(b, h) PROVE Goal
  <2>1. Makes(b, h)
    BY <1>1 DEF BookHold, Makes
  <2> QED BY <2>1
<1>2. ASSUME NEW w \in Workers, NEW b \in Bookings, RescheduleBook(w, b) PROVE Goal
  <2>1. task[w].hold \in Holds /\ status[task[w].hold] # "NONE"
    BY <1>0, <1>2, Memory DEF RescheduleBook, At, WorkerSound, Vouched
  <2>2. Makes(b, task[w].hold)
    BY <1>2, <2>1 DEF RescheduleBook, Makes
  <2> QED BY <2>1, <2>2
<1>3. ASSUME NEW b \in Bookings, NEW amount, Finalise(b, amount) PROVE Goal
  <2>1. CASE booking[b].status = "PAYMENT_PENDING"
    <3>1. Issues(b)
      BY <1>3, <2>1 DEF Finalise, Issues
    <3> QED BY <3>1
  <2>2. CASE booking[b].status # "PAYMENT_PENDING"
    BY <1>3, <2>2 DEF Finalise
  <2> QED BY <2>1, <2>2
<1>4. ASSUME NEW w \in Workers, WebhookFinalise(w) PROVE Goal
  <2>1. task[w].txn \in payments
    BY <1>0, <1>4 DEF WebhookFinalise, At, WorkerSound, Vouched
  <2>2. intent[task[w].txn].booking \in Bookings
    BY <1>0, <2>1 DEF TypeOK, Intents
  <2> QED BY <1>3, <1>4, <2>2 DEF WebhookFinalise
<1>5. ASSUME NEW w \in Workers, RescheduleSettle(w) PROVE Goal
  <2>1. task[w].new \in Bookings
    BY <1>0, <1>5, Memory DEF RescheduleSettle, At, Rebooked
  <2> QED BY <1>3, <1>5, <2>1 DEF RescheduleSettle
<1>6. ASSUME NEW w \in Workers, CancelRecord(w) PROVE Goal
  <2> DEFINE b == task[w].booking
             st == IF task[w].refund > 0 THEN "REFUND_PENDING" ELSE "CANCELLED"
  <2>1. b \in Bookings /\ Issued(b)
    BY <1>0, <1>6, Memory DEF CancelRecord, At, Cancelling, WorkerSound, Vouched
  <2>2. Ends(b, st) /\ st \in Over
    BY <1>6, <2>1 DEF CancelRecord, Ends, Over
  <2> QED BY <2>1, <2>2
<1>7. ASSUME NEW w \in Workers, SettleRefund(w) PROVE Goal
  <2> DEFINE b == refunds[task[w].refund].booking
  <2>1. task[w].refund \in DOMAIN refunds
    BY <1>0, <1>7 DEF SettleRefund, At, WorkerSound, Vouched
  <2>2. b \in Bookings
    BY <1>0, <2>1, RefundRow
  <2>3. Cancelled(b)
    BY <2>1 DEF Sound, RefundsOfCancelled
  <2>4. Issued(b)
    <3> HIDE DEF b
    <3> QED BY <2>2, <2>3 DEF Sound, RowsSound, RowSound, Cancelled
  <2>5. Ends(b, "REFUNDED")
    BY <1>7, <2>4 DEF SettleRefund, Ends
  <2> QED BY <2>2, <2>5 DEF Over
<1>8. ASSUME NEW w \in Workers, RescheduleRetire(w) \/ RescheduleVoid(w) PROVE Goal
  <2> DEFINE b == task[w].booking
  <2>1. b \in Bookings /\ Issued(b)
    BY <1>0, <1>8, Memory
       DEF RescheduleRetire, RescheduleVoid, At, Rebooked, Rescheduling, WorkerSound, Vouched
  <2>2. Ends(b, "CANCELLED") \/ Voids(b)
    BY <1>8, <2>1 DEF RescheduleRetire, RescheduleVoid, Ends, Voids
  <2> QED BY <2>1, <2>2 DEF Over
<1>9. ASSUME NEW w \in Workers, RescheduleLink(w) PROVE Goal
  BY <1>9 DEF RescheduleLink, Links
<1> HIDE DEF Goal
<1>10. UNCHANGED bookingVars => Goal
  BY DEF Goal
<1>11. Goal
  BY <1>1, <1>2, <1>4, <1>5, <1>6, <1>7, <1>8, <1>9, <1>10
     DEF Next, WorkerStep, vars, SeatsMoveAlone, HoldSeats, PaymentIntent, WebhookPay,
         WebhookReject, WebhookConfirm, CancelQuote, CancelRelease, SettleRead, RescheduleRead,
         RescheduleSeatTaken, RescheduleHold, RescheduleCompensate, RescheduleVacate,
         RescheduleFail, RescheduleIgnore
<1> QED BY <1>11 DEF Goal

\* What is known of a booking stays known: its hold, its price, that it had a ticket,
\* that it was cancelled.  What it replaces is written once, by its own reschedule.
LEMMA BookingsStay ==
    ASSUME Sound, [Next]_vars
    PROVE  /\ booking' \in [Bookings -> BookingRows]
           /\ ticket' \in [Bookings -> {"NONE", "VALID", "CANCELLED"}]
           /\ replaced' \in [Bookings -> Bookings \cup {None}]
           /\ \A b \in Bookings :
                 /\ Known(b) => /\ Known(b)' /\ booking'[b].hold = booking[b].hold
                                /\ booking'[b].total = booking[b].total
                 /\ Issued(b) => Issued(b)' /\ replaced'[b] = replaced[b]
                 /\ Cancelled(b) => Cancelled(b)'
                 /\ Known(b) /\ booking'[b].of # booking[b].of =>
                       \E w \in Workers : RescheduleLink(w) /\ b = task[w].new
<1> DEFINE Stay(b) ==
      /\ Known(b) => /\ Known(b)' /\ booking'[b].hold = booking[b].hold
                     /\ booking'[b].total = booking[b].total
      /\ Issued(b) => Issued(b)' /\ replaced'[b] = replaced[b]
      /\ Cancelled(b) => Cancelled(b)'
      /\ Known(b) /\ booking'[b].of # booking[b].of =>
            \E w \in Workers : RescheduleLink(w) /\ b = task[w].new
    Typed == /\ booking' \in [Bookings -> BookingRows]
             /\ ticket' \in [Bookings -> {"NONE", "VALID", "CANCELLED"}]
             /\ replaced' \in [Bookings -> Bookings \cup {None}]
    Goal == Typed /\ \A b \in Bookings : Stay(b)
<1>0. /\ TypeOK /\ RowsSound
      /\ booking \in [Bookings -> BookingRows]
      /\ ticket \in [Bookings -> {"NONE", "VALID", "CANCELLED"}]
      /\ replaced \in [Bookings -> Bookings \cup {None}]
      /\ \A b \in Bookings : Issued(b) => Known(b)
      /\ \A b \in Bookings : booking[b].of \in Bookings \cup {None}
  BY DEF Sound, TypeOK, RowsSound, RowSound, BookingRows, Known
<1>1. CASE UNCHANGED bookingVars
  BY <1>0, <1>1 DEF bookingVars, Known, Issued, Cancelled
<1>2. ASSUME NEW b \in Bookings, NEW h \in Holds, Makes(b, h) PROVE Goal
  <2>1. CreateBooking(b, h) /\ UNCHANGED <<ticket, replaced>>
    BY <1>2 DEF Makes
  <2>2. /\ booking' \in [Bookings -> BookingRows] /\ ~Known(b)
        /\ \A c \in Bookings \ {b} : booking'[c] = booking[c]
    BY <1>0, <2>1, BookingMade
  <2>3. ~Issued(b) /\ ~Cancelled(b)
    BY <1>0, <2>2 DEF Known, Cancelled
  <2> QED BY <1>0, <2>1, <2>2, <2>3 DEF Known, Issued, Cancelled
<1>3. ASSUME NEW b \in Bookings, Issues(b) PROVE Goal
  <2>1. /\ booking' \in [Bookings -> BookingRows] /\ booking'[b].status = "TICKETED"
        /\ \A c \in Bookings :
              /\ c # b => booking'[c] = booking[c]
              /\ booking'[c].hold = booking[c].hold /\ booking'[c].total = booking[c].total
              /\ booking'[c].of = booking[c].of
    BY <1>0, <1>3, StatusMoves DEF Issues, BookingStatuses
  <2>2. ~Issued(b) /\ ~Cancelled(b) /\ Known(b)
    BY <1>0, <1>3 DEF Issues, Known, Cancelled, RowsSound, RowSound, Issued
  <2>3. Typed /\ \A c \in Bookings \ {b} : ticket'[c] = ticket[c] /\ replaced'[c] = replaced[c]
    BY <1>0, <1>3, <2>1 DEF Issues
  <2> QED BY <1>0, <2>1, <2>2, <2>3 DEF Known, Issued, Cancelled
<1>4. ASSUME NEW b \in Bookings, NEW st \in Over, Ends(b, st) PROVE Goal
  <2>1. /\ booking' \in [Bookings -> BookingRows] /\ booking'[b].status = st
        /\ \A c \in Bookings :
              /\ c # b => booking'[c] = booking[c]
              /\ booking'[c].hold = booking[c].hold /\ booking'[c].total = booking[c].total
              /\ booking'[c].of = booking[c].of
    BY <1>0, <1>4, StatusMoves DEF Ends, BookingStatuses, Over
  <2>2. Known(b)' /\ Cancelled(b)'
    BY <2>1 DEF Known, Cancelled, Over
  <2>3. Typed /\ UNCHANGED replaced /\ \A c \in Bookings : Issued(c) => Issued(c)'
    BY <1>0, <1>4, <2>1 DEF Ends, Issued
  <2> QED BY <1>0, <2>1, <2>2, <2>3 DEF Known, Cancelled
<1>5. ASSUME NEW b \in Bookings, Voids(b) PROVE Goal
  BY <1>0, <1>5 DEF Voids, Known, Issued, Cancelled
<1>6. ASSUME NEW w \in Workers, Links(w) PROVE Goal
  <2>1. /\ booking' \in [Bookings -> BookingRows]
        /\ \A c \in Bookings :
              /\ c # task[w].new => booking'[c] = booking[c]
              /\ booking'[c].status = booking[c].status
              /\ booking'[c].hold = booking[c].hold /\ booking'[c].total = booking[c].total
    BY <1>0, <1>6, BookingLinked DEF Links
  <2> QED BY <1>0, <1>6, <2>1 DEF Links, Known, Issued, Cancelled
<1> QED BY <1>1, <1>2, <1>3, <1>4, <1>5, <1>6, BookingChanges

\* The rows stay sound.
LEMMA RowsStep == Sound /\ [Next]_vars => RowsSound'
<1> SUFFICES ASSUME Sound, [Next]_vars PROVE RowsSound'
    OBVIOUS
<1>0. /\ TypeOK /\ RowsSound
      /\ \A h \in Holds : status[h] # "NONE" => status'[h] # "NONE"
      /\ \A b \in Bookings : /\ RowSound(b) /\ booking[b].of \in Bookings \cup {None}
                             /\ replaced[b] \in Bookings \cup {None}
                             /\ booking[b].total \in Nat
      /\ \A b \in Bookings : Issued(b) => Issued(b)'
  <2>1. \A h \in Holds : status[h] # "NONE" => status'[h] # "NONE"
    BY HoldsMoveOn DEF HoldFlow
  <2> QED BY <2>1, BookingsStay DEF Sound, TypeOK, BookingRows, RowsSound
<1>1. ASSUME NEW c \in Bookings, booking'[c] = booking[c], UNCHANGED <<ticket[c], replaced[c]>>
      PROVE  RowSound(c)'
  BY <1>0, <1>1 DEF RowSound, NoBooking, Known, Issued
<1>2. ASSUME NEW b \in Bookings, NEW h \in Holds, Makes(b, h), NEW c \in Bookings PROVE RowSound(c)'
  <2>1. CreateBooking(b, h) /\ UNCHANGED <<ticket, replaced>> /\ status[h] # "NONE"
    BY <1>2 DEF Makes
  <2>2. /\ ~Known(b)
        /\ booking'[b].status = "PAYMENT_PENDING" /\ booking'[b].hold = h
        /\ booking'[b].due = 0 /\ booking'[b].of = None /\ booking'[b].total \in Nat
        /\ \A d \in Bookings \ {b} : booking'[d] = booking[d]
    BY <1>0, <2>1, BookingMade
  <2>3. CASE c # b
    BY <1>1, <2>1, <2>2, <2>3
  <2>4. CASE c = b
    BY <1>0, <2>1, <2>2, <2>4 DEF RowSound, NoBooking, Known, Issued
  <2> QED BY <2>3, <2>4
<1>3. ASSUME NEW b \in Bookings, Issues(b), NEW c \in Bookings PROVE RowSound(c)'
  <2>1. /\ booking'[b].status = "TICKETED"
        /\ \A d \in Bookings :
              /\ d # b => booking'[d] = booking[d]
              /\ booking'[d].hold = booking[d].hold /\ booking'[d].total = booking[d].total
              /\ booking'[d].due = booking[d].due /\ booking'[d].of = booking[d].of
    BY <1>0, <1>3, StatusMoves DEF Issues, BookingStatuses
  <2>2. ticket'[b] = "VALID" /\ replaced'[b] = booking[b].of
        /\ \A d \in Bookings \ {b} : ticket'[d] = ticket[d] /\ replaced'[d] = replaced[d]
    BY <1>0, <1>3 DEF Issues, TypeOK
  <2>3. booking[b].status = "PAYMENT_PENDING"
    BY <1>3 DEF Issues
  <2>4. CASE c # b
    BY <1>1, <2>1, <2>2, <2>4
  <2>5. CASE c = b
    BY <1>0, <2>1, <2>2, <2>3, <2>5 DEF RowSound, NoBooking, Known, Issued
  <2> QED BY <2>4, <2>5
<1>4. ASSUME NEW b \in Bookings, NEW st \in Over, Ends(b, st), NEW c \in Bookings PROVE RowSound(c)'
  <2>1. /\ booking'[b].status = st
        /\ \A d \in Bookings :
              /\ d # b => booking'[d] = booking[d]
              /\ booking'[d].hold = booking[d].hold /\ booking'[d].total = booking[d].total
              /\ booking'[d].due = booking[d].due /\ booking'[d].of = booking[d].of
    BY <1>0, <1>4, StatusMoves DEF Ends, BookingStatuses, Over
  <2>2. Issued(b) /\ UNCHANGED replaced /\ \A d \in Bookings \ {b} : ticket'[d] = ticket[d]
    BY <1>0, <1>4 DEF Ends, TypeOK
  <2>3. CASE c # b
    BY <1>1, <2>1, <2>2, <2>3
  <2>4. CASE c = b
    BY <1>0, <2>1, <2>2, <2>4 DEF RowSound, NoBooking, Known, Issued, Over
  <2> QED BY <2>3, <2>4
<1>5. ASSUME NEW b \in Bookings, Voids(b), NEW c \in Bookings PROVE RowSound(c)'
  <2>1. Issued(b) /\ UNCHANGED <<booking, replaced>> /\ \A d \in Bookings \ {b} : ticket'[d] = ticket[d]
    BY <1>0, <1>5 DEF Voids, TypeOK
  <2>2. CASE c # b
    BY <1>1, <2>1, <2>2
  <2>3. CASE c = b
    BY <1>0, <2>1, <2>3 DEF RowSound, NoBooking, Known, Issued
  <2> QED BY <2>2, <2>3
<1>6. ASSUME NEW w \in Workers, Links(w), NEW c \in Bookings PROVE RowSound(c)'
  <2> DEFINE o == task[w].booking
             b == task[w].new
             diff == booking[b].total - booking[o].total
  <2>1. /\ o \in Bookings /\ b \in Bookings
        /\ booking'[b].of = o /\ booking'[b].due = (IF diff > 0 THEN diff ELSE 0)
        /\ \A d \in Bookings :
              /\ d # b => booking'[d] = booking[d]
              /\ booking'[d].status = booking[d].status
              /\ booking'[d].hold = booking[d].hold /\ booking'[d].total = booking[d].total
    BY <1>0, <1>6, BookingLinked DEF Links
  <2>2. Issued(o) /\ Known(b) /\ UNCHANGED <<ticket, replaced>>
    BY <1>6 DEF Links, RescheduleLink, At, Sound, WorkersSound, WorkerSound, Vouched, Rebooked, Rescheduling
  <2>3. booking'[b].due <= booking'[b].total
    BY <1>0, <2>1
  <2> HIDE DEF o, b, diff
  <2>4. CASE c # b
    BY <1>1, <2>1, <2>2, <2>4
  <2>5. CASE c = b
    BY <1>0, <2>1, <2>2, <2>3, <2>5 DEF RowSound, NoBooking, Known, Issued
  <2> QED BY <2>4, <2>5
<1>7. ASSUME UNCHANGED bookingVars, NEW c \in Bookings PROVE RowSound(c)'
  BY <1>1, <1>7 DEF bookingVars
<1>8. ASSUME NEW c \in Bookings PROVE RowSound(c)'
  BY <1>2, <1>3, <1>4, <1>5, <1>6, <1>7, BookingChanges
<1> QED BY <1>8 DEF RowsSound


-----------------------------------------------------------------------------
(* Payments, refunds and the books                                          *)

\* Payment references and payments stay, and a reference keeps asking for the price of
\* its booking.
LEMMA PaymentsStep ==
    ASSUME Sound, [Next]_vars
    PROVE  /\ DOMAIN intent' \subseteq Txns /\ \A t \in DOMAIN intent' : intent'[t] \in Intents
           /\ payments' \subseteq DOMAIN intent' /\ refused' \subseteq DOMAIN intent'
           /\ payments \subseteq payments'
           /\ \A t \in DOMAIN intent : t \in DOMAIN intent' /\ intent'[t] = intent[t]
           /\ PricesStand'
<1> DEFINE
    Kept == \A t \in DOMAIN intent : t \in DOMAIN intent' /\ intent'[t] = intent[t]
    Typed == /\ DOMAIN intent' \subseteq Txns /\ \A t \in DOMAIN intent' : intent'[t] \in Intents
             /\ payments' \subseteq DOMAIN intent' /\ refused' \subseteq DOMAIN intent'
    Goal == Typed /\ payments \subseteq payments' /\ Kept /\ PricesStand'
<1>0. /\ DOMAIN intent \subseteq Txns /\ \A t \in DOMAIN intent : intent[t] \in Intents
      /\ payments \subseteq DOMAIN intent /\ refused \subseteq DOMAIN intent
      /\ \A w \in Workers : WorkerSound(w)
  BY DEF Sound, TypeOK, WorkersSound
<1>1. ASSUME NEW t \in DOMAIN intent
      PROVE  /\ intent[t].booking \in Bookings
             /\ booking'[intent[t].booking].status # "NONE"
             /\ intent[t].amount = booking'[intent[t].booking].total
  <2>1. intent[t].booking \in Bookings
    BY <1>0 DEF Intents
  <2>2. Known(intent[t].booking) /\ intent[t].amount = booking[intent[t].booking].total
    BY DEF Sound, PricesStand
  <2> QED BY <2>1, <2>2, BookingsStay DEF Known
<1>2. ASSUME UNCHANGED intent PROVE Kept /\ PricesStand'
  BY <1>1, <1>2 DEF PricesStand, Known
<1>3. ASSUME NEW t \in Txns, NEW b \in Bookings, PaymentIntent(t, b) PROVE Goal
  <2> DEFINE row == [booking |-> b, amount |-> booking[b].total]
  <2>1. row \in Intents /\ row.booking = b /\ row.amount = booking[b].total
    BY DEF Sound, TypeOK, BookingRows, Intents
  <2>2. booking' = booking /\ Known(b) /\ UNCHANGED <<payments, refused>>
    BY <1>3 DEF PaymentIntent, bookingVars, Known
  <2>3. /\ DOMAIN intent' = DOMAIN intent \cup {t} /\ intent'[t] = row
        /\ \A u \in DOMAIN intent : intent'[u] = intent[u]
    BY <1>3 DEF PaymentIntent
  <2> HIDE DEF row
  <2>4. \A u \in DOMAIN intent' : u = t \/ u \in DOMAIN intent
    BY <2>3
  <2>5. Typed
    BY <1>0, <2>1, <2>2, <2>3, <2>4
  <2>6. PricesStand'
    BY <1>1, <2>1, <2>2, <2>3, <2>4 DEF PricesStand, Known
  <2> QED BY <2>2, <2>3, <2>5, <2>6
<1>4. ASSUME NEW w \in Workers, NEW t \in Txns, WebhookPay(w, t) PROVE Goal
  BY <1>0, <1>2, <1>4 DEF WebhookPay
<1>5. ASSUME NEW t \in Txns, WebhookReject(t) PROVE Goal
  BY <1>0, <1>2, <1>5 DEF WebhookReject
<1>6. ASSUME NEW w \in Workers, WebhookConfirm(w) PROVE Goal
  <2>1. task[w].txn \in payments
    BY <1>0, <1>6 DEF WebhookConfirm, At, WorkerSound, Vouched
  <2>2. UNCHANGED <<intent, payments>> /\ refused' \in {refused, refused \cup {task[w].txn}}
    BY <1>6 DEF WebhookConfirm
  <2> QED BY <1>0, <1>2, <2>1, <2>2
<1>7. ASSUME UNCHANGED paymentVars PROVE Goal
  BY <1>0, <1>2, <1>7 DEF paymentVars
<1> HIDE DEF Goal
<1>8. Goal
  BY <1>3, <1>4, <1>5, <1>6, <1>7
     DEF Next, WorkerStep, vars, SeatsMoveAlone, HoldSeats, BookHold, WebhookFinalise,
         CancelQuote, CancelRelease, CancelRecord, SettleRead, SettleRefund, RescheduleRead,
         RescheduleSeatTaken, RescheduleHold, RescheduleCompensate, RescheduleVacate,
         RescheduleBook, RescheduleFail, RescheduleRetire, RescheduleVoid, RescheduleIgnore,
         RescheduleLink, RescheduleSettle
<1> QED BY <1>8 DEF Goal

\* Refunds are appended, and only their status changes afterwards.
LEMMA RefundsStep ==
    ASSUME Sound, [Next]_vars
    PROVE  /\ refunds' \in Seq(Refunds) /\ RefundsOfCancelled'
           /\ \A i \in DOMAIN refunds : /\ i \in DOMAIN refunds'
                                        /\ refunds'[i].booking = refunds[i].booking
                                        /\ refunds'[i].amount = refunds[i].amount
<1> DEFINE
    Kept == \A i \in DOMAIN refunds : /\ i \in DOMAIN refunds'
                                      /\ refunds'[i].booking = refunds[i].booking
                                      /\ refunds'[i].amount = refunds[i].amount
    Goal == refunds' \in Seq(Refunds) /\ RefundsOfCancelled' /\ Kept
<1>0. TypeOK /\ refunds \in Seq(Refunds) /\ \A w \in Workers : WorkerSound(w)
  BY DEF Sound, TypeOK, WorkersSound
<1>1. ASSUME NEW i \in DOMAIN refunds PROVE booking'[refunds[i].booking].status \in Over
  <2>1. refunds[i].booking \in Bookings
    BY <1>0, RefundRow
  <2>2. Cancelled(refunds[i].booking)
    BY DEF Sound, RefundsOfCancelled
  <2> QED BY <2>1, <2>2, BookingsStay DEF Cancelled, Over
<1>2. ASSUME NEW w \in Workers, CancelRecord(w) PROVE Goal
  <2> DEFINE b == task[w].booking
             amount == task[w].refund
             st == IF amount > 0 THEN "REFUND_PENDING" ELSE "CANCELLED"
             row == [booking |-> b, amount |-> amount,
                     status |-> IF amount > 0 THEN "REQUESTED" ELSE "REJECTED"]
  <2>1. b \in Bookings /\ amount \in Nat
    BY <1>0, <1>2, Memory DEF CancelRecord, At, Cancelling
  <2>2. row \in Refunds /\ row.booking = b
    BY <2>1 DEF Refunds
  <2>3. refunds' = Append(refunds, row) /\ SetStatus(b, st)
    BY <1>2 DEF CancelRecord
  <2>4. st \in Over
    BY DEF Over
  <2> HIDE DEF row, st, b, amount
  <2>5. booking'[b].status = st
    BY <1>0, <2>1, <2>3, <2>4, StatusMoves DEF Over, BookingStatuses
  <2>6. booking'[b].status \in Over
    BY <2>4, <2>5
  <2>7. /\ refunds' \in Seq(Refunds) /\ refunds'[Len(refunds) + 1] = row
        /\ \A i \in DOMAIN refunds : i \in DOMAIN refunds' /\ refunds'[i] = refunds[i]
        /\ \A i \in DOMAIN refunds' : i = Len(refunds) + 1 \/ i \in DOMAIN refunds
    BY <1>0, <2>2, <2>3
  <2>8. RefundsOfCancelled'
    BY <1>1, <2>2, <2>6, <2>7 DEF RefundsOfCancelled, Cancelled, Over
  <2> QED BY <2>7, <2>8
<1>3. ASSUME NEW w \in Workers, SettleRefund(w) PROVE Goal
  <2> DEFINE i == task[w].refund
             row == [refunds[i] EXCEPT !.status = "SUCCESS"]
  <2>1. i \in DOMAIN refunds
    BY <1>0, <1>3 DEF SettleRefund, At, WorkerSound, Vouched
  <2>2. refunds[i] \in Refunds
    BY <1>0, <2>1, RefundRow
  <2>3. row \in Refunds /\ row.booking = refunds[i].booking /\ row.amount = refunds[i].amount
    BY <2>2 DEF Refunds
  <2>4. refunds' = [refunds EXCEPT ![i] = row]
    BY <1>3, <2>2 DEF SettleRefund, Refunds
  <2> HIDE DEF row, i
  <2>5. /\ refunds' \in Seq(Refunds) /\ DOMAIN refunds' = DOMAIN refunds /\ refunds'[i] = row
        /\ \A j \in DOMAIN refunds : j # i => refunds'[j] = refunds[j]
    BY <1>0, <2>1, <2>3, <2>4
  <2>6. Kept
    BY <2>3, <2>5
  <2>7. RefundsOfCancelled'
    BY <1>1, <2>5, <2>6 DEF RefundsOfCancelled, Cancelled, Over
  <2> QED BY <2>5, <2>6, <2>7
<1>4. ASSUME UNCHANGED refunds PROVE Goal
  BY <1>0, <1>1, <1>4 DEF RefundsOfCancelled, Cancelled, Over
<1> HIDE DEF Goal
<1>5. Goal
  BY <1>2, <1>3, <1>4
     DEF Next, WorkerStep, vars, refundVars, SeatsMoveAlone, HoldSeats, BookHold, PaymentIntent,
         WebhookPay, WebhookReject, WebhookConfirm, WebhookFinalise,
         CancelQuote, CancelRelease, SettleRead, RescheduleRead,
         RescheduleSeatTaken, RescheduleHold, RescheduleCompensate, RescheduleVacate,
         RescheduleBook, RescheduleFail, RescheduleRetire, RescheduleVoid, RescheduleIgnore,
         RescheduleLink, RescheduleSettle
<1> QED BY <1>5 DEF Goal


\* What a booking's ticket adds to the revenue, and the steps that move it.
Price(b) == IF booking[b].of = None THEN booking[b].total
            ELSE booking[b].total - booking[booking[b].of].total
SameIssued  == \A b \in Bookings : Issued(b)' <=> Issued(b)
SameRefunds == DOMAIN refunds' = DOMAIN refunds
Sells(b) == Issues(b) /\ SameRefunds /\ Earned(ledger') = Earned(ledger) + Price(b)
GivesBack(a) ==
    /\ SameIssued /\ Earned(ledger') = Earned(ledger) - a
    /\ DOMAIN refunds' = DOMAIN refunds \cup {Len(refunds) + 1}
    /\ refunds'[Len(refunds) + 1].amount = a

LEMMA PriceType ==
    ASSUME Sound, NEW b \in Bookings
    PROVE  Price(b) \in Int /\ (booking[b].of # None => booking[b].of \in Bookings)
<1>1. /\ \A c \in Bookings : booking[c].total \in Nat
      /\ booking[b].of \in Bookings \cup {None}
  BY DEF Sound, TypeOK, BookingRows
<1> QED BY <1>1 DEF Price

LEMMA FinaliseEarns ==
    ASSUME Sound, NEW b \in Bookings, NEW paid \in Int, Finalise(b, paid),
           booking[b].of = None => paid = booking[b].total
    PROVE  /\ ledger' \in Journals /\ Variance(ledger') = Variance(ledger)
           /\ \/ SameIssued /\ Earned(ledger') = Earned(ledger)
              \/ Issues(b) /\ Earned(ledger') = Earned(ledger) + Price(b)
<1>0. /\ ledger \in Journals /\ \A c \in Bookings : booking[c].total \in Nat
      /\ Variance(ledger) \in Int
  BY DEF Sound, TypeOK, BookingRows, Variance, Journals, Accounts
<1>1. CASE booking[b].status # "PAYMENT_PENDING"
  BY <1>0, <1>1 DEF Finalise, bookingVars, SameIssued, Issued
<1>2. CASE booking[b].status = "PAYMENT_PENDING"
  <2> DEFINE j == Postings(b, paid)
  <2>1. /\ j \in Journals /\ Variance(j) = 0 /\ Earned(j) = Price(b)
    <3>1. CASE booking[b].of = None
      <4>1. j = GatewayPostings(paid) /\ Price(b) = paid
        BY <3>1 DEF Postings, Price
      <4>2. Earned(GatewayPostings(paid)) = paid
        BY SaleEarns, <1>0
      <4> QED BY <4>1, <4>2, GatewayBalances
    <3>2. CASE booking[b].of # None
      <4> DEFINE old == booking[booking[b].of].total
                 new == booking[b].total
      <4>1. j = ReschedulePostings(old, new) /\ Price(b) = new - old
        BY <3>2 DEF Postings, Price
      <4>2. old \in Int /\ new \in Int
        BY <1>0, <3>2, PriceType
      <4> HIDE DEF old, new
      <4> QED BY <4>1, <4>2, SaleEarns, RescheduleBalances
    <3> QED BY <3>1, <3>2
  <2>2. ledger' = Posted(ledger, j) /\ Issues(b)
    BY <1>2 DEF Finalise, Issues
  <2> HIDE DEF j
  <2> QED BY <1>0, <2>1, <2>2, PostedVariance, PostedEarned
<1> QED BY <1>1, <1>2

\* The books stay balanced, and the revenue moves by the price of a booking that is being
\* ticketed, or by a refund that is being granted, or not at all.
LEMMA BooksStep ==
    ASSUME Sound, [Next]_vars
    PROVE  /\ ledger' \in Journals /\ Variance(ledger') = Variance(ledger)
           /\ \/ SameIssued /\ SameRefunds /\ Earned(ledger') = Earned(ledger)
              \/ \E b \in Bookings : Sells(b)
              \/ \E a \in Nat : GivesBack(a)
<1> DEFINE
    Goal == /\ ledger' \in Journals /\ Variance(ledger') = Variance(ledger)
            /\ \/ SameIssued /\ SameRefunds /\ Earned(ledger') = Earned(ledger)
               \/ \E b \in Bookings : Sells(b)
               \/ \E a \in Nat : GivesBack(a)
<1>0. /\ TypeOK /\ ledger \in Journals /\ \A c \in Bookings : booking[c].total \in Nat
      /\ Variance(ledger) \in Int /\ Earned(ledger) \in Int
      /\ \A w \in Workers : WorkerSound(w)
  BY DEF Sound, WorkersSound, TypeOK, BookingRows, Variance, Earned, Journals, Accounts
<1>1. ASSUME NEW w \in Workers, WebhookFinalise(w) PROVE Goal
  <2> DEFINE i == intent[task[w].txn]
             b == i.booking
             paid == i.amount
  <2>1. task[w].txn \in payments
    BY <1>0, <1>1 DEF WebhookFinalise, At, WorkerSound, Vouched
  <2>2. task[w].txn \in DOMAIN intent /\ i \in Intents
    BY <1>0, <2>1 DEF TypeOK
  <2>3. b \in Bookings /\ paid \in Int /\ paid = booking[b].total
    BY <2>2 DEF Sound, PricesStand, Intents
  <2>4. Finalise(b, paid) /\ SameRefunds
    BY <1>1 DEF WebhookFinalise, refundVars, SameRefunds
  <2> HIDE DEF b, paid
  <2> QED BY <2>3, <2>4, FinaliseEarns DEF Sells
<1>2. ASSUME NEW w \in Workers, RescheduleSettle(w) PROVE Goal
  <2> DEFINE b == task[w].new
  <2>1. b \in Bookings /\ task[w].booking \in Bookings /\ booking[b].of = task[w].booking
    BY <1>0, <1>2, Memory DEF RescheduleSettle, At, Rebooked, WorkerSound, Vouched
  <2>2. booking[b].of # None
    BY <2>1, BookingConstants
  <2>3. Finalise(b, 0) /\ SameRefunds
    BY <1>2 DEF RescheduleSettle, refundVars, SameRefunds
  <2> HIDE DEF b
  <2> QED BY <2>1, <2>2, <2>3, FinaliseEarns DEF Sells
<1>3. ASSUME NEW w \in Workers, CancelRecord(w) PROVE Goal
  <2> DEFINE b == task[w].booking
             a == task[w].refund
             j == CancellationPostings(booking[b].total, a)
             row == [booking |-> b, amount |-> a,
                     status |-> IF a > 0 THEN "REQUESTED" ELSE "REJECTED"]
  <2>1. b \in Bookings /\ a \in Nat /\ Issued(b) /\ (a > 0 => booking[b].total > 0)
    BY <1>0, <1>3, Memory DEF CancelRecord, At, Cancelling, WorkerSound, Vouched
  <2>2. /\ ledger' = IF a > 0 THEN Posted(ledger, j) ELSE ledger
        /\ refunds' = Append(refunds, row)
        /\ ticket' = [ticket EXCEPT ![b] = "CANCELLED"]
    BY <1>3 DEF CancelRecord
  <2>3. SameIssued
    BY <2>1, <2>2, <1>0 DEF TypeOK, SameIssued, Issued
  <2>4. a > 0 => j \in Journals /\ Variance(j) = 0 /\ Earned(j) = -a
    BY <1>0, <2>1, CancellationBalances
  <2>5. /\ DOMAIN refunds' = DOMAIN refunds \cup {Len(refunds) + 1}
        /\ refunds'[Len(refunds) + 1].amount = a
    <3>1. refunds \in Seq(Refunds)
      BY <1>0 DEF TypeOK
    <3>2. row.amount = a
      OBVIOUS
    <3> HIDE DEF row, a, b
    <3> QED BY <2>2, <3>1, <3>2
  <2> HIDE DEF j, a, b
  <2>6. CASE a > 0
    <3>1. ledger' = Posted(ledger, j)
      BY <2>2, <2>6
    <3>2. Earned(ledger') = Earned(ledger) - a
      BY <1>0, <2>1, <2>4, <2>6, <3>1, PostedEarned
    <3> QED BY <1>0, <2>1, <2>3, <2>4, <2>5, <2>6, <3>1, <3>2, PostedVariance DEF GivesBack
  <2>7. CASE ~(a > 0)
    <3>1. ledger' = ledger /\ a = 0
      BY <2>1, <2>2, <2>7
    <3> QED BY <1>0, <2>1, <2>3, <2>5, <3>1 DEF GivesBack
  <2> QED BY <2>6, <2>7
<1>4. ASSUME NEW w \in Workers, SettleRefund(w) PROVE Goal
  <2> DEFINE i == task[w].refund
             j == RefundPostings(refunds[i].amount)
  <2>1. i \in DOMAIN refunds
    BY <1>0, <1>4 DEF SettleRefund, At, WorkerSound, Vouched
  <2>2. refunds[i].amount \in Nat
    BY <1>0, <2>1, RefundRow
  <2>3. j \in Journals /\ Variance(j) = 0 /\ Earned(j) = 0
    BY <2>2, PayingOutBalances
  <2>4. ledger' = Posted(ledger, j) /\ UNCHANGED ticket /\ SameRefunds
    BY <1>0, <1>4 DEF SettleRefund, SameRefunds, TypeOK
  <2>5. SameIssued
    BY <2>4 DEF SameIssued, Issued
  <2> HIDE DEF j
  <2> QED BY <1>0, <2>3, <2>4, <2>5, PostedVariance, PostedEarned
<1>5. ASSUME UNCHANGED <<ledger, refunds>>, SameIssued PROVE Goal
  BY <1>0, <1>5 DEF SameRefunds
<1>6. UNCHANGED ticket => SameIssued
  BY DEF SameIssued, Issued
<1>7. ASSUME NEW w \in Workers, RescheduleVoid(w) PROVE SameIssued
  <2>1. task[w].booking \in Bookings /\ Issued(task[w].booking)
    BY <1>0, <1>7, Memory DEF RescheduleVoid, At, Rebooked, Rescheduling, WorkerSound, Vouched
  <2> QED BY <1>0, <1>7, <2>1 DEF RescheduleVoid, SameIssued, Issued, TypeOK
<1> HIDE DEF Goal
<1>8. Goal
  BY <1>1, <1>2, <1>3, <1>4, <1>5, <1>6, <1>7
     DEF Next, WorkerStep, vars, bookingVars, refundVars, SeatsMoveAlone, HoldSeats, BookHold,
         PaymentIntent, WebhookPay, WebhookReject, WebhookConfirm,
         CancelQuote, CancelRelease, SettleRead, RescheduleRead,
         RescheduleSeatTaken, RescheduleHold, RescheduleCompensate, RescheduleVacate,
         RescheduleBook, RescheduleFail, RescheduleRetire, RescheduleVoid, RescheduleIgnore,
         RescheduleLink
<1> QED BY <1>8 DEF Goal


-----------------------------------------------------------------------------
(* Workers: what they remember stays so while others work                    *)

LEMMA TaskFields ==
    ASSUME NEW x \in Tasks
    PROVE  /\ x.at \in {"paid", "confirmed"} => x.txn \in Txns
           /\ x.at \in Cancelling => x.booking \in Bookings /\ x.refund \in Nat
           /\ x.at \in Rescheduling => x.booking \in Bookings
           /\ x.at = "settling" => x.refund \in Nat
           /\ x.at \in {"reheld", "vacated"} => x.hold \in Holds
           /\ x.at \in Rebooked \cup {"linked"} => x.booking \in Bookings /\ x.new \in Bookings
           /\ Cancelling \cap Rescheduling = {}
BY DEF Tasks, Idle, Cancelling, Rebooked, Rescheduling

\* What a worker remembers stays so, as long as nobody links the new booking it looks after.
LEMMA StaysVouched ==
    ASSUME Sound, [Next]_vars, NEW x \in Tasks, Vouched(x),
           x.at \in Rebooked \cup {"linked"} => booking'[x.new].of = booking[x.new].of
    PROVE  Vouched(x)'
<1>1. /\ x.at \in {"paid", "confirmed"} => x.txn \in payments'
      /\ x.at = "settling" => x.refund \in DOMAIN refunds'
  BY PaymentsStep, RefundsStep DEF Vouched
<1>2. x.at \in Cancelling \cup Rescheduling => Issued(x.booking)'
  BY TaskFields, BookingsStay DEF Vouched
<1>3. \A b \in Bookings : Issued(b) => booking'[b].total = booking[b].total
  BY BookingsStay, IssuedIsKnown
<1>4. x.at \in Cancelling /\ x.refund > 0 => booking'[x.booking].total > 0
  BY <1>3, TaskFields DEF Vouched
<1>5. x.at \in {"reheld", "vacated"} => status'[x.hold] # "NONE"
  <2>1. ASSUME x.at \in {"reheld", "vacated"} PROVE status'[x.hold] # "NONE"
    <3>1. x.hold \in Holds /\ status[x.hold] # "NONE"
      BY <2>1, TaskFields DEF Vouched
    <3>2. HoldFlow(status[x.hold], status'[x.hold])
      BY <3>1, HoldsMoveOn
    <3> QED BY <3>1, <3>2 DEF HoldFlow
  <2> QED BY <2>1
<1>6. x.at \in Rebooked \cup {"linked"} =>
         Known(x.new)' /\ booking'[x.new].total = booking[x.new].total
  BY TaskFields, BookingsStay DEF Vouched
<1>7. x.at \in Rebooked => booking'[x.new].of = None
  BY DEF Vouched
<1>8. x.at = "linked" => /\ booking'[x.new].of = x.booking
                         /\ booking'[x.new].total <= booking'[x.booking].total
  BY <1>3, <1>6, TaskFields DEF Vouched, Rescheduling
<1> QED BY <1>1, <1>2, <1>4, <1>5, <1>6, <1>7, <1>8 DEF Vouched

\* A new booking that no reschedule has in its hands.
Alone(w, x) ==
    x.at \in Rebooked \cup {"linked"} =>
        \A v \in Workers : v # w /\ task[v].at \in Rebooked \cup {"linked"} => task[v].new # x.new

\* At most one worker moves, and what it remembers then is so.
WorkerMoves(w, x) == task' = [task EXCEPT ![w] = x] /\ Vouched(x)' /\ Alone(w, x)

LEMMA OneWorkerMoves ==
    ASSUME Sound, [Next]_vars
    PROVE  UNCHANGED task \/ \E w \in Workers, x \in Tasks : WorkerMoves(w, x)
<1> DEFINE Goal == UNCHANGED task \/ \E w \in Workers, x \in Tasks : WorkerMoves(w, x)
<1>0. /\ TypeOK /\ \A w \in Workers : Vouched(task[w]) /\ task[w] \in Tasks
      /\ \A v, w \in Workers :
            v # w /\ {task[v].at, task[w].at} \subseteq Rebooked \cup {"linked"}
               => task[v].new # task[w].new
      /\ \A b \in Bookings : booking[b].total \in Nat
  BY DEF Sound, WorkersSound, WorkerSound, NewBookingsApart, TypeOK, BookingRows
<1>1. ASSUME NEW w \in Workers, task' = [task EXCEPT ![w] = Idle] PROVE Goal
  <2>1. Idle \in Tasks
    BY DEF Tasks
  <2>2. Vouched(Idle)' /\ Alone(w, Idle)
    BY DEF Vouched, Idle, Alone, Cancelling, Rescheduling, Rebooked
  <2> QED BY <1>1, <2>1, <2>2 DEF WorkerMoves
<1>2. ASSUME NEW w \in Workers, NEW t \in Txns, WebhookPay(w, t) PROVE Goal
  <2> DEFINE x == [at |-> "paid", txn |-> t]
  <2>1. x \in Tasks
    BY DEF Tasks
  <2>2. t \in payments' /\ task' = [task EXCEPT ![w] = x]
    BY <1>2 DEF WebhookPay, Goto
  <2>3. Vouched(x)' /\ Alone(w, x)
    BY <2>2 DEF Vouched, Alone, Cancelling, Rescheduling, Rebooked
  <2> QED BY <2>1, <2>2, <2>3 DEF WorkerMoves
<1>3. ASSUME NEW w \in Workers, WebhookConfirm(w) PROVE Goal
  <2>1. CASE task' = [task EXCEPT ![w] = Idle]
    BY <1>1, <2>1
  <2>2. PICK t : t = task[w].txn
    OBVIOUS
  <2>3. CASE task' = [task EXCEPT ![w] = [at |-> "confirmed", txn |-> t]]
    <3> DEFINE x == [at |-> "confirmed", txn |-> t]
    <3>1. t \in payments /\ t \in Txns
      BY <1>0, <1>3, <2>2, TaskFields DEF WebhookConfirm, At, Vouched
    <3>2. x \in Tasks
      BY <3>1 DEF Tasks
    <3>3. t \in payments'
      BY <3>1, PaymentsStep
    <3>4. Vouched(x)' /\ Alone(w, x)
      BY <3>3 DEF Vouched, Alone, Cancelling, Rescheduling, Rebooked
    <3> QED BY <2>3, <3>2, <3>4 DEF WorkerMoves
  <2> QED BY <1>3, <2>1, <2>2, <2>3 DEF WebhookConfirm, Goto
<1>4. ASSUME NEW w \in Workers, NEW b \in Bookings, NEW pct \in RefundPcts, CancelQuote(w, b, pct)
      PROVE  Goal
  <2> DEFINE refund == (booking[b].total * pct) \div 100
  <2>1. pct \in 0 .. 100
    BY BookingConstants
  <2>2. booking[b].total \in Nat
    BY <1>0
  <2>3. refund \in Nat /\ (refund > 0 => booking[b].total > 0)
    <3>1. booking[b].total * pct \in Nat
      BY <2>1, <2>2
    <3>2. booking[b].total = 0 => booking[b].total * pct = 0
      BY <2>1, <2>2
    <3> QED BY <2>2, <3>1, <3>2
  <2>4. PICK x : x = [at |-> "quoted", booking |-> b, refund |-> refund]
    OBVIOUS
  <2>5. task' = [task EXCEPT ![w] = x] /\ UNCHANGED <<booking, ticket>> /\ Issued(b)
    BY <1>4, <2>4 DEF CancelQuote, Goto, bookingVars, Sound, RowsSound, RowSound
  <2> HIDE DEF refund
  <2>6. x \in Tasks
    BY <2>3, <2>4 DEF Tasks
  <2>7. Vouched(x)' /\ Alone(w, x)
    BY <2>3, <2>4, <2>5 DEF Vouched, Alone, Cancelling, Rescheduling, Rebooked, Issued
  <2> QED BY <2>5, <2>6, <2>7 DEF WorkerMoves
<1>5. ASSUME NEW w \in Workers, NEW i \in DOMAIN refunds, SettleRead(w, i) PROVE Goal
  <2> DEFINE x == [at |-> "settling", refund |-> i]
  <2>1. i \in Nat
    BY <1>0 DEF TypeOK
  <2>2. x \in Tasks
    BY <2>1 DEF Tasks
  <2>3. task' = [task EXCEPT ![w] = x] /\ UNCHANGED refunds
    BY <1>5 DEF SettleRead, Goto, refundVars
  <2>4. Vouched(x)' /\ Alone(w, x)
    BY <2>3 DEF Vouched, Alone, Cancelling, Rescheduling, Rebooked
  <2> QED BY <2>2, <2>3, <2>4 DEF WorkerMoves
<1>6. ASSUME NEW w \in Workers, NEW b \in Bookings, RescheduleRead(w, b) PROVE Goal
  <2> DEFINE x == [at |-> "moving", booking |-> b]
  <2>1. x \in Tasks
    BY DEF Tasks
  <2>2. task' = [task EXCEPT ![w] = x] /\ UNCHANGED ticket /\ Issued(b)
    BY <1>6 DEF RescheduleRead, Goto, bookingVars, Sound, RowsSound, RowSound
  <2>3. Vouched(x)' /\ Alone(w, x)
    BY <2>2 DEF Vouched, Alone, Cancelling, Rescheduling, Rebooked, Issued
  <2> QED BY <2>1, <2>2, <2>3 DEF WorkerMoves
<1>7. ASSUME NEW w \in Workers, NEW h \in Holds, NEW S, NEW m, RescheduleHold(w, h, S, m) PROVE Goal
  <2>1. PICK x : x = [at |-> "reheld", booking |-> task[w].booking, hold |-> h]
    OBVIOUS
  <2>2. task[w].booking \in Bookings /\ Issued(task[w].booking)
    BY <1>0, <1>7, TaskFields DEF RescheduleHold, At, Rescheduling, Vouched
  <2>3. x \in Tasks
    BY <2>1, <2>2 DEF Tasks
  <2>4. /\ task' = [task EXCEPT ![w] = x] /\ UNCHANGED ticket
        /\ Inv!AcquireHold(h, S, m)
    BY <1>7, <2>1 DEF RescheduleHold, Goto, bookingVars
  <2>5. status'[h] # "NONE"
    BY <1>0, <2>4 DEF Inv!AcquireHold, Inv!NewHold, TypeOK, Inv!TypeOK
  <2>6. Vouched(x)' /\ Alone(w, x)
    BY <2>1, <2>2, <2>4, <2>5 DEF Vouched, Alone, Cancelling, Rescheduling, Rebooked, Issued
  <2> QED BY <2>3, <2>4, <2>6 DEF WorkerMoves
<1>8. ASSUME NEW w \in Workers, CancelRelease(w) PROVE Goal
  <2>1. PICK x : x = [task[w] EXCEPT !.at = "unseated"]
    OBVIOUS
  <2>2. task[w] \in [at : Cancelling, booking : Bookings, refund : Nat]
    BY <1>0, <1>8, Memory DEF CancelRelease, At, Cancelling
  <2>3. /\ x \in Tasks /\ x.at = "unseated"
        /\ x.booking = task[w].booking /\ x.refund = task[w].refund
    BY <2>1, <2>2 DEF Tasks
  <2>4. Vouched(x) /\ task[w].at \in Cancelling
    BY <1>0, <1>8, <2>3 DEF Vouched, CancelRelease, At, Cancelling, Rescheduling, Rebooked
  <2>5. Vouched(x)' /\ Alone(w, x)
    BY <2>3, <2>4, StaysVouched DEF Rebooked, Alone
  <2>6. task' = [task EXCEPT ![w] = x]
    BY <1>8, <2>1 DEF CancelRelease, Goto
  <2> QED BY <2>3, <2>5, <2>6 DEF WorkerMoves
<1>9. ASSUME NEW w \in Workers, RescheduleVacate(w) PROVE Goal
  <2>1. PICK x : x = [task[w] EXCEPT !.at = "vacated"]
    OBVIOUS
  <2>2. task[w] \in [at : {"reheld", "vacated"}, booking : Bookings, hold : Holds]
    BY <1>0, <1>9, Memory DEF RescheduleVacate, At
  <2>3. /\ x \in Tasks /\ x.at = "vacated"
        /\ x.booking = task[w].booking /\ x.hold = task[w].hold
    BY <2>1, <2>2 DEF Tasks
  <2>4. Vouched(x)
    BY <1>0, <1>9, <2>3 DEF Vouched, RescheduleVacate, At, Cancelling, Rescheduling, Rebooked
  <2>5. Vouched(x)' /\ Alone(w, x)
    BY <2>3, <2>4, StaysVouched DEF Rebooked, Alone
  <2>6. task' = [task EXCEPT ![w] = x]
    BY <1>9, <2>1 DEF RescheduleVacate, Goto
  <2> QED BY <2>3, <2>5, <2>6 DEF WorkerMoves
<1>10. ASSUME NEW w \in Workers, NEW b \in Bookings, RescheduleBook(w, b) PROVE Goal
  <2>1. PICK x : x = [at |-> "rebooked", booking |-> task[w].booking, new |-> b]
    OBVIOUS
  <2>2. /\ task[w].booking \in Bookings /\ Issued(task[w].booking) /\ task[w].hold \in Holds
    BY <1>0, <1>10, TaskFields DEF RescheduleBook, At, Rescheduling, Vouched
  <2>3. x \in Tasks
    BY <2>1, <2>2 DEF Tasks
  <2>4. task' = [task EXCEPT ![w] = x] /\ UNCHANGED ticket /\ CreateBooking(b, task[w].hold)
    BY <1>10, <2>1 DEF RescheduleBook, Goto
  <2>5. /\ booking'[b].status # "NONE" /\ booking'[b].of = None /\ ~Known(b)
    BY <1>0, <2>2, <2>4, BookingMade
  <2>6. Vouched(x)'
    BY <2>1, <2>2, <2>4, <2>5 DEF Vouched, Cancelling, Rescheduling, Rebooked, Issued, Known
  <2>7. Alone(w, x)
    BY <1>0, <2>1, <2>5 DEF Alone, Vouched
  <2> QED BY <2>3, <2>4, <2>6, <2>7 DEF WorkerMoves
<1>11. ASSUME NEW w \in Workers, NEW x, x = [task[w] EXCEPT !.at = x.at], task[w].at \in Rebooked,
              x.at \in Rebooked, task' = [task EXCEPT ![w] = x],
              booking'[task[w].new].of = booking[task[w].new].of
       PROVE  Goal
  <2>1. task[w] \in [at : Rebooked \cup {"linked"}, booking : Bookings, new : Bookings]
    BY <1>0, <1>11, Memory
  <2>2. /\ x \in [at : Rebooked \cup {"linked"}, booking : Bookings, new : Bookings]
        /\ x.booking = task[w].booking /\ x.new = task[w].new
    BY <1>11, <2>1
  <2>3. x \in Tasks
    BY <2>2 DEF Tasks, Rebooked
  <2>4. Vouched(x)
    BY <1>0, <1>11, <2>2 DEF Vouched, Cancelling, Rescheduling, Rebooked
  <2>5. Vouched(x)'
    BY <1>11, <2>2, <2>3, <2>4, StaysVouched
  <2>6. Alone(w, x)
    BY <1>0, <1>11, <2>2 DEF Alone
  <2> QED BY <1>11, <2>3, <2>5, <2>6 DEF WorkerMoves
<1>12. ASSUME NEW w \in Workers, RescheduleRetire(w) PROVE Goal
  <2>1. PICK x : x = [task[w] EXCEPT !.at = "retired"]
    OBVIOUS
  <2>2. task[w] \in [at : Rebooked \cup {"linked"}, booking : Bookings, new : Bookings]
    BY <1>0, <1>12, Memory DEF RescheduleRetire, At, Rebooked
  <2>3. SetStatus(task[w].booking, "CANCELLED")
    BY <1>12 DEF RescheduleRetire
  <2>4. booking'[task[w].new].of = booking[task[w].new].of
    BY <1>0, <2>2, <2>3, StatusMoves DEF BookingStatuses
  <2>5. task[w].at \in Rebooked /\ x.at = "retired" /\ task' = [task EXCEPT ![w] = x]
    BY <1>12, <2>1, <2>2 DEF RescheduleRetire, At, Goto, Rebooked
  <2> QED BY <1>11, <2>1, <2>4, <2>5 DEF Rebooked
<1>13. ASSUME NEW w \in Workers, RescheduleVoid(w) PROVE Goal
  <2>1. PICK x : x = [task[w] EXCEPT !.at = "voided"]
    OBVIOUS
  <2>2. task[w] \in [at : Rebooked \cup {"linked"}, booking : Bookings, new : Bookings]
    BY <1>0, <1>13, Memory DEF RescheduleVoid, At, Rebooked
  <2>3. /\ task[w].at \in Rebooked /\ x.at = "voided" /\ task' = [task EXCEPT ![w] = x]
        /\ UNCHANGED booking
    BY <1>13, <2>1, <2>2 DEF RescheduleVoid, At, Goto, Rebooked
  <2> QED BY <1>11, <2>1, <2>3 DEF Rebooked
<1>14. ASSUME NEW w \in Workers, RescheduleIgnore(w) PROVE Goal
  <2>1. PICK x : x = [task[w] EXCEPT !.at = IF @ = "rebooked" THEN "retired" ELSE "voided"]
    OBVIOUS
  <2>2. task[w] \in [at : Rebooked \cup {"linked"}, booking : Bookings, new : Bookings]
    BY <1>0, <1>14, Memory DEF RescheduleIgnore, At, Rebooked
  <2>3. /\ task[w].at \in Rebooked /\ x.at \in {"retired", "voided"} /\ UNCHANGED booking
    BY <1>14, <2>1, <2>2 DEF RescheduleIgnore, At, bookingVars, Rebooked
  <2>4. task' = [task EXCEPT ![w] = x] /\ x = [task[w] EXCEPT !.at = x.at]
    BY <1>14, <2>1, <2>2 DEF RescheduleIgnore
  <2> QED BY <1>11, <2>3, <2>4 DEF Rebooked
<1>15. ASSUME NEW w \in Workers, RescheduleLink(w) PROVE Goal
  <2>1. CASE task' = [task EXCEPT ![w] = Idle]
    BY <1>1, <2>1
  <2>2. CASE task' # [task EXCEPT ![w] = Idle]
    <3>1. PICK x : x = [task[w] EXCEPT !.at = "linked"]
      OBVIOUS
    <3>2. task[w] \in [at : Rebooked \cup {"linked"}, booking : Bookings, new : Bookings]
      BY <1>0, <1>15, Memory DEF RescheduleLink, At, Rebooked
    <3> DEFINE o == task[w].booking
               b == task[w].new
               diff == booking[b].total - booking[o].total
    <3>3. /\ x \in Tasks /\ x.at = "linked" /\ x.booking = o /\ x.new = b
      BY <3>1, <3>2 DEF Tasks
    <3>4. task' = [task EXCEPT ![w] = x] /\ ~(diff > 0) /\ UNCHANGED ticket
      BY <1>15, <2>2, <3>1 DEF RescheduleLink, Goto
    <3>5. /\ o \in Bookings /\ b \in Bookings /\ booking'[b].of = o
          /\ \A c \in Bookings : /\ booking'[c].status = booking[c].status
                                 /\ booking'[c].total = booking[c].total
      BY <1>0, <1>15, BookingLinked
    <3>6. task[w].at = "voided" /\ Issued(o) /\ Known(b)
      BY <1>0, <1>15 DEF RescheduleLink, At, Vouched, Rebooked, Rescheduling
    <3>7. booking[b].total <= booking[o].total
      BY <1>0, <3>4, <3>5
    <3> HIDE DEF o, b, diff
    <3>8. Vouched(x)'
      BY <3>3, <3>4, <3>5, <3>6, <3>7
         DEF Vouched, Cancelling, Rescheduling, Rebooked, Issued, Known
    <3>9. Alone(w, x)
      BY <1>0, <3>3, <3>6 DEF Alone, Rebooked, b
    <3> QED BY <3>3, <3>4, <3>8, <3>9 DEF WorkerMoves
  <2> QED BY <2>1, <2>2
<1>16. UNCHANGED task => Goal
  OBVIOUS
<1> HIDE DEF Goal
<1>17. Goal
  BY <1>1, <1>2, <1>3, <1>4, <1>5, <1>6, <1>7, <1>8, <1>9, <1>10, <1>12, <1>13, <1>14, <1>15, <1>16
     DEF Next, WorkerStep, vars, workerVars, SeatsMoveAlone, HoldSeats, BookHold, PaymentIntent,
         WebhookReject, WebhookFinalise, CancelRecord, SettleRefund, RescheduleSeatTaken,
         RescheduleCompensate, RescheduleFail, RescheduleSettle, Goto
<1> QED BY <1>17 DEF Goal


LEMMA WorkersStep == Sound /\ [Next]_vars => WorkersSound' /\ task' \in [Workers -> Tasks]
<1> SUFFICES ASSUME Sound, [Next]_vars PROVE WorkersSound' /\ task' \in [Workers -> Tasks]
    OBVIOUS
<1>0. /\ TypeOK /\ task \in [Workers -> Tasks]
      /\ \A w \in Workers : Vouched(task[w])
      /\ \A v, w \in Workers :
            v # w /\ {task[v].at, task[w].at} \subseteq Rebooked \cup {"linked"}
               => task[v].new # task[w].new
  BY DEF Sound, WorkersSound, WorkerSound, NewBookingsApart, TypeOK
\* A worker that does not move keeps its new booking, since only its owner links it.
<1>1. ASSUME NEW v \in Workers, NEW x, x = task[v], task'[v] = x PROVE Vouched(x)'
  <2>1. x \in Tasks /\ Vouched(x)
    BY <1>0, <1>1
  <2>2. ASSUME x.at \in Rebooked \cup {"linked"}, booking'[x.new].of # booking[x.new].of
        PROVE  FALSE
    <3>1. x.new \in Bookings /\ Known(x.new)
      BY <2>1, <2>2, TaskFields DEF Vouched
    <3>2. PICK u \in Workers : RescheduleLink(u) /\ x.new = task[u].new
      BY <2>2, <3>1, BookingsStay
    <3>3. task[u].at = "voided"
      BY <3>2 DEF RescheduleLink, At
    <3>4. u = v
      BY <1>0, <1>1, <2>2, <3>2, <3>3 DEF Rebooked
    <3>5. task[v] \in [at : Rebooked \cup {"linked"}, booking : Bookings, new : Bookings]
      BY <1>0, <3>3, <3>4, Memory DEF Rebooked
    <3>6. task'[v] \in {Idle, [task[v] EXCEPT !.at = "linked"]}
      BY <1>0, <3>2, <3>4 DEF RescheduleLink, Goto
    <3>7. task'[v].at \in {"idle", "linked"}
      BY <3>5, <3>6 DEF Idle
    <3> QED BY <1>1, <3>3, <3>4, <3>7
  <2> QED BY <2>1, <2>2, StaysVouched
<1>2. CASE UNCHANGED task
  <2>1. \A v \in Workers : Vouched(task[v])'
    BY <1>1, <1>2 DEF Vouched
  <2> QED BY <1>0, <1>2, <2>1 DEF WorkersSound, WorkerSound, NewBookingsApart
<1>3. ASSUME NEW w \in Workers, NEW x \in Tasks, WorkerMoves(w, x)
      PROVE  WorkersSound' /\ task' \in [Workers -> Tasks]
  <2>1. /\ task' \in [Workers -> Tasks] /\ task'[w] = x
        /\ \A v \in Workers \ {w} : task'[v] = task[v]
    BY <1>0, <1>3, Stepped DEF WorkerMoves
  <2>2. ASSUME NEW v \in Workers PROVE Vouched(task[v])'
    <3>1. CASE v = w
      BY <1>3, <2>1, <3>1 DEF WorkerMoves, Vouched
    <3>2. CASE v # w
      BY <1>1, <2>1, <3>2 DEF Vouched
    <3> QED BY <3>1, <3>2
  <2>3. NewBookingsApart'
    BY <1>0, <1>3, <2>1 DEF NewBookingsApart, WorkerMoves, Alone
  <2> QED BY <2>1, <2>2, <2>3 DEF WorkersSound, WorkerSound
<1> QED BY <1>2, <1>3, OneWorkerMoves

-----------------------------------------------------------------------------
(* Everything together                                                      *)

LEMMA StrandedStep ==
    ASSUME Sound, [Next]_vars
    PROVE  /\ stranded' \subseteq Bookings /\ stranded \subseteq stranded'
           /\ faults' \in 0 .. MaxFaults
<1>0. /\ TypeOK /\ stranded \subseteq Bookings /\ faults \in 0 .. MaxFaults /\ MaxFaults \in Nat
  BY BookingConstants DEF Sound, TypeOK
<1>1. Fault => faults' \in 0 .. MaxFaults
  BY <1>0 DEF Fault
<1>2. ASSUME NEW w \in Workers, RescheduleFail(w) PROVE stranded' \in SUBSET Bookings /\ stranded \subseteq stranded'
  <2>1. task[w].booking \in Bookings
    BY <1>0, <1>2, Memory DEF RescheduleFail, At
  <2> QED BY <1>0, <1>2, <2>1 DEF RescheduleFail
<1>3. ASSUME UNCHANGED <<stranded, faults>> 
      PROVE  stranded' \in SUBSET Bookings /\ stranded \subseteq stranded' /\ faults' \in 0 .. MaxFaults
  BY <1>0, <1>3
<1>4. ASSUME NEW w \in Workers, RescheduleIgnore(w) 
      PROVE  stranded' \in SUBSET Bookings /\ stranded \subseteq stranded' /\ Fault
  BY <1>0, <1>4 DEF RescheduleIgnore
<1>5. ASSUME NEW w \in Workers, RescheduleFail(w) PROVE Fault
  BY <1>5 DEF RescheduleFail
<1> QED
  BY <1>1, <1>2, <1>3, <1>4, <1>5
     DEF Next, WorkerStep, vars, workerVars, SeatsMoveAlone, HoldSeats, BookHold, PaymentIntent,
         WebhookPay, WebhookReject, WebhookConfirm, WebhookFinalise, CancelQuote, CancelRelease,
         CancelRecord, SettleRead, SettleRefund, RescheduleRead, RescheduleSeatTaken,
         RescheduleHold, RescheduleCompensate, RescheduleVacate, RescheduleBook,
         RescheduleRetire, RescheduleVoid, RescheduleLink, RescheduleSettle, Goto

LEMMA SoundInit == Init => Sound
<1> SUFFICES ASSUME Init PROVE Sound
    OBVIOUS
<1>1. Seated!Init
  BY DEF Init, Inv!Init, Seated!Init, Inv!Segments, Seated!Segments
<1>2. Inv!TypeOK
  BY <1>1, SeatConstants, Seated!TypeInit, SameTypes
<1>3. NoBooking \in BookingRows
  BY DEF NoBooking, BookingRows, BookingStatuses
<1>4. TypeOK
  BY <1>2, <1>3, BookingConstants
     DEF Init, TypeOK, EmptyJournal, Journals, Tasks
<1>5. RowsSound
  BY DEF Init, RowsSound, RowSound, NoBooking, Known, Issued
<1>6. PricesStand /\ RefundsOfCancelled
  BY DEF Init, PricesStand, RefundsOfCancelled
<1>7. WorkersSound
  BY DEF Init, WorkersSound, WorkerSound, Vouched, NewBookingsApart, Idle, Cancelling,
         Rescheduling, Rebooked
<1> QED BY <1>4, <1>5, <1>6, <1>7 DEF Sound

LEMMA SoundStep == Sound /\ [Next]_vars => Sound'
<1> SUFFICES ASSUME Sound, [Next]_vars PROVE Sound'
    OBVIOUS
<1>1. TypeOK'
  BY SeatTypesStep, BookingsStay, PaymentsStep, RefundsStep, BooksStep, WorkersStep, StrandedStep
     DEF TypeOK
<1> QED BY <1>1, RowsStep, PaymentsStep, RefundsStep, WorkersStep DEF Sound

LEMMA SpecSound == Spec => []Sound
<1> QED BY SoundInit, SoundStep, PTL DEF Spec

\* Every row, reference, refund and journal, and whatever a handler remembers between two
\* transactions, stays of its type: in particular each handler finds the booking, the hold
\* and the refund it looks up (003_commerce_finance.sql, the steps of the handlers).
THEOREM BookingTypes == Spec => []TypeOK
<1>1. Sound => TypeOK
  BY DEF Sound
<1> QED BY <1>1, SpecSound, PTL

\* The handlers of httpapi change seats, holds and their logs only as inventory-service
\* does: Booking implements the specification of Inventory.
THEOREM BookingImplementsInventory == Spec => Seated!Spec
<1>1. Init => Seated!Init
  BY DEF Init, Inv!Init, Seated!Init, Inv!Segments, Seated!Segments
<1> QED BY <1>1, SeatsStep, SpecSound, PTL DEF Spec, Seated!Spec

\* So no seat is sold twice, whatever the handlers, the payments and the sweeper do.
THEOREM BookingNeverSellsTwice == Spec => []Seated!NoDoubleSale
<1> QED BY BookingImplementsInventory, SeatConstants, Seated!SeatsNeverSoldTwice, PTL


-----------------------------------------------------------------------------
(* Who sells seats, who gives them back, who issues tickets                 *)

LEMMA CallEffects ==
    ASSUME TypeOK, NEW h \in Holds
    PROVE  /\ \A g \in Holds : Inv!ConfirmHold(g) =>
                 status[g] = "HELD" /\ status'[h] = IF h = g THEN "CONFIRMED" ELSE status[h]
           /\ \A g \in Holds : Inv!ReleaseHold(g) =>
                 status[g] = "HELD" /\ status'[h] = IF h = g THEN "RELEASED" ELSE status[h]
           /\ \A g \in Holds : Inv!ReleaseConfirmed(g) =>
                 status[g] = "CONFIRMED" /\ status'[h] = IF h = g THEN "RELEASED" ELSE status[h]
           /\ \A g \in Holds : Inv!DeadlinePasses(g) => UNCHANGED status
           /\ \A g \in Holds : \A S, m : Inv!AcquireHold(g, S, m) =>
                 (status'[h] = "CONFIRMED" <=> status[h] = "CONFIRMED")
           /\ \A H : Inv!SweepExpired(H) => (status'[h] = "CONFIRMED" <=> status[h] = "CONFIRMED")
<1>0. status \in [Holds -> Inv!Statuses]
  BY DEF TypeOK, Inv!TypeOK
<1> QED
  BY <1>0 DEF Inv!ConfirmHold, Inv!ReleaseHold, Inv!ReleaseConfirmed, Inv!DeadlinePasses,
              Inv!holdVars, Inv!AcquireHold, Inv!NewHold, Inv!SweepExpired, Inv!ReleaseBits

\* The booking a worker looks up: that of the payment it confirms, or the one it cancels
\* or moves.
PaidBooking(w) == intent[task[w].txn].booking
Vacates(w) == CancelRelease(w) \/ RescheduleVacate(w)

LEMMA LookedUp ==
    ASSUME Sound, NEW w \in Workers
    PROVE  /\ task[w].at \in {"paid", "confirmed"} =>
                 task[w].txn \in payments /\ PaidBooking(w) \in Bookings /\ Known(PaidBooking(w))
           /\ task[w].at \in Cancelling \cup Rescheduling =>
                 task[w].booking \in Bookings /\ Issued(task[w].booking) /\ Known(task[w].booking)
<1>0. task[w] \in Tasks /\ Vouched(task[w])
  BY DEF Sound, TypeOK, WorkersSound, WorkerSound
<1>1. ASSUME task[w].at \in {"paid", "confirmed"}
      PROVE  task[w].txn \in payments /\ PaidBooking(w) \in Bookings /\ Known(PaidBooking(w))
  <2>1. task[w].txn \in payments
    BY <1>0, <1>1 DEF Vouched
  <2>2. task[w].txn \in DOMAIN intent /\ intent[task[w].txn] \in Intents
    BY <2>1 DEF Sound, TypeOK
  <2> QED BY <2>1, <2>2 DEF Sound, PricesStand, PaidBooking, Intents
<1>2. ASSUME task[w].at \in Cancelling \cup Rescheduling
      PROVE  task[w].booking \in Bookings /\ Issued(task[w].booking) /\ Known(task[w].booking)
  BY <1>0, <1>2, TaskFields, IssuedIsKnown DEF Vouched
<1> QED BY <1>1, <1>2

\* Seats are sold by a payment that confirms, and given back by a handler that cancels or
\* moves a booking of the hold: nothing else in the API does.
LEMMA WhoSellsSeats ==
    ASSUME Sound, [Next]_vars, NEW h \in Holds
    PROVE  /\ status[h] # "CONFIRMED" /\ status'[h] = "CONFIRMED" =>
                 \E w \in Workers : WebhookConfirm(w) /\ booking[PaidBooking(w)].hold = h
           /\ status[h] = "CONFIRMED" /\ status'[h] # "CONFIRMED" =>
                 \E w \in Workers : Vacates(w) /\ booking[task[w].booking].hold = h
<1> DEFINE Same == status'[h] = "CONFIRMED" <=> status[h] = "CONFIRMED"
           Goal ==
    /\ status[h] # "CONFIRMED" /\ status'[h] = "CONFIRMED" =>
          \E w \in Workers : WebhookConfirm(w) /\ booking[PaidBooking(w)].hold = h
    /\ status[h] = "CONFIRMED" /\ status'[h] # "CONFIRMED" =>
          \E w \in Workers : Vacates(w) /\ booking[task[w].booking].hold = h
<1>0. TypeOK
  BY DEF Sound
<1>1. Same => Goal
  OBVIOUS
<1>2. UNCHANGED inventoryVars => Same
  BY DEF inventoryVars
<1>3. ASSUME NEW g \in Holds, Inv!ReleaseHold(g) \/ Inv!DeadlinePasses(g) PROVE Same
  BY <1>0, <1>3, CallEffects
<1>4. ASSUME NEW g \in Holds, NEW S, NEW m, Inv!AcquireHold(g, S, m) PROVE Same
  BY <1>0, <1>4, CallEffects
<1>5. ASSUME NEW H, Inv!SweepExpired(H) PROVE Same
  BY <1>0, <1>5, CallEffects
<1>6. ASSUME NEW w \in Workers, WebhookConfirm(w) PROVE Goal
  <2> DEFINE g == booking[PaidBooking(w)].hold
  <2>1. PaidBooking(w) \in Bookings /\ Known(PaidBooking(w))
    BY <1>6, LookedUp DEF WebhookConfirm, At
  <2>2. g \in Holds
    BY <2>1, HoldOf
  <2>3. Inv!ConfirmHold(g) \/ UNCHANGED inventoryVars
    BY <1>6 DEF WebhookConfirm, PaidBooking
  <2>4. CASE Inv!ConfirmHold(g)
    <3>1. status[g] = "HELD" /\ status'[h] = IF h = g THEN "CONFIRMED" ELSE status[h]
      BY <1>0, <2>2, <2>4, CallEffects
    <3> QED BY <1>6, <3>1
  <2> QED BY <1>2, <2>3, <2>4
<1>7. ASSUME NEW w \in Workers, Vacates(w) PROVE Goal
  <2> DEFINE g == booking[task[w].booking].hold
  <2>1. task[w].booking \in Bookings /\ Known(task[w].booking)
    BY <1>7, LookedUp DEF Vacates, CancelRelease, RescheduleVacate, At, Cancelling, Rescheduling
  <2>2. g \in Holds
    BY <2>1, HoldOf
  <2>3. Inv!ReleaseConfirmed(g) \/ UNCHANGED inventoryVars
    BY <1>7 DEF Vacates, CancelRelease, RescheduleVacate, GiveUpSeats
  <2>4. CASE Inv!ReleaseConfirmed(g)
    <3>1. status[g] = "CONFIRMED" /\ status'[h] = IF h = g THEN "RELEASED" ELSE status[h]
      BY <1>0, <2>2, <2>4, CallEffects
    <3> QED BY <1>7, <3>1
  <2> QED BY <1>2, <2>3, <2>4
<1>8. ASSUME NEW w \in Workers, RescheduleCompensate(w) \/ RescheduleFail(w) PROVE Same
  <2>1. task[w].hold \in Holds
    BY <1>0, <1>8, Memory DEF RescheduleCompensate, RescheduleFail, At
  <2> QED BY <1>2, <1>3, <1>8, <2>1 DEF RescheduleCompensate, RescheduleFail, ReleaseNewHold
<1>9. ASSUME SeatsMoveAlone PROVE Same
  BY <1>3, <1>5, <1>9 DEF SeatsMoveAlone
<1>10. ASSUME NEW g \in Holds, NEW S \in SUBSET Seats, NEW m \in Journeys, HoldSeats(g, S, m) PROVE Same
  BY <1>4, <1>10 DEF HoldSeats
<1>11. ASSUME NEW w \in Workers, NEW g \in Holds, NEW S \in SUBSET Seats, NEW m \in Journeys,
              RescheduleHold(w, g, S, m)
       PROVE  Same
  BY <1>4, <1>11 DEF RescheduleHold
<1> HIDE DEF Same, Goal
<1>12. Goal
  BY <1>1, <1>2, <1>6, <1>7, <1>8, <1>9, <1>10, <1>11
     DEF Next, WorkerStep, vars, BookHold, PaymentIntent, WebhookPay, WebhookReject,
         WebhookFinalise, CancelQuote, CancelRecord, SettleRead, SettleRefund, RescheduleRead,
         RescheduleSeatTaken, RescheduleBook, RescheduleRetire, RescheduleVoid,
         RescheduleIgnore, RescheduleLink, RescheduleSettle, Vacates
<1> QED BY <1>12 DEF Goal

\* A ticket is issued by the payment of the booking or by the settlement of its reschedule.
LEMMA WhoIssues ==
    ASSUME Sound, [Next]_vars, NEW b \in Bookings, ~Issued(b), Issued(b)'
    PROVE  /\ UNCHANGED <<inventoryVars, payments, intent>>
           /\ \E w \in Workers :
                 \/ WebhookFinalise(w) /\ b = PaidBooking(w)
                 \/ RescheduleSettle(w) /\ b = task[w].new
<1> DEFINE Goal == /\ UNCHANGED <<inventoryVars, payments, intent>>
                   /\ \E w \in Workers :
                         \/ WebhookFinalise(w) /\ b = PaidBooking(w)
                         \/ RescheduleSettle(w) /\ b = task[w].new
<1>0. TypeOK /\ ticket \in [Bookings -> {"NONE", "VALID", "CANCELLED"}]
  BY DEF Sound, TypeOK
<1>1. UNCHANGED ticket => FALSE
  BY DEF Issued
<1>2. ASSUME NEW c \in Bookings, NEW paid, Finalise(c, paid) PROVE b = c
  BY <1>0, <1>1, <1>2 DEF Finalise, Issued, bookingVars
<1>3. ASSUME NEW w \in Workers, WebhookFinalise(w) PROVE Goal
  <2>1. PaidBooking(w) \in Bookings
    BY <1>3, LookedUp DEF WebhookFinalise, At
  <2>2. b = PaidBooking(w)
    BY <1>2, <1>3, <2>1 DEF WebhookFinalise, PaidBooking
  <2> QED BY <1>3, <2>2 DEF WebhookFinalise, paymentVars
<1>4. ASSUME NEW w \in Workers, RescheduleSettle(w) PROVE Goal
  <2>1. task[w].new \in Bookings
    BY <1>0, <1>4, Memory DEF RescheduleSettle, At, Rebooked
  <2>2. b = task[w].new
    BY <1>2, <1>4, <2>1 DEF RescheduleSettle
  <2> QED BY <1>4, <2>2 DEF RescheduleSettle, paymentVars
<1>5. ASSUME NEW w \in Workers, CancelRecord(w) \/ RescheduleVoid(w) PROVE FALSE
  <2>1. task[w].booking \in Bookings /\ Issued(task[w].booking)
    BY <1>5, LookedUp DEF CancelRecord, RescheduleVoid, At, Cancelling, Rescheduling, Rebooked
  <2> QED BY <1>0, <1>5, <2>1 DEF CancelRecord, RescheduleVoid, Issued
<1> HIDE DEF Goal
<1>6. Goal
  BY <1>1, <1>3, <1>4, <1>5
     DEF Next, WorkerStep, vars, bookingVars, SeatsMoveAlone, HoldSeats, BookHold, PaymentIntent,
         WebhookPay, WebhookReject, WebhookConfirm, CancelQuote, CancelRelease, SettleRead,
         SettleRefund, RescheduleRead, RescheduleSeatTaken, RescheduleHold,
         RescheduleCompensate, RescheduleVacate, RescheduleBook, RescheduleFail,
         RescheduleRetire, RescheduleIgnore, RescheduleLink
<1> QED BY <1>6 DEF Goal


-----------------------------------------------------------------------------
(* Nothing is sold or ticketed that nobody paid for                         *)

LEMMA SoldStaysPaid == Sound /\ NothingUnpaid /\ [Next]_vars => SoldSeatsArePaid'
<1> SUFFICES ASSUME Sound, NothingUnpaid, [Next]_vars, NEW h \in Holds, status'[h] = "CONFIRMED"
             PROVE  \E t \in payments' : booking'[intent'[t].booking].hold = h
    BY DEF SoldSeatsArePaid
<1>1. \E t \in payments : booking[intent[t].booking].hold = h
  <2>1. CASE status[h] = "CONFIRMED"
    BY <2>1 DEF NothingUnpaid, SoldSeatsArePaid
  <2>2. CASE status[h] # "CONFIRMED"
    <3>1. PICK w \in Workers : WebhookConfirm(w) /\ booking[PaidBooking(w)].hold = h
      BY <2>2, WhoSellsSeats
    <3>2. task[w].txn \in payments
      BY <3>1, LookedUp DEF WebhookConfirm, At
    <3> QED BY <3>1, <3>2 DEF PaidBooking
  <2> QED BY <2>1, <2>2
<1>2. PICK t \in payments : booking[intent[t].booking].hold = h
  BY <1>1
<1>3. t \in DOMAIN intent /\ intent[t] \in Intents /\ Known(intent[t].booking)
  BY DEF Sound, TypeOK, PricesStand
<1>4. intent[t].booking \in Bookings
  BY <1>3 DEF Intents
<1>5. t \in payments' /\ intent'[t] = intent[t]
  BY <1>3, PaymentsStep
<1>6. booking'[intent[t].booking].hold = h
  BY <1>2, <1>3, <1>4, BookingsStay
<1> QED BY <1>5, <1>6

PaidFor(b) == \E t \in payments : intent[t].booking = b /\ intent[t].amount >= Expected(b)
Exchanged(b) == LET o == booking[b].of
                IN  o # None /\ ticket[o] # "NONE" /\ booking[b].total <= booking[o].total

LEMMA TicketsStayPaid == Sound /\ NothingUnpaid /\ [Next]_vars => TicketsArePaid'
<1> SUFFICES ASSUME Sound, NothingUnpaid, [Next]_vars, NEW b \in Bookings, Issued(b)'
             PROVE  PaidFor(b)' \/ Exchanged(b)'
    BY DEF TicketsArePaid, PaidFor, Exchanged, Issued
<1>0. Sound'
  BY SoundStep
\* A payment of the booking's price covers whatever is asked for it later on.
<1>1. ASSUME NEW t \in payments, intent[t].booking = b PROVE PaidFor(b)'
  <2>1. t \in DOMAIN intent
    BY DEF Sound, TypeOK
  <2>2. t \in payments' /\ t \in DOMAIN intent' /\ intent'[t].booking = b
    BY <1>1, <2>1, PaymentsStep
  <2>3. intent'[t].amount = booking'[b].total
    BY <1>0, <2>2 DEF Sound, PricesStand
  <2>4. /\ booking'[b].due \in Nat /\ booking'[b].total \in Nat
        /\ booking'[b].due <= booking'[b].total
    BY <1>0 DEF Sound, TypeOK, BookingRows, RowsSound, RowSound
  <2>5. intent'[t].amount >= Expected(b)'
    BY <2>3, <2>4 DEF Expected
  <2> QED BY <2>2, <2>5 DEF PaidFor
<1>2. ASSUME Known(b), booking[b].of \in Bookings, Exchanged(b) PROVE Exchanged(b)'
  <2> DEFINE o == booking[b].of
  <2>1. Issued(o) /\ booking[b].total <= booking[o].total
    BY <1>2 DEF Exchanged, Issued
  <2>2. booking'[b].of = o
    <3>1. ASSUME NEW w \in Workers, RescheduleLink(w), b = task[w].new PROVE FALSE
      <4>1. booking[b].of = None
        BY <3>1 DEF RescheduleLink, At, Sound, WorkersSound, WorkerSound, Vouched, Rebooked
      <4> QED BY <1>2, <4>1, BookingConstants
    <3> QED BY <1>2, <3>1, BookingsStay
  <2>3. /\ booking'[b].total = booking[b].total /\ booking'[o].total = booking[o].total
        /\ ticket'[o] # "NONE" /\ o # None
    BY <1>2, <2>1, BookingsStay, IssuedIsKnown, BookingConstants DEF Issued
  <2> QED BY <2>1, <2>2, <2>3 DEF Exchanged
<1>3. CASE Issued(b)
  <2>1. Known(b) /\ booking[b].of \in Bookings \cup {None}
    BY <1>3, IssuedIsKnown DEF Sound, TypeOK, BookingRows
  <2>2. PaidFor(b) \/ (booking[b].of # None /\ Exchanged(b))
    BY <1>3 DEF NothingUnpaid, TicketsArePaid, Issued, PaidFor, Exchanged
  <2>3. CASE PaidFor(b)
    BY <1>1, <2>3 DEF PaidFor
  <2> QED BY <1>2, <2>1, <2>2, <2>3
<1>4. CASE ~Issued(b)
  <2>1. PICK w \in Workers :
           \/ WebhookFinalise(w) /\ b = PaidBooking(w)
           \/ RescheduleSettle(w) /\ b = task[w].new
    BY <1>4, WhoIssues
  <2>2. CASE WebhookFinalise(w) /\ b = PaidBooking(w)
    BY <1>1, <2>2, LookedUp DEF WebhookFinalise, At, PaidBooking
  <2>3. CASE RescheduleSettle(w) /\ b = task[w].new
    <3>1. /\ booking[b].of = task[w].booking /\ task[w].booking \in Bookings
          /\ Issued(task[w].booking) /\ Known(b)
          /\ booking[b].total <= booking[task[w].booking].total
      BY <2>3, LookedUp
         DEF RescheduleSettle, At, Sound, WorkersSound, WorkerSound, Vouched, Rescheduling
    <3>2. Exchanged(b)
      BY <3>1, BookingConstants DEF Exchanged, Issued
    <3> QED BY <1>2, <3>1, <3>2
  <2> QED BY <2>1, <2>2, <2>3
<1> QED BY <1>3, <1>4

\* No seat is ever sold that no payment stands for, and nobody holds a ticket who has not
\* paid for it or for the ticket it replaces: payment, seat and ticket are three
\* transactions of two services, and every handler may stop between any two of them.
THEOREM NothingUnpaidAlways == Spec => []NothingUnpaid
<1>1. Init => NothingUnpaid
  BY DEF Init, Inv!Init, NothingUnpaid, SoldSeatsArePaid, TicketsArePaid
<1>2. Sound /\ NothingUnpaid /\ [Next]_vars => NothingUnpaid'
  BY SoldStaysPaid, TicketsStayPaid DEF NothingUnpaid
<1> QED BY <1>1, <1>2, SpecSound, PTL DEF Spec


-----------------------------------------------------------------------------
(* A ticket keeps its seats and a cancellation frees them                   *)

\* The steps at which a handler has given up the seats of the booking it looks after.
Vacated == {"unseated", "vacated", "rebooked", "retired", "voided"}

Confirming(b) == \E w \in Workers : task[w].at = "confirmed" /\ PaidBooking(w) = b
Vacating(b)   == \E w \in Workers : task[w].at \in Vacated /\ task[w].booking = b

\* What the hold of a booking looks like that shares it with none and replaces none.
SeatSound(b) ==
    Known(b) /\ OnlyBookingOfItsHold(b) /\ booking[b].of = None =>
       /\ Confirming(b) /\ ~Issued(b) => status[booking[b].hold] = "CONFIRMED"
       /\ Issued(b) => status[booking[b].hold] \in {"CONFIRMED", "RELEASED"}
       /\ Ticketed(b) /\ ~LeavingSeats(b) => status[booking[b].hold] = "CONFIRMED"
       /\ Cancelled(b) \/ Vacating(b) => status[booking[b].hold] = "RELEASED"
SeatsSound == \A b \in Bookings : SeatSound(b)

\* Where a worker gets when it moves, as far as seats are concerned.
Arrives(w) ==
    \/ task[w].at \notin Vacated /\ task'[w].at \notin Vacated \cup {"confirmed"}
    \/ WebhookConfirm(w) /\ task'[w].at = "confirmed" /\ task'[w].txn = task[w].txn
    \/ CancelRecord(w) /\ task'[w].at = "idle"
    \/ RescheduleFail(w) /\ task'[w].at = "idle"
    \/ RescheduleLink(w) /\ task'[w].at \notin Vacated \cup {"confirmed"}
    \/ Vacates(w) /\ task'[w].at \in Vacated /\ task'[w].booking = task[w].booking
    \/ {task[w].at, task'[w].at} \subseteq Vacated /\ task'[w].booking = task[w].booking

LEMMA TaskFlow ==
    ASSUME Sound, [Next]_vars, NEW w \in Workers, task'[w] # task[w]
    PROVE  Arrives(w)
<1>0. TypeOK /\ task \in [Workers -> Tasks]
  BY DEF Sound, TypeOK
<1>1. ASSUME NEW v \in Workers, NEW x, task' = [task EXCEPT ![v] = x]
      PROVE  v = w /\ task'[w] = x
  BY <1>0, <1>1
<1>2. UNCHANGED task => FALSE
  OBVIOUS
<1>3. ASSUME NEW v \in Workers, NEW t, WebhookPay(v, t) PROVE Arrives(w)
  <2>1. v = w /\ task'[w].at = "paid" /\ task[w].at = "idle"
    BY <1>1, <1>3 DEF WebhookPay, Goto, At
  <2> QED BY <2>1 DEF Arrives, Vacated
<1>4. ASSUME NEW v \in Workers, WebhookConfirm(v) PROVE Arrives(w)
  <2>1. /\ v = w /\ task[w].at = "paid"
        /\ task'[w] \in {Idle, [at |-> "confirmed", txn |-> task[w].txn]}
    BY <1>1, <1>4 DEF WebhookConfirm, Goto, At
  <2> QED BY <1>4, <2>1 DEF Arrives, Vacated, Idle
<1>5. ASSUME NEW v \in Workers,
             \/ WebhookFinalise(v) \/ SettleRefund(v) \/ RescheduleSeatTaken(v)
             \/ RescheduleCompensate(v) \/ RescheduleSettle(v)
      PROVE  Arrives(w)
  <2>1. v = w /\ task'[w] = Idle /\ task[v].at \notin Vacated
    BY <1>1, <1>5 DEF WebhookFinalise, SettleRefund, RescheduleSeatTaken, RescheduleCompensate,
                      RescheduleSettle, Goto, At, Vacated
  <2> QED BY <2>1 DEF Arrives, Vacated, Idle
<1>6. ASSUME NEW v \in Workers, NEW b, NEW pct, CancelQuote(v, b, pct) PROVE Arrives(w)
  <2>1. v = w /\ task'[w].at = "quoted" /\ task[w].at = "idle"
    BY <1>1, <1>6 DEF CancelQuote, Goto, At
  <2> QED BY <2>1 DEF Arrives, Vacated
<1>7. ASSUME NEW v \in Workers, NEW i, SettleRead(v, i) PROVE Arrives(w)
  <2>1. v = w /\ task'[w].at = "settling" /\ task[w].at = "idle"
    BY <1>1, <1>7 DEF SettleRead, Goto, At
  <2> QED BY <2>1 DEF Arrives, Vacated
<1>8. ASSUME NEW v \in Workers, NEW b, RescheduleRead(v, b) PROVE Arrives(w)
  <2>1. v = w /\ task'[w].at = "moving" /\ task[w].at = "idle"
    BY <1>1, <1>8 DEF RescheduleRead, Goto, At
  <2> QED BY <2>1 DEF Arrives, Vacated
<1>9. ASSUME NEW v \in Workers, NEW h, NEW S, NEW m, RescheduleHold(v, h, S, m) PROVE Arrives(w)
  <2>1. v = w /\ task'[w].at = "reheld" /\ task[w].at = "moving"
    BY <1>1, <1>9 DEF RescheduleHold, Goto, At
  <2> QED BY <2>1 DEF Arrives, Vacated
<1>10. ASSUME NEW v \in Workers, CancelRecord(v) \/ RescheduleFail(v) PROVE Arrives(w)
  <2>1. v = w /\ task'[w] = Idle
    BY <1>1, <1>10 DEF CancelRecord, RescheduleFail, Goto
  <2> QED BY <1>10, <2>1 DEF Arrives, Idle
<1>11. ASSUME NEW v \in Workers, CancelRelease(v) PROVE Arrives(w)
  <2>1. v = w /\ task'[w] = [task[w] EXCEPT !.at = "unseated"] /\ task[w].at = "quoted"
    BY <1>1, <1>11 DEF CancelRelease, Goto, At
  <2>2. task[w] \in [at : Cancelling, booking : Bookings, refund : Nat]
    BY <1>0, <2>1, Memory DEF Cancelling
  <2>3. task'[w].at = "unseated" /\ task'[w].booking = task[w].booking
    BY <2>1, <2>2
  <2> QED BY <1>11, <2>1, <2>3 DEF Arrives, Vacated, Vacates
<1>12. ASSUME NEW v \in Workers, RescheduleVacate(v) PROVE Arrives(w)
  <2>1. v = w /\ task'[w] = [task[w] EXCEPT !.at = "vacated"] /\ task[w].at = "reheld"
    BY <1>1, <1>12 DEF RescheduleVacate, Goto, At
  <2>2. task[w] \in [at : {"reheld", "vacated"}, booking : Bookings, hold : Holds]
    BY <1>0, <2>1, Memory
  <2>3. task'[w].at = "vacated" /\ task'[w].booking = task[w].booking
    BY <2>1, <2>2
  <2> QED BY <1>12, <2>1, <2>3 DEF Arrives, Vacated, Vacates
<1>13. ASSUME NEW v \in Workers, NEW b, RescheduleBook(v, b) PROVE Arrives(w)
  <2>1. /\ v = w /\ task[w].at = "vacated" /\ task'[w].at = "rebooked"
        /\ task'[w].booking = task[w].booking
    BY <1>1, <1>13 DEF RescheduleBook, Goto, At
  <2> QED BY <2>1 DEF Arrives, Vacated
<1>14. ASSUME NEW v \in Workers,
              RescheduleRetire(v) \/ RescheduleVoid(v) \/ RescheduleIgnore(v)
       PROVE  Arrives(w)
  <2>1. task[v].at \in Rebooked
    BY <1>14 DEF RescheduleRetire, RescheduleVoid, RescheduleIgnore, At, Rebooked
  <2>2. task[v] \in [at : Rebooked \cup {"linked"}, booking : Bookings, new : Bookings]
    BY <1>0, <2>1, Memory
  <2>3. task' \in {[task EXCEPT ![v] = [task[v] EXCEPT !.at = "retired"]],
                   [task EXCEPT ![v] = [task[v] EXCEPT !.at = "voided"]]}
    BY <1>0, <1>14, <2>2 DEF RescheduleRetire, RescheduleVoid, RescheduleIgnore, Goto
  <2>4. v = w /\ task'[w] \in {[task[v] EXCEPT !.at = "retired"], [task[v] EXCEPT !.at = "voided"]}
    BY <1>1, <2>3
  <2>5. task'[w].at \in {"retired", "voided"} /\ task'[w].booking = task[w].booking
    BY <2>2, <2>4
  <2> QED BY <2>1, <2>4, <2>5 DEF Arrives, Vacated, Rebooked
<1>15. ASSUME NEW v \in Workers, RescheduleLink(v) PROVE Arrives(w)
  <2>1. /\ v = w /\ task[w].at = "voided"
        /\ task'[w] \in {Idle, [task[w] EXCEPT !.at = "linked"]}
    BY <1>1, <1>15 DEF RescheduleLink, Goto, At
  <2>2. task[w] \in [at : Rebooked \cup {"linked"}, booking : Bookings, new : Bookings]
    BY <1>0, <2>1, Memory DEF Rebooked
  <2>3. task'[w].at \in {"idle", "linked"}
    BY <2>1, <2>2 DEF Idle
  <2> QED BY <1>15, <2>1, <2>3 DEF Arrives, Vacated
<1> QED
  BY <1>2, <1>3, <1>4, <1>5, <1>6, <1>7, <1>8, <1>9, <1>10, <1>11, <1>12, <1>13, <1>14, <1>15
     DEF Next, WorkerStep, vars, workerVars, SeatsMoveAlone, HoldSeats, BookHold, PaymentIntent,
         WebhookReject


\* A handler that gives seats up: what it does to the hold, and where it is afterwards.
LEMMA VacatesWhat ==
    ASSUME Sound, NEW w \in Workers, Vacates(w)
    PROVE  /\ task[w].booking \in Bookings /\ Issued(task[w].booking) /\ Known(task[w].booking)
           /\ task'[w].at \in Vacated /\ task'[w].booking = task[w].booking
           /\ status[booking[task[w].booking].hold] = "CONFIRMED" =>
                 status'[booking[task[w].booking].hold] = "RELEASED"
<1>0. TypeOK /\ task \in [Workers -> Tasks]
  BY DEF Sound, TypeOK
<1>1. task[w].at \in {"quoted", "reheld"}
  BY DEF Vacates, CancelRelease, RescheduleVacate, At
<1>2. task[w].booking \in Bookings /\ Issued(task[w].booking) /\ Known(task[w].booking)
  BY <1>1, LookedUp DEF Cancelling, Rescheduling
<1>3. task'[w] \in {[task[w] EXCEPT !.at = "unseated"], [task[w] EXCEPT !.at = "vacated"]}
  BY <1>0 DEF Vacates, CancelRelease, RescheduleVacate, Goto
<1>4. \/ task[w] \in [at : Cancelling, booking : Bookings, refund : Nat]
      \/ task[w] \in [at : {"reheld", "vacated"}, booking : Bookings, hold : Holds]
  BY <1>0, <1>1, Memory DEF Cancelling
<1>5. task'[w].at \in Vacated /\ task'[w].booking = task[w].booking
  BY <1>3, <1>4 DEF Vacated
<1>6. ASSUME NEW h \in Holds, h = booking[task[w].booking].hold, status[h] = "CONFIRMED"
      PROVE  status'[h] = "RELEASED"
  <2>1. Inv!ReleaseConfirmed(h)
    BY <1>6 DEF Vacates, CancelRelease, RescheduleVacate, GiveUpSeats
  <2> QED BY <1>0, <1>6, <2>1, CallEffects
<1>7. booking[task[w].booking].hold \in Holds
  BY <1>2, HoldOf
<1> QED BY <1>2, <1>5, <1>6, <1>7

\* Once some handler is leaving the seats of a ticketed booking, that stays on record.
LEMMA LeavingStays ==
    ASSUME Sound, [Next]_vars, NEW b \in Bookings, LeavingSeats(b), Ticketed(b)'
    PROVE  LeavingSeats(b)'
<1>0. TypeOK /\ RowsSound /\ \A c \in Bookings : booking[c].of \in Bookings \cup {None}
  BY DEF Sound, TypeOK, BookingRows
<1>1. CASE b \in stranded
  BY <1>1, StrandedStep DEF LeavingSeats
<1>2. ASSUME NEW c \in Bookings, booking[c].of = b PROVE LeavingSeats(b)'
  <2>1. Known(c)
    BY <1>0, <1>2, BookingConstants DEF RowsSound, RowSound, NoBooking
  <2>2. ASSUME NEW w \in Workers, RescheduleLink(w), c = task[w].new PROVE FALSE
    <3>1. booking[c].of = None
      BY <2>2 DEF RescheduleLink, At, Sound, WorkersSound, WorkerSound, Vouched, Rebooked
    <3> QED BY <1>2, <3>1, BookingConstants
  <2>3. booking'[c].of = b
    BY <1>2, <2>1, <2>2, BookingsStay
  <2> QED BY <2>3 DEF LeavingSeats
<1>3. ASSUME NEW w \in Workers, task[w].at \in Vacated, task[w].booking = b
      PROVE  LeavingSeats(b)'
  <2>1. ASSUME task'[w].at \in Vacated, task'[w].booking = b PROVE LeavingSeats(b)'
    BY <2>1 DEF LeavingSeats, Vacated
  <2>2. CASE task'[w] = task[w]
    BY <1>3, <2>1, <2>2
  <2>3. CASE WebhookConfirm(w)
    BY <1>3, <2>3 DEF WebhookConfirm, At, Vacated
  <2>4. CASE CancelRecord(w)
    <3>1. PICK st \in Over : SetStatus(b, st)
      BY <1>3, <2>4 DEF CancelRecord, Over
    <3>2. booking'[b].status = st
      BY <1>0, <3>1, StatusMoves DEF Over, BookingStatuses
    <3> QED BY <3>1, <3>2 DEF Ticketed, Over
  <2>5. CASE RescheduleFail(w)
    BY <1>3, <2>5 DEF RescheduleFail, LeavingSeats
  <2>6. CASE RescheduleLink(w)
    BY <1>0, <1>3, <2>6, BookingLinked DEF LeavingSeats
  <2> QED BY <1>3, <2>1, <2>2, <2>3, <2>4, <2>5, <2>6, TaskFlow DEF Arrives
<1> QED BY <1>1, <1>2, <1>3 DEF LeavingSeats, Vacated

LEMMA WhoVacates ==
    ASSUME Sound, [Next]_vars, NEW b \in Bookings, Vacating(b)'
    PROVE  Vacating(b) \/ \E w \in Workers : Vacates(w) /\ task[w].booking = b
<1>1. PICK w \in Workers : task'[w].at \in Vacated /\ task'[w].booking = b
  BY DEF Vacating
<1>2. CASE task'[w] = task[w]
  BY <1>1, <1>2 DEF Vacating
<1>3. CASE task'[w] # task[w]
  <2>1. Arrives(w)
    BY <1>3, TaskFlow
  <2> QED BY <1>1, <2>1 DEF Arrives, Vacating, Vacated
<1> QED BY <1>2, <1>3

LEMMA WhoConfirms ==
    ASSUME Sound, [Next]_vars, NEW b \in Bookings, Confirming(b)'
    PROVE  /\ Known(b)
           /\ Confirming(b) \/ status'[booking[b].hold] = "CONFIRMED"
<1>1. PICK w \in Workers : task'[w].at = "confirmed" /\ PaidBooking(w)' = b
  BY DEF Confirming
<1>2. ASSUME task[w].at \in {"paid", "confirmed"}, task'[w].txn = task[w].txn
      PROVE  PaidBooking(w) = b /\ Known(b)
  <2>1. task[w].txn \in DOMAIN intent /\ Known(PaidBooking(w))
    BY <1>2, LookedUp DEF Sound, TypeOK
  <2>2. PaidBooking(w)' = PaidBooking(w)
    BY <1>2, <2>1, PaymentsStep DEF PaidBooking
  <2> QED BY <1>1, <2>1, <2>2
<1>3. CASE task'[w] = task[w]
  BY <1>1, <1>2, <1>3 DEF Confirming
<1>4. CASE task'[w] # task[w]
  <2>1. WebhookConfirm(w) /\ task'[w].txn = task[w].txn
    BY <1>1, <1>4, TaskFlow DEF Arrives, Vacated
  <2>2. PaidBooking(w) = b /\ Known(b)
    BY <1>2, <2>1 DEF WebhookConfirm, At
  <2> DEFINE h == booking[b].hold
  <2>3. h \in Holds
    BY <2>2, HoldOf
  <2>4. task' # [task EXCEPT ![w] = Idle]
    BY <1>1 DEF Sound, TypeOK, Idle
  <2>5. Inv!ConfirmHold(h) \/ (status[h] = "CONFIRMED" /\ UNCHANGED inventoryVars)
    BY <2>1, <2>2, <2>4 DEF WebhookConfirm, PaidBooking, Goto
  <2>6. TypeOK
    BY DEF Sound
  <2> HIDE DEF h
  <2>7. status'[h] = "CONFIRMED"
    BY <2>3, <2>5, <2>6, CallEffects DEF inventoryVars
  <2> QED BY <2>2, <2>7 DEF h
<1> QED BY <1>3, <1>4

LEMMA WhoCancels ==
    ASSUME Sound, [Next]_vars, NEW b \in Bookings, Cancelled(b)'
    PROVE  Cancelled(b) \/ Vacating(b)
<1> DEFINE Goal == Cancelled(b) \/ Vacating(b)
<1>0. TypeOK
  BY DEF Sound
<1>1. UNCHANGED booking => Goal
  BY DEF Cancelled
<1>2. ASSUME NEW c \in Bookings, NEW st \in BookingStatuses, SetStatus(c, st),
             c = b => st = "TICKETED" \/ Goal
      PROVE  Goal
  BY <1>0, <1>2, StatusMoves DEF Cancelled
<1>3. ASSUME NEW c \in Bookings, NEW paid, Finalise(c, paid) PROVE Goal
  BY <1>1, <1>2, <1>3 DEF Finalise, bookingVars, BookingStatuses
<1>4. ASSUME NEW c \in Bookings, NEW h \in Holds, CreateBooking(c, h) PROVE Goal
  BY <1>0, <1>4, BookingMade DEF Cancelled
<1>5. ASSUME NEW w \in Workers, WebhookFinalise(w) PROVE Goal
  BY <1>3, <1>5, LookedUp DEF WebhookFinalise, At, PaidBooking
<1>6. ASSUME NEW w \in Workers, RescheduleSettle(w) PROVE Goal
  <2>1. task[w].new \in Bookings
    BY <1>0, <1>6, Memory DEF RescheduleSettle, At, Rebooked
  <2> QED BY <1>3, <1>6, <2>1 DEF RescheduleSettle
<1>7. ASSUME NEW w \in Workers, CancelRecord(w) \/ RescheduleRetire(w) PROVE Goal
  <2>1. task[w].at \in Vacated /\ task[w].booking \in Bookings
    BY <1>7, LookedUp DEF CancelRecord, RescheduleRetire, At, Vacated, Cancelling, Rescheduling,
                          Rebooked
  <2>2. PICK st \in BookingStatuses : SetStatus(task[w].booking, st)
    BY <1>7 DEF CancelRecord, RescheduleRetire, BookingStatuses
  <2> QED BY <1>2, <2>1, <2>2 DEF Vacating
<1>8. ASSUME NEW w \in Workers, SettleRefund(w) PROVE Goal
  <2> DEFINE c == refunds[task[w].refund].booking
  <2>1. task[w].refund \in DOMAIN refunds
    BY <1>8 DEF SettleRefund, At, Sound, WorkersSound, WorkerSound, Vouched
  <2>2. c \in Bookings /\ Cancelled(c)
    BY <1>0, <2>1, RefundRow DEF Sound, RefundsOfCancelled
  <2>3. SetStatus(c, "REFUNDED")
    BY <1>8 DEF SettleRefund
  <2> HIDE DEF c
  <2> QED BY <1>2, <2>2, <2>3 DEF BookingStatuses
<1>9. ASSUME NEW w \in Workers, RescheduleLink(w) PROVE Goal
  BY <1>0, <1>9, BookingLinked DEF Cancelled
<1>10. ASSUME NEW w \in Workers, NEW c \in Bookings, RescheduleBook(w, c) PROVE Goal
  <2>1. task[w].hold \in Holds
    BY <1>0, <1>10, Memory DEF RescheduleBook, At
  <2> QED BY <1>4, <1>10, <2>1 DEF RescheduleBook
<1>11. ASSUME NEW c \in Bookings, NEW h \in Holds, BookHold(c, h) PROVE Goal
  BY <1>4, <1>11 DEF BookHold
<1> HIDE DEF Goal
<1>12. Goal
  BY <1>1, <1>5, <1>6, <1>7, <1>8, <1>9, <1>10, <1>11
     DEF Next, WorkerStep, vars, bookingVars, SeatsMoveAlone, HoldSeats, PaymentIntent,
         WebhookPay, WebhookReject, WebhookConfirm, CancelQuote, CancelRelease, SettleRead,
         RescheduleRead, RescheduleSeatTaken, RescheduleHold, RescheduleCompensate,
         RescheduleVacate, RescheduleFail, RescheduleVoid, RescheduleIgnore
<1> QED BY <1>12 DEF Goal


\* Two bookings of one hold stay so, and what replaces another goes on replacing it.
LEMMA StillAlone ==
    ASSUME Sound, [Next]_vars, NEW b \in Bookings, Known(b), OnlyBookingOfItsHold(b)',
           booking'[b].of = None
    PROVE  OnlyBookingOfItsHold(b) /\ booking[b].of = None
<1>0. TypeOK /\ booking'[b].hold = booking[b].hold /\ booking[b].hold \in Holds
  BY HoldOf, BookingsStay DEF Sound
<1>1. ASSUME NEW c \in Bookings \ {b} PROVE booking[c].hold # booking[b].hold
  <2>1. CASE Known(c)
    BY <1>0, <2>1, BookingsStay DEF OnlyBookingOfItsHold
  <2>2. CASE ~Known(c)
    BY <1>0, <2>2, BookingConstants DEF Sound, RowsSound, RowSound, NoBooking
  <2> QED BY <2>1, <2>2
<1>2. ASSUME booking[b].of # None PROVE FALSE
  <2>1. PICK w \in Workers : RescheduleLink(w) /\ b = task[w].new
    BY <1>2, BookingsStay
  <2>2. booking'[b].of = task[w].booking /\ task[w].booking \in Bookings
    BY <1>0, <2>1, BookingLinked
  <2> QED BY <2>2, BookingConstants
<1> QED BY <1>1, <1>2 DEF OnlyBookingOfItsHold

\* A new ticket that replaces none: its payment has the seats.
LEMMA FreshTicket ==
    ASSUME Sound, [Next]_vars, NEW b \in Bookings, ~Issued(b), Issued(b)', booking[b].of = None
    PROVE  Known(b) /\ Confirming(b) /\ UNCHANGED status
<1>1. PICK w \in Workers :
         \/ WebhookFinalise(w) /\ b = PaidBooking(w)
         \/ RescheduleSettle(w) /\ b = task[w].new
  BY WhoIssues
<1>2. UNCHANGED status
  BY WhoIssues DEF inventoryVars
<1>3. CASE WebhookFinalise(w) /\ b = PaidBooking(w)
  BY <1>2, <1>3, LookedUp DEF WebhookFinalise, At, Confirming
<1>4. CASE RescheduleSettle(w) /\ b = task[w].new
  <2>1. booking[b].of = task[w].booking /\ task[w].booking \in Bookings
    BY <1>4, LookedUp
       DEF RescheduleSettle, At, Sound, WorkersSound, WorkerSound, Vouched, Rescheduling
  <2> QED BY <2>1, BookingConstants
<1> QED BY <1>1, <1>3, <1>4

LEMMA SeatSoundStep ==
    ASSUME Sound, SeatsSound, [Next]_vars, NEW b \in Bookings, Known(b)',
           OnlyBookingOfItsHold(b)', booking'[b].of = None
    PROVE  LET s == status'[booking'[b].hold]
           IN  /\ Confirming(b)' /\ ~Issued(b)' => s = "CONFIRMED"
               /\ Issued(b)' => s \in {"CONFIRMED", "RELEASED"}
               /\ Ticketed(b)' /\ ~LeavingSeats(b)' => s = "CONFIRMED"
               /\ Cancelled(b)' \/ Vacating(b)' => s = "RELEASED"
<1> DEFINE s == status'[booking'[b].hold]
<1>0. /\ Sound' /\ SeatSound(b)
  BY SoundStep DEF SeatsSound
<1>1. /\ Ticketed(b)' \/ Cancelled(b)' => Issued(b)'
      /\ Ticketed(b) \/ Cancelled(b) => Issued(b)
      /\ Issued(b) => Ticketed(b) \/ Cancelled(b)
      /\ Issued(b) => Issued(b)'
      /\ Cancelled(b) => ~Ticketed(b)'
  <2>1. /\ RowSound(b) /\ RowSound(b)' /\ booking[b].status \in BookingStatuses
    BY <1>0 DEF Sound, TypeOK, BookingRows, RowsSound
  <2> QED BY <2>1, BookingsStay DEF RowSound, Ticketed, Cancelled, Issued, BookingStatuses
<1>2. ASSUME NEW w \in Workers, Vacates(w), task[w].booking = b PROVE Issued(b) /\ Known(b)
  BY <1>2, VacatesWhat
<1>3. CASE ~Known(b)
  <2>1. booking[b] = NoBooking /\ ~Issued(b)
    BY <1>3, IssuedIsKnown DEF Sound, RowsSound, RowSound
  <2>2. ~Confirming(b)'
    BY <1>3, WhoConfirms
  <2>3. ~Issued(b)'
    BY <1>3, <2>1, FreshTicket DEF NoBooking
  <2>4. ~Vacating(b)
    BY <1>3, LookedUp DEF Vacating, Vacated, Cancelling, Rescheduling, Rebooked
  <2>5. ~Vacating(b)'
    BY <1>2, <1>3, <2>4, WhoVacates
  <2> QED BY <1>1, <2>2, <2>3, <2>5
<1>4. CASE Known(b)
  <2> DEFINE h == booking[b].hold
  <2>1. /\ h \in Holds /\ s = status'[h] /\ HoldFlow(status[h], status'[h])
    BY <1>4, HoldOf, BookingsStay, HoldsMoveOn
  <2>2. OnlyBookingOfItsHold(b) /\ booking[b].of = None
    BY <1>4, StillAlone
  <2>3. /\ Confirming(b) /\ ~Issued(b) => status[h] = "CONFIRMED"
        /\ Issued(b) => status[h] \in {"CONFIRMED", "RELEASED"}
        /\ Ticketed(b) /\ ~LeavingSeats(b) => status[h] = "CONFIRMED"
        /\ Cancelled(b) \/ Vacating(b) => status[h] = "RELEASED"
    BY <1>0, <1>4, <2>2 DEF SeatSound
  \* Only a handler that is leaving b takes seats away from its hold.
  <2>4. ASSUME status[h] = "CONFIRMED", s # "CONFIRMED"
        PROVE  Issued(b) /\ \E w \in Workers : Vacates(w) /\ task[w].booking = b
    <3>1. PICK w \in Workers : Vacates(w) /\ booking[task[w].booking].hold = h
      BY <2>1, <2>4, WhoSellsSeats
    <3>2. task[w].booking = b
      BY <2>2, <3>1, VacatesWhat DEF OnlyBookingOfItsHold
    <3> QED BY <1>2, <3>1, <3>2
  <2>5. ASSUME ~Issued(b), Issued(b)' PROVE s = "CONFIRMED"
    BY <2>1, <2>2, <2>3, <2>5, FreshTicket
  <2>6. Confirming(b)' /\ ~Issued(b)' => s = "CONFIRMED"
    BY <1>1, <2>1, <2>3, <2>4, WhoConfirms
  <2>7. Issued(b)' => s \in {"CONFIRMED", "RELEASED"}
    BY <2>1, <2>3, <2>5 DEF HoldFlow
  <2>8. ASSUME Ticketed(b)', ~LeavingSeats(b)' PROVE s = "CONFIRMED"
    <3>1. ~LeavingSeats(b)
      BY <2>8, LeavingStays
    <3>2. CASE ~Issued(b)
      BY <1>1, <2>5, <2>8, <3>2
    <3>3. CASE Issued(b) /\ s # "CONFIRMED"
      <4>1. Ticketed(b)
        BY <1>1, <2>8, <3>3
      <4>2. PICK w \in Workers : Vacates(w) /\ task[w].booking = b
        BY <2>3, <2>4, <3>1, <3>3, <4>1
      <4>3. task'[w].at \in Vacated /\ task'[w].booking = b
        BY <4>2, VacatesWhat
      <4> QED BY <2>8, <4>3 DEF LeavingSeats, Vacated
    <3> QED BY <3>2, <3>3
  <2>9. ASSUME Cancelled(b)' \/ Vacating(b)' PROVE s = "RELEASED"
    <3>1. CASE Cancelled(b) \/ Vacating(b)
      BY <2>1, <2>3, <3>1 DEF HoldFlow
    <3>2. ASSUME NEW w \in Workers, Vacates(w), task[w].booking = b PROVE s = "RELEASED"
      BY <1>2, <2>1, <2>3, <3>2, VacatesWhat DEF HoldFlow
    <3> QED BY <2>9, <3>1, <3>2, WhoCancels, WhoVacates
  <2> QED BY <2>6, <2>7, <2>8, <2>9
<1> QED BY <1>3, <1>4

LEMMA SeatsSoundStep == Sound /\ SeatsSound /\ [Next]_vars => SeatsSound'
BY SeatSoundStep DEF SeatsSound, SeatSound

LEMMA SpecSeatsSound == Spec => []SeatsSound
<1>1. Init => SeatsSound
  BY DEF Init, SeatsSound, SeatSound, Known, NoBooking
<1> QED BY <1>1, SeatsSoundStep, SpecSound, PTL DEF Spec

\* A ticketed booking that no handler is cancelling or has moved owns sold seats, whatever
\* was abandoned, swept, paid late or delivered twice meanwhile.
THEOREM TicketsAlwaysKeepSeats == Spec => []TicketKeepsSeat
<1>1. Sound /\ SeatsSound => TicketKeepsSeat
  BY DEF Sound, SeatsSound, SeatSound, TicketKeepsSeat, Ticketed, Known
<1> QED BY <1>1, SpecSound, SpecSeatsSound, PTL

\* The seats of a cancelled booking are free to be sold again, whatever payment or second
\* cancellation is still on its way.
THEOREM CancellationsAlwaysFreeSeats == Spec => []CancelledFreesSeats
<1>1. Sound /\ SeatsSound => CancelledFreesSeats
  BY DEF Sound, SeatsSound, SeatSound, CancelledFreesSeats, Cancelled, Known
<1> QED BY <1>1, SpecSound, SpecSeatsSound, PTL

-----------------------------------------------------------------------------
(* The books show what was sold                                             *)

Sold     == {b \in Bookings : Issued(b)}
Revenues == [b \in Bookings |-> Revenue(b)]
Granted  == [i \in DOMAIN refunds |-> refunds[i].amount]
Turnover == SumFunctionOnSet(Revenues, Sold)
Returned == SumFunctionOnSet(Granted, DOMAIN refunds)

LEMMA Money ==
    ASSUME Sound
    PROVE  /\ IsFiniteSet(Sold) /\ IsFiniteSet(DOMAIN refunds)
           /\ \A b \in Sold : Revenues[b] \in Int
           /\ \A i \in DOMAIN refunds : Granted[i] \in Int
           /\ Turnover \in Int /\ Returned \in Int
           /\ Earned(ledger) \in Int /\ Variance(ledger) \in Int
<1>1. IsFiniteSet(Sold)
  BY BookingConstants, FS_Subset DEF Sold
<1>2. IsFiniteSet(DOMAIN refunds)
  <2>1. refunds \in Seq(Refunds)
    BY DEF Sound, TypeOK
  <2>2. DOMAIN refunds = 1 .. Len(refunds) /\ Len(refunds) \in Nat
    BY <2>1
  <2> QED BY <2>2, FS_Interval
<1>3. ASSUME NEW b \in Sold PROVE Revenues[b] \in Int
  <2>1. /\ b \in Bookings /\ replaced[b] \in Bookings \cup {None}
        /\ \A c \in Bookings : booking[c].total \in Nat
    BY DEF Sound, TypeOK, BookingRows, Sold
  <2> QED BY <2>1 DEF Revenues, Revenue
<1>4. \A i \in DOMAIN refunds : Granted[i] \in Int
  BY RefundRow DEF Sound, Granted
<1>5. Turnover \in Int /\ Returned \in Int
  BY <1>1, <1>2, <1>3, <1>4, SumType DEF Turnover, Returned
<1>6. Earned(ledger) \in Int /\ Variance(ledger) \in Int
  BY DEF Sound, TypeOK, Journals, Accounts, Earned, Variance
<1> QED BY <1>1, <1>2, <1>3, <1>4, <1>5, <1>6

\* What a ticket brought in is never revised.
LEMMA RevenueStays ==
    ASSUME Sound, [Next]_vars, NEW b \in Bookings, Issued(b)
    PROVE  Revenue(b)' = Revenue(b)
<1>1. /\ replaced'[b] = replaced[b] /\ booking'[b].total = booking[b].total
  BY BookingsStay, IssuedIsKnown
<1>2. ASSUME replaced[b] # None
      PROVE  booking'[replaced[b]].total = booking[replaced[b]].total
  <2>1. replaced[b] \in Bookings /\ Issued(replaced[b])
    BY <1>2 DEF Sound, TypeOK, RowsSound, RowSound
  <2> QED BY <2>1, BookingsStay, IssuedIsKnown
<1> QED BY <1>1, <1>2 DEF Revenue

LEMMA BooksInit == Init => LedgerMatchesSales
<1> SUFFICES ASSUME Init PROVE LedgerMatchesSales
    OBVIOUS
<1>1. {b \in Bookings : ticket[b] # "NONE"} = {} /\ DOMAIN refunds = {}
  BY DEF Init
<1>2. Turnover = 0 /\ Returned = 0
  BY <1>1, SumEmpty DEF Turnover, Returned, Sold, Issued
<1>3. Variance(ledger) = 0 /\ -(ledger["2101"] + ledger["4101"]) = 0
  <2>1. \A a \in Accounts : ledger[a] = 0
    BY DEF Init, EmptyJournal
  <2>2. /\ ledger["1101"] = 0 /\ ledger["2101"] = 0 /\ ledger["2201"] = 0
        /\ ledger["4101"] = 0 /\ ledger["5102"] = 0
    BY <2>1 DEF Accounts
  <2>3. Variance(ledger) = 0
    BY <2>2 DEF Variance
  <2>4. ledger["2101"] + ledger["4101"] = 0
    BY <2>2
  <2> QED BY <2>3, <2>4
<1>4. /\ Variance(ledger) = 0
      /\ -(ledger["2101"] + ledger["4101"]) = Turnover - Returned
  BY <1>2, <1>3
<1> QED BY <1>4 DEF LedgerMatchesSales, Turnover, Returned, Revenues, Sold, Granted, Issued

LEMMA TurnoverStays ==
    ASSUME Sound, [Next]_vars, SameIssued
    PROVE  Turnover' = Turnover
<1>0. Sound'
  BY SoundStep
<1> DEFINE new == Revenues'
<1>1. Sold' = Sold /\ \A b \in Sold : Revenues[b] = new[b]
  BY RevenueStays DEF SameIssued, Sold, Revenues
<1>2. SumFunctionOnSet(Revenues, Sold) = SumFunctionOnSet(new, Sold)
  BY <1>1, SumSame, Money
<1> QED BY <1>1, <1>2 DEF Turnover

LEMMA ReturnedStays ==
    ASSUME Sound, [Next]_vars, SameRefunds
    PROVE  Returned' = Returned
<1> DEFINE new == Granted'
<1>1. DOMAIN refunds' = DOMAIN refunds /\ \A i \in DOMAIN refunds : Granted[i] = new[i]
  BY RefundsStep DEF SameRefunds, Granted
<1>2. SumFunctionOnSet(Granted, DOMAIN refunds) = SumFunctionOnSet(new, DOMAIN refunds)
  BY <1>1, SumSame, Money
<1> QED BY <1>1, <1>2 DEF Returned

LEMMA BooksMatchStep == Sound /\ LedgerMatchesSales /\ [Next]_vars => LedgerMatchesSales'
<1> SUFFICES ASSUME Sound, LedgerMatchesSales, [Next]_vars PROVE LedgerMatchesSales'
    OBVIOUS
<1>0. Sound'
  BY SoundStep
<1>1. Variance(ledger) = 0 /\ Earned(ledger) = Turnover - Returned
  BY DEF LedgerMatchesSales, Earned, Turnover, Returned, Revenues, Sold, Granted, Issued
<1>2. Variance(ledger') = 0 /\ Turnover \in Int /\ Returned \in Int
  BY <1>1, BooksStep, Money
<1>3. ASSUME SameIssued /\ SameRefunds /\ Earned(ledger') = Earned(ledger)
      PROVE  Earned(ledger') = Turnover' - Returned'
  BY <1>1, <1>3, TurnoverStays, ReturnedStays
<1>4. ASSUME NEW b \in Bookings, Sells(b)
      PROVE  Earned(ledger') = Turnover' - Returned'
  <2> DEFINE new == Revenues'
  <2>1. Issues(b) /\ Returned' = Returned /\ Earned(ledger') = Earned(ledger) + Price(b)
    BY <1>4, ReturnedStays DEF Sells
  <2>2. /\ b \notin Sold /\ ticket'[b] = "VALID" /\ replaced'[b] = booking[b].of
        /\ \A c \in Bookings \ {b} : ticket'[c] = ticket[c]
    BY <2>1 DEF Issues, Sold, Sound, TypeOK, RowsSound, RowSound
  <2>3. Sold' = Sold \cup {b}
    BY <2>2 DEF Sold, Issued
  <2>4. new[b] = Price(b) /\ Price(b) \in Int
    <3>1. Known(b) /\ Price(b) \in Int /\ (booking[b].of # None => booking[b].of \in Bookings)
      BY <2>1, PriceType DEF Issues, Known
    <3>2. booking[b].of # None => Known(booking[b].of)
      BY <3>1, IssuedIsKnown DEF Sound, RowsSound, RowSound
    <3>3. /\ booking'[b].total = booking[b].total
          /\ booking[b].of # None => booking'[booking[b].of].total = booking[booking[b].of].total
      BY <3>1, <3>2, BookingsStay
    <3> QED BY <2>2, <3>1, <3>3 DEF Revenues, Revenue, Price
  <2>5. \A c \in Sold : new[c] = Revenues[c]
    BY RevenueStays DEF Sold, Revenues
  <2>6. SumFunctionOnSet(new, Sold) = Turnover
    BY <2>5, Money, SumSame DEF Turnover
  <2>7. \A c \in Sold : new[c] \in Int
    BY <2>5, Money
  <2> HIDE DEF new
  <2>8. SumFunctionOnSet(new, Sold \cup {b}) = new[b] + SumFunctionOnSet(new, Sold)
    BY <2>2, <2>4, <2>7, Money, SumAdd
  <2>9. Turnover' = Price(b) + Turnover
    BY <2>3, <2>4, <2>6, <2>8 DEF Turnover, new
  <2> QED BY <1>1, <1>2, <2>1, <2>4, <2>9
<1>5. ASSUME NEW a \in Nat, GivesBack(a)
      PROVE  Earned(ledger') = Turnover' - Returned'
  <2> DEFINE new == Granted'
             i == Len(refunds) + 1
  <2>1. Turnover' = Turnover /\ Earned(ledger') = Earned(ledger) - a
    BY <1>5, TurnoverStays DEF GivesBack
  <2>2. DOMAIN refunds' = DOMAIN refunds \cup {i} /\ new[i] = a
    BY <1>5 DEF GivesBack, Granted
  <2>3. i \notin DOMAIN refunds
    <3>1. refunds \in Seq(Refunds)
      BY DEF Sound, TypeOK
    <3> QED BY <3>1
  <2>4. \A j \in DOMAIN refunds : new[j] = Granted[j]
    BY RefundsStep DEF Granted
  <2>5. SumFunctionOnSet(new, DOMAIN refunds) = Returned
    BY <2>4, Money, SumSame DEF Returned
  <2>6. \A j \in DOMAIN refunds : new[j] \in Int
    BY <2>4, Money
  <2> HIDE DEF new, i
  <2>7. SumFunctionOnSet(new, DOMAIN refunds \cup {i}) = new[i] + SumFunctionOnSet(new, DOMAIN refunds)
    BY <2>2, <2>3, <2>6, Money, SumAdd
  <2>8. Returned' = a + Returned
    BY <2>2, <2>5, <2>7 DEF Returned, new
  <2> QED BY <1>1, <1>2, <2>1, <2>8
<1>6. Earned(ledger') = Turnover' - Returned'
  BY <1>3, <1>4, <1>5, <1>1, BooksStep
<1> QED
  BY <1>2, <1>6 DEF LedgerMatchesSales, Earned, Turnover, Returned, Revenues, Sold, Granted, Issued

\* The books balance and the revenue they show is that of the bookings ticketed, each once,
\* less the refunds granted: however often a payment is delivered, however the handlers of
\* payments, cancellations and reschedules interleave, and wherever one of them stops.
THEOREM BooksAlwaysMatchSales == Spec => []LedgerMatchesSales
<1> QED BY BooksInit, BooksMatchStep, SpecSound, PTL DEF Spec
=============================================================================
