----------------------------- MODULE Inventory -----------------------------
(***************************************************************************)
(* inventory-service for one trip (services/inventory/inventory): the only *)
(* owner of seat state.  A journey from stop b to stop d occupies the      *)
(* segments b .. d-1 of a seat, and a segment mask is modelled as that set *)
(* of ordinals, so `|`, `& ~` and `& m = 0` are \cup, \ and disjointness.  *)
(*                                                                         *)
(* Every action is one PostgreSQL transaction.  Its guards are the WHERE   *)
(* clauses of its conditional UPDATEs, which PostgreSQL re-evaluates on    *)
(* the locked row and which stay true until commit because the row lock is *)
(* kept; a statement that matches no row rolls the transaction back, so a  *)
(* losing caller is a step that is not enabled.  The order in which the    *)
(* row locks are taken matters to deadlock only and is left out here.      *)
(***************************************************************************)
EXTENDS Integers, FiniteSets

CONSTANTS
    Seats,          \* the seat numbers the trip was opened with
    Crew,           \* the seats of type CREW or BLOCKED among them
    NumSegments,    \* segment_count of the trip
    Holds,          \* the hold ids the behaviour may mint
    Counters,       \* the counters that can reserve quota
    MaxQuotaSeats,  \* ceiling on the seats of one quota request (8)
    SweepLimit      \* LIMIT of one sweep (500)

ASSUME InventoryConstants ==
    /\ Crew \subseteq Seats
    /\ NumSegments \in 1 .. 62
    /\ MaxQuotaSeats \in Nat \ {0}
    /\ SweepLimit \in Nat \ {0}
    /\ IsFiniteSet(Holds)

VARIABLES
    hold,       \* hold[s]: trip_seats.segment_hold_mask
    sold,       \* sold[s]: trip_seats.segment_sold_mask
    blocked,    \* blocked[s]: trip_seats.blocked_mask
    status,     \* seat_holds.status, "NONE" before the row exists
    items,      \* items[h]: the seat_no of the hold's seat_hold_items rows
    mask,       \* mask[h]: the segment_mask all rows of one hold share
    expired,    \* the holds whose expires_at has passed
    allocated,  \* the quota_items rows with status ALLOCATED
    logHold,    \* what replaying inventory_events so far gives for hold ...
    logSold     \* ... and for sold

seatVars == <<hold, sold, blocked>>
holdVars == <<status, items, mask>>
logVars  == <<logHold, logSold>>
vars     == <<seatVars, holdVars, expired, allocated, logVars>>

Segments == 0 .. NumSegments - 1

SegmentMask(board, drop) == board .. drop - 1

Journeys == {SegmentMask(b, d) : b \in Segments, d \in 1 .. NumSegments} \ {{}}

Statuses == {"NONE", "HELD", "CONFIRMED", "RELEASED", "EXPIRED"}

QuotaRows == [counter : Counters, seat : Seats, mask : Journeys]

TypeOK ==
    /\ hold \in [Seats -> SUBSET Segments]
    /\ sold \in [Seats -> SUBSET Segments]
    /\ blocked \in [Seats -> SUBSET Segments]
    /\ status \in [Holds -> Statuses]
    /\ items \in [Holds -> SUBSET Seats]
    /\ mask \in [Holds -> SUBSET Segments]
    /\ expired \subseteq Holds
    /\ allocated \subseteq QuotaRows
    /\ logHold \in [Seats -> SUBSET Segments]
    /\ logSold \in [Seats -> SUBSET Segments]

-----------------------------------------------------------------------------
\* Bit operations on the masks of some seats.
Set(f, S, m)   == [s \in Seats |-> IF s \in S THEN f[s] \cup m ELSE f[s]]
Clear(f, S, m) == [s \in Seats |-> IF s \in S THEN f[s] \ m ELSE f[s]]

\* Mutant of Free: the WHERE clause forgets blocked_mask.
FreeButBlocked(s, m) == (hold[s] \cup sold[s]) \cap m = {}

\* (segment_hold_mask | segment_sold_mask | blocked_mask) & m = 0
Free(s, m) == (hold[s] \cup sold[s] \cup blocked[s]) \cap m = {}

\* The segments of seat s the holds of H have rows for.
Bits(H, s) == UNION {mask[h] : h \in {g \in H : s \in items[g]}}

\* The event types as ReplayMasksFromEvents folds them into its two maps.
LogHeld(S, m)   == logHold' = Set(logHold, S, m) /\ UNCHANGED logSold
\* Mutant of LogBooked: SEAT_BOOKED is logged but no longer ends the hold.
LogBookedOnly(S, m) == logSold' = Set(logSold, S, m) /\ UNCHANGED logHold
LogBooked(S, m) == /\ logHold' = Clear(logHold, S, m)
                   /\ logSold' = Set(logSold, S, m)
LogReleased(H)  == /\ logHold' = [s \in Seats |-> logHold[s] \ Bits(H, s)]
                   /\ UNCHANGED logSold

\* OpenTrip: CREW and BLOCKED seats are born unavailable on every segment.
Init ==
    /\ hold = [s \in Seats |-> {}]
    /\ sold = [s \in Seats |-> {}]
    /\ blocked = [s \in Seats |-> IF s \in Crew THEN Segments ELSE {}]
    /\ status = [h \in Holds |-> "NONE"]
    /\ items = [h \in Holds |-> {}]
    /\ mask = [h \in Holds |-> {}]
    /\ expired = {}
    /\ allocated = {}
    /\ logHold = [s \in Seats |-> {}]
    /\ logSold = [s \in Seats |-> {}]

-----------------------------------------------------------------------------
\* A new seat_holds row and its items, all for the journey m.
NewHold(h, st, S, m) ==
    /\ status[h] = "NONE"
    /\ status' = [status EXCEPT ![h] = st]
    /\ items' = [items EXCEPT ![h] = S]
    /\ mask' = [mask EXCEPT ![h] = m]

\* A traveller holds the seats S for the journey m, all or nothing.
AcquireHold(h, S, m) ==
    /\ S # {}
    /\ \A s \in S : Free(s, m)
    /\ NewHold(h, "HELD", S, m)
    /\ hold' = Set(hold, S, m)
    /\ LogHeld(S, m)
    /\ UNCHANGED <<sold, blocked, expired, allocated>>

\* Mutant of ConfirmHold: the UPDATE sets the sold bits, the hold bits stay.
ConfirmWithoutClearing(h) ==
    /\ status[h] = "HELD"
    /\ \A s \in items[h] : mask[h] \subseteq hold[s]
    /\ sold' = Set(sold, items[h], mask[h])
    /\ status' = [status EXCEPT ![h] = "CONFIRMED"]
    /\ LogBooked(items[h], mask[h])
    /\ UNCHANGED <<hold, blocked, items, mask, expired, allocated>>

\* Payment arrived.  expires_at is not looked at: until the sweeper has run,
\* a late payment still gets its seats.
ConfirmHold(h) ==
    /\ status[h] = "HELD"
    /\ \A s \in items[h] : mask[h] \subseteq hold[s]
    /\ hold' = Clear(hold, items[h], mask[h])
    /\ sold' = Set(sold, items[h], mask[h])
    /\ status' = [status EXCEPT ![h] = "CONFIRMED"]
    /\ LogBooked(items[h], mask[h])
    /\ UNCHANGED <<blocked, items, mask, expired, allocated>>

\* releaseBits: the holds of H give their HELD bits back as st.
ReleaseBits(H, st) ==
    /\ hold' = [s \in Seats |-> hold[s] \ Bits(H, s)]
    /\ status' = [h \in Holds |-> IF h \in H THEN st ELSE status[h]]
    /\ LogReleased(H)
    /\ UNCHANGED <<sold, blocked, items, mask, expired, allocated>>

ReleaseHold(h) ==
    /\ status[h] = "HELD"
    /\ ReleaseBits({h}, "RELEASED")

\* Mutant of SweepExpired: LIMIT counts the seats to release, not the holds.
SweepCountingSeats(H) ==
    /\ H # {} /\ Cardinality(UNION {items[h] : h \in H}) <= SweepLimit
    /\ \A h \in H : status[h] = "HELD" /\ h \in expired
    /\ ReleaseBits(H, "EXPIRED")

\* One sweep.  ORDER BY expires_at LIMIT picks some of the due holds, and
\* SKIP LOCKED leaves out those another transaction is settling.
SweepExpired(H) ==
    /\ H # {} /\ Cardinality(H) <= SweepLimit
    /\ \A h \in H : status[h] = "HELD" /\ h \in expired
    /\ ReleaseBits(H, "EXPIRED")

\* Mutant of ReleaseConfirmed: not idempotent, a repeated call clears again.
ReleaseConfirmedAgain(h) ==
    /\ status[h] \in {"CONFIRMED", "RELEASED"}
    /\ sold' = Clear(sold, items[h], mask[h])
    /\ status' = [status EXCEPT ![h] = "RELEASED"]
    /\ LogReleased({h})
    /\ UNCHANGED <<hold, blocked, items, mask, expired, allocated>>

\* A cancellation un-sells the seats of a CONFIRMED hold.
ReleaseConfirmed(h) ==
    /\ status[h] = "CONFIRMED"
    /\ sold' = Clear(sold, items[h], mask[h])
    /\ status' = [status EXCEPT ![h] = "RELEASED"]
    /\ LogReleased({h})
    /\ UNCHANGED <<hold, blocked, items, mask, expired, allocated>>

\* now() passes the hold's expires_at.
DeadlinePasses(h) ==
    /\ status[h] = "HELD" /\ h \notin expired
    /\ expired' = expired \cup {h}
    /\ UNCHANGED <<seatVars, holdVars, allocated, logVars>>

-----------------------------------------------------------------------------
QuotaRow(c, s, m) == [counter |-> c, seat |-> s, mask |-> m]
QuotaOf(c, S, m)  == {QuotaRow(c, s, m) : s \in S}

\* A counter takes seats out of general sale before it goes offline.
AllocateQuota(c, S, m) ==
    /\ S # {} /\ Cardinality(S) <= MaxQuotaSeats
    /\ \A s \in S : Free(s, m)
    /\ blocked' = Set(blocked, S, m)
    /\ allocated' = allocated \cup QuotaOf(c, S, m)
    /\ UNCHANGED <<hold, sold, holdVars, expired, logVars>>

\* Of the seats S the counter names, those that really are its unsold quota
\* for exactly m return to general sale; the others are skipped.
ReleaseQuota(c, S, m) ==
    LET mine == {s \in S : QuotaRow(c, s, m) \in allocated}
    IN  /\ mine # {}
        /\ blocked' = Clear(blocked, mine, m)
        /\ allocated' = allocated \ QuotaOf(c, mine, m)
        /\ UNCHANGED <<hold, sold, holdVars, expired, logVars>>

\* Mutant of SellQuota: the blocked bits alone decide, whoever they belong to.
SellBlocked(c, h, S, m) ==
    /\ S # {}
    /\ \A s \in S : m \subseteq blocked[s]
    /\ NewHold(h, "CONFIRMED", S, m)
    /\ allocated' = allocated \ QuotaOf(c, S, m)
    /\ sold' = Set(sold, S, m)
    /\ blocked' = Clear(blocked, S, m)
    /\ LogBooked(S, m)
    /\ UNCHANGED <<hold, expired>>

\* An offline sale is replayed: quota becomes sold under a new hold that is
\* CONFIRMED from birth (its expires_at is its creation time).
SellQuota(c, h, S, m) ==
    /\ S # {}
    /\ QuotaOf(c, S, m) \subseteq allocated
    /\ \A s \in S : m \subseteq blocked[s]
    /\ NewHold(h, "CONFIRMED", S, m)
    /\ allocated' = allocated \ QuotaOf(c, S, m)
    /\ sold' = Set(sold, S, m)
    /\ blocked' = Clear(blocked, S, m)
    /\ LogBooked(S, m)
    /\ UNCHANGED <<hold, expired>>

-----------------------------------------------------------------------------
Next ==
    \/ \E h \in Holds, S \in SUBSET Seats, m \in Journeys : AcquireHold(h, S, m)
    \/ \E h \in Holds : ConfirmHold(h)
    \/ \E h \in Holds : ReleaseHold(h)
    \/ \E H \in SUBSET Holds : SweepExpired(H)
    \/ \E h \in Holds : ReleaseConfirmed(h)
    \/ \E h \in Holds : DeadlinePasses(h)
    \/ \E c \in Counters, S \in SUBSET Seats, m \in Journeys :
          AllocateQuota(c, S, m)
    \/ \E c \in Counters, S \in SUBSET Seats, m \in Journeys :
          ReleaseQuota(c, S, m)
    \/ \E c \in Counters, h \in Holds, S \in SUBSET Seats, m \in Journeys :
          SellQuota(c, h, S, m)

Spec == Init /\ [][Next]_vars

\* Time passes and main.go runs the sweeper every 15 seconds, oldest deadline
\* first, so no due hold waits behind younger ones for ever.
SweeperFairness ==
    \A h \in Holds :
       /\ WF_vars(DeadlinePasses(h))
       /\ WF_vars(\E H \in SUBSET Holds : h \in H /\ SweepExpired(H))

LiveSpec == Spec /\ SweeperFairness

-----------------------------------------------------------------------------
HeldHolds      == {h \in Holds : status[h] = "HELD"}
ConfirmedHolds == {h \in Holds : status[h] = "CONFIRMED"}
LiveHolds      == HeldHolds \cup ConfirmedHolds

QuotaBits(s) == UNION {q.mask : q \in {r \in allocated : r.seat = s}}

\* The masks carry no owner (the README's "why there is no current_hold_id"),
\* so they are right only while every bit is accounted for by exactly the
\* rows that claim it: hold bits by HELD holds, sold bits by CONFIRMED ones,
\* blocked bits by crew seats and unsold quota.
MasksMatchOwners ==
    \A s \in Seats :
        /\ hold[s] = Bits(HeldHolds, s)
        /\ sold[s] = Bits(ConfirmedHolds, s)
        /\ blocked[s] = QuotaBits(s) \cup (IF s \in Crew THEN Segments ELSE {})

\* The platform's first promise: one segment of one seat is never in two
\* hands.  Two live holds, a live hold and a counter's quota, or two quota
\* rows never overlap on a seat, and none of them touches a crew seat.
HoldsExclusive ==
    \A g, h \in LiveHolds :
        g # h /\ items[g] \cap items[h] # {} => mask[g] \cap mask[h] = {}
QuotaExclusive ==
    \A q, r \in allocated :
        q # r /\ q.seat = r.seat => q.mask \cap r.mask = {}
HoldsRespectQuota ==
    \A h \in LiveHolds, q \in allocated :
        q.seat \in items[h] => mask[h] \cap q.mask = {}
CrewNeverSold ==
    /\ \A h \in LiveHolds : items[h] \cap Crew = {}
    /\ \A q \in allocated : q.seat \notin Crew

NoDoubleSale ==
    /\ HoldsExclusive
    /\ QuotaExclusive
    /\ HoldsRespectQuota
    /\ CrewNeverSold

\* The half of the event-log oracle (ReplayMasksFromEvents against LiveMasks)
\* that the mutation path keeps: replay finds exactly the live hold bits and
\* loses no sale.
ReplayCoversLive ==
    \A s \in Seats : logHold[s] = hold[s] /\ sold[s] \subseteq logSold[s]

\* The oracle as trips.go:102-104 and the README's proof 7 state it: replayed
\* and live masks never disagree.
ReplayMatchesLive == logHold = hold /\ logSold = sold

\* quota.go:35-36 and the clerk's message (counter.go:398) bound what ONE
\* counter takes out of general sale on a trip by MaxQuotaSeats.
CounterQuotaBounded ==
    \A c \in Counters :
        Cardinality({q.seat : q \in {r \in allocated : r.counter = c}})
            <= MaxQuotaSeats

\* Releasing, confirming and sweeping are called again by retries and races.
\* A bit leaves a mask only together with the row that owns it: nobody's
\* second release may free a seat that has been sold on since.
Owns(h, s, k) == s \in items[h] /\ k \in mask[h]
BitsLeaveWithOwner ==
    [][\A s \in Seats, k \in Segments :
        /\ k \in hold[s] \ hold'[s] =>
             \E h \in HeldHolds : Owns(h, s, k) /\ status'[h] # "HELD"
        /\ k \in sold[s] \ sold'[s] =>
             \E h \in ConfirmedHolds : Owns(h, s, k) /\ status'[h] = "RELEASED"
        /\ k \in blocked[s] \ blocked'[s] =>
             \E q \in allocated \ allocated' : q.seat = s /\ k \in q.mask]_vars

\* "A seat can never be stranded" (store.go:447-452): whatever is held stops
\* being held, by confirmation, release or the sweeper.
SeatNeverStranded ==
    \A s \in Seats, k \in Segments : (k \in hold[s]) ~> (k \notin hold[s])

-----------------------------------------------------------------------------
\* The claims on a cell that the rows of the database state.
ClaimsOn(s, k) ==
    {[kind |-> "held", who |-> h] : h \in {g \in HeldHolds : Owns(g, s, k)}}
      \cup {[kind |-> "sold", who |-> h] :
              h \in {g \in ConfirmedHolds : Owns(g, s, k)}}
      \cup {[kind |-> "quota", who |-> q.counter] :
              q \in {r \in allocated : r.seat = s /\ k \in r.mask}}

Market == INSTANCE SeatMarket WITH
    rights <- [cell \in Seats \X Segments |-> ClaimsOn(cell[1], cell[2])]

\* inventory-service keeps the promise of SeatMarket.
ImplementsMarket == Market!Spec
=============================================================================
