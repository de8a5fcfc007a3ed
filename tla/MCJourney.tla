----------------------------- MODULE MCJourney -----------------------------
(* Instances for TLC of a passenger's way from the seat map on: buying a    *)
(* ticket (Checkout) and the booking at hand (MyBooking).  They share no    *)
(* state here; a behaviour is about one of them.                            *)
(*                                                                          *)
(* Checkout: one tab, two seats, two holds (one of them may be somebody     *)
(* else's), two bookings and one payment reference each.  MyBooking: one    *)
(* tab, a party of one, a booking and one replacement, two trips of one     *)
(* seat, of which the second is the cheaper and leaves sooner, and a tier   *)
(* that pays and one that does not; what a passenger changes and what the   *)
(* device keeps are plots of their own.                                     *)
EXTENDS Journey, TLC

CONSTANTS k1, s1, s2, h1, h2, b1, b2, i1, i2,
          p1, p2, t1, t2, x1

VARIABLE plot

OneTab      == {k1}
TwoSeats    == {s1, s2}
TwoHolds    == {h1, h2}
TwoBookings == {b1, b2}
TwoTxns     == {i1, i2}

TwoPnrs  == {p1, p2}
TwoTrips == {t1, t2}
OneSeat  == {x1}
Cheaper  == t1 :> 100 @@ t2 :> 80
Sooner   == t1 :> 2 @@ t2 :> 1
Tiers    == <<0, 90>>

\* Nothing tells the members of these sets apart, and no property is about liveness.
Alike == Permutations(TwoSeats) \cup Permutations(TwoHolds)
            \cup Permutations(TwoBookings) \cup Permutations(TwoTxns)

MCInit ==
    /\ plot \in {"purchase", "changes", "pocket"}
    /\ Init /\ MyBookingInit

\* The booking is cancelled, refunded or moved, and no ticket is kept on the device.
ChangesPlot == MyBookingNext /\ answers' = {} /\ shell' = FALSE

\* The ticket is kept, the booking may be moved, in time and to a free seat, and nobody
\* asks to cancel it.
PocketPlot ==
    /\ MyBookingNext
    /\ UNCHANGED <<refund, elsewhere, tier>>
    /\ \A k \in MyTabs : ~ opened'[k].asking

MCNext ==
    /\ UNCHANGED plot
    /\ \/ plot = "purchase" /\ Next /\ UNCHANGED myBookingVars
       \/ plot = "changes" /\ ChangesPlot /\ UNCHANGED vars
       \/ plot = "pocket" /\ PocketPlot /\ UNCHANGED vars

MCSpec == MCInit /\ [][MCNext]_<<vars, myBookingVars, plot>>
=============================================================================
