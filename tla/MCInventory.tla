---------------------------- MODULE MCInventory ----------------------------
(* Instances of Inventory for TLC.                                         *)
EXTENDS Inventory, TLC

CONSTANTS s1, s2, s3, h1, h2, h3, c1

TwoSeats   == {s1, s2}
ThreeSeats == {s1, s2, s3}
TwoHolds   == {h1, h2}
ThreeHolds == {h1, h2, h3}

\* Nothing but their ids tells holds apart, nor the seats that are for sale.
Symmetry == Permutations(Holds) \cup Permutations(Seats \ Crew)

\* Where liveness is checked, quota is for the whole route.
LiveNext == Next /\ \A q \in allocated' : q.mask = Segments

MCLiveSpec ==
    /\ Init /\ [][LiveNext]_vars
    /\ SweeperFairness
=============================================================================
