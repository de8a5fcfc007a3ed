----------------------------- MODULE MCBooking -----------------------------
(* Instances of Booking for TLC.  In "payments" two payments are made and   *)
(* every statement does its work; in "faults" one is, and a statement of a  *)
(* reschedule may fail, or a cancellation refund nothing.                   *)
EXTENDS Booking, TLC

CONSTANTS s1, s2, h1, h2, b1, b2, t1, t2, w1, w2

VARIABLE plot

TwoSeats    == {s1, s2}
TwoHolds    == {h1, h2}
TwoBookings == {b1, b2}
TwoTxns     == {t1, t2}
TwoWorkers  == {w1, w2}

\* Ids are minted in any order and workers are alike.
Symmetry == Permutations(Holds) \cup Permutations(Bookings)
              \cup Permutations(Txns) \cup Permutations(Workers)
              \cup Permutations(Seats)

\* Steps never read the event log or which payments were answered with an
\* error, and neither do the invariants of the passing run.
WithoutAnswers == <<hold, sold, blocked, status, items, mask, expired, allocated,
                    bookingVars, intent, payments, refundVars, ledger, workerVars, plot>>

MCInit == Init /\ plot \in {"payments", "faults"}

\* A hold is for the first segment or for both.  In "payments" it lapses by its
\* deadline alone, in "faults" it is given up alone.
MCNext ==
    /\ Next /\ UNCHANGED plot
    /\ \A h \in Holds : 1 \in mask'[h] => 0 \in mask'[h]
    /\ plot = "payments" => /\ faults' = 0
                            /\ \A w \in Workers : task'[w].at = "quoted" => task'[w].refund # 0
                            /\ \A h \in Holds : status[h] = "HELD" /\ status'[h] = "RELEASED"
                                  => task' # task
    /\ plot = "faults" => /\ Cardinality(DOMAIN intent') <= 1
                          /\ expired' = {}

MCSpec == MCInit /\ [][MCNext]_<<vars, plot>>
=============================================================================
