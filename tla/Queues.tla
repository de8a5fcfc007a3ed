-------------------------------- MODULE Queues --------------------------------
(***************************************************************************)
(* The lists that pages keep in the browser's storage and write back with  *)
(* some of their members filtered out: the queues of the scanner           *)
(* (app/driver/scan/page.tsx) and the counter (app/counter/page.tsx), and  *)
(* the tickets of a passenger (lib/offlineTickets.ts).                     *)
(***************************************************************************)
EXTENDS Integers, Sequences, FiniteSets

\* filter(): q without the members of done, the others in the order they had.
\* The n-th that stays is the one with n of those that stay up to it.
Without(q, done) ==
    LET stay == {i \in DOMAIN q : q[i] \notin done}
    IN  [n \in 1 .. Cardinality(stay) |->
            q[CHOOSE i \in stay : Cardinality({j \in stay : j <= i}) = n]]
=============================================================================
