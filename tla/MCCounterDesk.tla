---------------------------- MODULE MCCounterDesk ----------------------------
(* One terminal that has two requests in flight, one seat, one drawer and  *)
(* two sales, so that a seat can be sold twice and a queue flushed twice.  *)
EXTENDS CounterDesk, TLC

CONSTANTS x1, s1, k1, r1, r2, c1, c2

VARIABLE plot

OneTerminal == {x1}
OneSeat     == {s1}
OneShift    == {k1}
TwoSales    == {r1, r2}
TwoConns    == {c1, c2}

\* Ids and connections are alike.
Symmetry == Permutations(Sales) \cup Permutations(Conns)

\* In "paper" both sales are made without a line, and reserved quota does not go back
\* to general sale; in "screen" one sale at most is made without a line.  The service
\* worker installs before the first sale.
MCInit == Init /\ plot \in {"paper", "screen"}

PaperSales == {r \in Sales : sale[r] # NoSale /\ sale[r].kind = "offline"}

MCNext ==
    /\ Next /\ UNCHANGED plot
    /\ shell' # shell => \A r \in Sales : sale[r] = NoSale
    /\ plot = "paper" => /\ \A t \in Terminals : confirming'[t] = {}
                         /\ \A s \in Seats : owner[s] = "quota" => owner'[s] # "free"
    /\ plot = "screen" => Cardinality(PaperSales') <= 1

MCSpec == MCInit /\ [][MCNext]_<<vars, plot>>
=============================================================================
