CONSTANTS
    s1 = s1
    s2 = s2
    h1 = h1
    h2 = h2
    b1 = b1
    b2 = b2
    t1 = t1
    t2 = t2
    w1 = w1
    w2 = w2
    None = None
    Seats <- TwoSeats
    Crew = {}
    NumSegments = 2
    Holds <- TwoHolds
    Counters = {}
    MaxQuotaSeats = 1
    SweepLimit = 1
    Bookings <- TwoBookings
    Txns <- TwoTxns
    Workers <- TwoWorkers
    MaxParty = 1
    Fare = 1000
    ServiceFee = 50
    RefundPcts = {0, 70}
    MaxFaults = 1
SPECIFICATION MCSpec
INVARIANTS TicketKeepsSeat NothingUnpaid CancelledFreesSeats LedgerMatchesSales
VIEW WithoutAnswers
SYMMETRY Symmetry
CHECK_DEADLOCK FALSE
