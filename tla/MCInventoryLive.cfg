CONSTANTS
    s1 = s1
    s2 = s2
    s3 = s3
    h1 = h1
    h2 = h2
    h3 = h3
    c1 = c1
    Seats <- TwoSeats
    Crew = {}
    NumSegments = 2
    Holds <- TwoHolds
    Counters = {c1}
    MaxQuotaSeats = 2
    SweepLimit = 1
SPECIFICATION MCLiveSpec
PROPERTIES ImplementsMarket SeatNeverStranded
CHECK_DEADLOCK FALSE
