SPECIFICATION MCSpec
CONSTANTS
    k1 = k1
    s1 = s1
    s2 = s2
    h1 = h1
    h2 = h2
    b1 = b1
    b2 = b2
    i1 = i1
    i2 = i2
    None = None
    Tabs <- OneTab
    Seats <- TwoSeats
    Holds <- TwoHolds
    Bookings <- TwoBookings
    Txns <- TwoTxns
    MaxSeats = 1
    p1 = p1
    p2 = p2
    t1 = t1
    t2 = t2
    x1 = x1
    Unset = Unset
    MyTabs <- OneTab
    Pnrs <- TwoPnrs
    Trips <- TwoTrips
    BusSeats <- OneSeat
    Bought = p1
    FirstTrip = t1
    FirstSeats <- OneSeat
    Fare <- Cheaper
    ServiceFee = 5
    Pct <- Tiers
    Far <- Sooner
    MaxKept = 1
INVARIANTS JourneyTypeOK  ConfirmedHaveSeats 
 
SYMMETRY Alike
