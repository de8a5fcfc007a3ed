CONSTANTS
    s1 = s1
    s2 = s2
    s3 = s3
    h1 = h1
    h2 = h2
    h3 = h3
    c1 = c1
    Seats <- ThreeSeats
    Crew = {s3}
    NumSegments = 2
    Holds <- ThreeHolds
    Counters = {c1}
    MaxQuotaSeats = 2
    SweepLimit = 2
SPECIFICATION Spec
INVARIANTS MasksMatchOwners NoDoubleSale ReplayCoversLive
PROPERTY BitsLeaveWithOwner
SYMMETRY Symmetry
CHECK_DEADLOCK FALSE
