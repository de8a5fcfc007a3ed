CONSTANTS
    x1 = x1
    s1 = s1
    k1 = k1
    r1 = r1
    r2 = r2
    c1 = c1
    c2 = c2
    None = None
    Terminals <- OneTerminal
    Seats <- OneSeat
    Shifts <- OneShift
    Sales <- TwoSales
    Conns <- TwoConns
    Fare = 1000
    ServiceFee = 50
SPECIFICATION MCSpec
INVARIANTS TypeOK NoSaleUnrecorded 
 
SYMMETRY Symmetry
CHECK_DEADLOCK FALSE
