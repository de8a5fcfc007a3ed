CONSTANTS
    b1 = b1
    w1 = w1
    w2 = w2
    w3 = w3
    f1 = f1
    f2 = f2
    None = None
    Bookings <- OneBooking
    Pages <- Windows
    Staff <- TwoStaff
    Who <- SignedIn
    Day <- DayOf1
    Periods <- OnePeriod
    Refunds <- NoneOrHalf
    Total = 1050
    ServiceFee = 50
SPECIFICATION MCSpec
INVARIANTS FinanceTypeOK SignedFiguresStand BankPaysSettlements TwoPeople WithinCredit TicketsArePaid OneSignInPerCode
SYMMETRY Alike
CHECK_DEADLOCK FALSE
CONSTANTS
    k1 = k1
    k2 = k2
    r1 = r1
    r2 = r2
    q1 = q1
    s1 = s1
    s2 = s2
    t1 = t1
    t2 = t2
    place = place
    switcher = switcher
    Clerks <- TwoClerks
    Approvers <- TwoApprovers
    Sales <- TwoSales
    Recharges <- OneRecharge
    Seats <- TwoSeats
    Fare = 3
    Fee = 1
    AgentShare = 1
    TopUp = 4
    CreditLimit = 5
    NoOne = None
    Tabs <- TwoTabs
    Workplaces <- OnePlace
    Granted = {}
    Switcher = switcher
    LockoutAfter = 1
    MaxSignIns = 2
    MaxSecrets = 1
    MaxStep = 1
