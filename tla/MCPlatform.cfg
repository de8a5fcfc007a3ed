CONSTANTS
    l1 = l1
    l2 = l2
    act = act
    Loads <- TwoLoads
    Act = act
    MaxGrants = 3
    MaxCodes = 1
    MaxTries = 1
    c1 = c1
    f1 = f1
    f2 = f2
    u1 = u1
    u2 = u2
    i1 = i1
    i2 = i2
    here = here
    there = there
    y1 = y1
    y2 = y2
    t1 = t1
    ac = ac
    r1 = r1
    r2 = r2
    e1 = e1
    e2 = e2
    e3 = e3
    g1 = g1
    g2 = g2
    Codes <- OneCode
    Phones <- TwoPhones
    Purchases <- TwoCheckouts
    Caps <- CapOfOne
    NoCap = NoCap
    Invitations <- TwoInvites
    NoCoupon = NoCoupon
    Cities <- TwoCities
    Days <- TwoDays
    Buses <- OneBus
    RunsOn <- OnItsWay
    Marks <- OneMark
    MarksOf <- BusHasIt
    SeatsTotal = 1
    Searches <- TwoSearches
    Blank = Blank
    MaxChanges = 2
    MaxSearchFaults = 1
    Events <- AllEvents
    Malformed <- OneMisfit
    Marketing <- OneAdvert
    Relays <- TwoRelays
    Aggregators <- TwoAggregators
    Attempts = 2
    Streak = 1
    NoEvent = NoEvent
    MaxMishaps = 3
    a1 = a1
    d1 = d1
    Subjects <- OneAddress
    Outcome <- TwoRules
    Threshold <- TwoThresholds
    FirstMode <- ShadowFirst
    MaxCount = 2
    MaxCases = 2
    Deliveries <- OneDelivery
    Ticker = Ticker
    Button = Button
    MaxAttempts = 3
    Quota = 1
    j1 = j1
    j2 = j2
    b1 = b1
    b2 = b2
    s1 = s1
    q1 = q1
    q2 = q2
    h1 = h1
    Journeys <- TwoJourneys
    TripsOn <- OneTripEach
    SeatNos <- OneSeat
    Nowhere = Nowhere
    Questions <- TwoQuestions
    TooShort = TooShort
    CaseIds <- OneCase
    MaxDeskCalls = 2
    v1 = v1
    x1 = x1
    x2 = x2
    o1 = o1
    o2 = o2
    n1 = n1
    n2 = n2
    n3 = n3
    Devices <- OneDevice
    Scans <- TwoScans
    Conns <- TwoConns
    Tickets <- TwoTickets
    Pnrs <- ThreePnrs
    PnrOf <- TheirPnrs
    OnTrip = {1}
SPECIFICATION MCSpec
INVARIANTS PlatformTypeOK RedemptionsAreHonest ToldOnce PassedIsAccountedFor WrongOfThoseFired DeliveryLogIsTrue DesksShowTheLastAsked OneBoardingPerTicket NoBoardingForgotten
SYMMETRY Alike
