SPECIFICATION FairSpec
CONSTANTS
    r1 = r1
    r2 = r2
    c1 = c1
    c2 = c2
    s1 = s1
    x1 = x1
    Requests = {r1, r2}
    Route <- TwoRoutes
    Calls = {c1, c2}
    Sweepers = {s1}
    Wallet = "card"
    Opening = 4
    Reserved = 2
    Estimate = 1
    Costs = {1, 3}
    Sessions = {x1}
    TopUp = 1
    SettleAttempts = 2
    MaxFaults = 2
INVARIANTS
    TypeOK
    HoldsCovered
    NeverOvercharged
    AnsweredKept
    ReleaseHonoured
    SettlementRecorded
PROPERTIES
    ImplementsLedger
    HoldsClose
CHECK_DEADLOCK FALSE
