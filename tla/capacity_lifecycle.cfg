SPECIFICATION FairSpec
CONSTANTS
    w1 = w1
    w2 = w2
    ipv4 = ipv4
    ipv6 = ipv6
    Workers = {w1, w2}
    Ips = {ipv4}
    MaxFaults = 1
INVARIANTS
    TypeOK
    DeletedMeansGone
    SentOnce
    RunningProtected
    TargetLive
PROPERTIES
    FencedDispatch
    CleanupFinishes
CHECK_DEADLOCK FALSE
