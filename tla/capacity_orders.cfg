SPECIFICATION FairSpec
CONSTANTS
    o1 = o1
    o2 = o2
    w1 = w1
    w2 = w2
    Orders = {o1}
    Workers = {w1, w2}
    MaxFaults = 1
INVARIANTS
    TypeOK
    PostedOnce
    ServerAccounted
    CreatedOffProven
PROPERTIES
    CreatingEnds
CHECK_DEADLOCK FALSE
