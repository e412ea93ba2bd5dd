SPECIFICATION Spec
CONSTANTS
    o1 = o1
    o2 = o2
    w1 = w1
    w2 = w2
    Orders = {o1, o2}
    Workers = {w1}
    MaxFaults = 2
SYMMETRY OrderSymmetry
INVARIANTS
    ServerAccounted
    ResolvedGone
CHECK_DEADLOCK FALSE
