SPECIFICATION FairSpec
CONSTANTS
    o1 = o1
    s1 = s1
    Orders = {o1}
    Sweeps = {s1}
    MayJoinLate = FALSE
    MaxFaults = 2
INVARIANTS
    TypeOK
    AbsentIsGone
    
PROPERTIES
    LatchClears
    StaleRowCloses
