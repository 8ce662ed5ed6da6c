\* A line of three units, two of Canary's orders of which at most one is a
\* netted row, and two faults of any kind.  Both orders may be over and no
\* third is minted: the system then rests.
SPECIFICATION FairSpec
CONSTANTS
    Held = 3
    MaxOrders = 2
    Percents = {50, 100}
    MaxRows = 1
    Faults = {"crash", "reconnect", "unclear", "notJournalled"}
    MaxFaults = 2
INVARIANT TypeOK
PROPERTIES  CapacityReturns
CHECK_DEADLOCK FALSE
