CONSTANTS
    Stops = {1, 2, 3}
    Sales = {4}
    Grouped = {1, 3}
    Mandated = {1}
    Sizes = {1, 2}
    Start = 2
    HandTrades <- SellsAndBuys
    MayCross = FALSE
    MayPair = FALSE
    MaxHand = 1
    MaxFills = 1
    MaxFaults = 1
SPECIFICATION FairSpec
INVARIANTS TypeOK 
 
