CONSTANTS
    Stops = {1}
    Sales = {2}
    Grouped = {1}
    Mandated = {1}
    Sizes = {1, 2}
    Start = 2
    HandTrades <- SellsAndBuys
    MayCross = FALSE
    MayPair = TRUE
    MaxHand = 1
    MaxFills = 0
    MaxFaults = 0
SPECIFICATION Spec
INVARIANT NoDoubleSell
