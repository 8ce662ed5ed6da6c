\* Two netted rows of a line of two units and no faults.
SPECIFICATION Spec
CONSTANTS
    Held = 2
    MaxOrders = 2
    Percents = {50, 100}
    MaxRows = 2
    Faults = {}
    MaxFaults = 0
PROPERTY RowRecomputes
CHECK_DEADLOCK FALSE
