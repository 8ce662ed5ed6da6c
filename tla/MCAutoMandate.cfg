\* A mandate line at two sizes, with freezes, vetoes and disarms.
SPECIFICATION Spec
CONSTANTS
    k1 = k1
    k2 = k2
    a1 = a1
    a2 = a2
    NoAttempt = NoAttempt
    NoRecord = NoRecord
    Keys = {k1}
    MaxRevision = 2
    Mandates = {k1}
    SessionKeys = {}
    Quantity <- MCQuantity
    Lot = 1
    Latches = {FALSE}
    Attempts <- MCAttempts
    VetoWindow = 2
    DeferRetry = 1
    SessionDelays = {0}
    Acts = {"disarm", "freeze", "veto"}
    MaxLines = 1
    MaxTime = 3
    MaxFaults = 0
    MaxActs = 4
SYMMETRY MCSymmetry
INVARIANTS TypeOK OneWaitingPerLine OneOrderPerRevision
PROPERTIES FullVetoWindow VetoIsForGood SentUnderItsArming
