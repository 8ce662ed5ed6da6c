\* Failed writes and crashes at every step of a submission, and sessions.
SPECIFICATION FairSpec
CONSTANTS
    k1 = k1
    k2 = k2
    a1 = a1
    a2 = a2
    NoAttempt = NoAttempt
    NoRecord = NoRecord
    Keys = {k1, k2}
    MaxRevision = 1
    Mandates = {k1}
    SessionKeys = {k1}
    Quantity <- MCQuantity
    Lot = 1
    Latches = {TRUE}
    Attempts = {a1}
    VetoWindow = 1
    DeferRetry = 1
    SessionDelays = {0}
    Acts = {"session", "veto"}
    MaxLines = 1
    MaxTime = 2
    MaxFaults = 2
    MaxActs = 3
INVARIANTS RecordMatchesWire
PROPERTIES  RecoverySettles
