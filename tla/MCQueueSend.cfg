SPECIFICATION Spec
CONSTANTS
    q1 = q1  q2 = q2  a1 = a1  a2 = a2  l1 = l1  acct = acct  other = other
    QueueIds = {q1}
    Attempts = {a1, a2}
    Lines = {l1}
    Accounts = {acct, other}
    AccountOf <- OneAccount
    Kinds = {"rule", "stop"}
    DayKinds = {"rule"}
    NoAttempt = NoAttempt  NoQueue = NoQueue  NoAccount = NoAccount
    NotBefore = 0  NotAfter = 1  ArmWindow = 1  SendingStale = 0  DayEnd = 1
    MaxTime = 0  MaxPosition = 1  Positions = {0, 1}  Scopes = {acct, other}  MaxFaults = 1  MaxGen = 0  MaxSessions = 0
    MayMisread = TRUE
SYMMETRY Symmetry
INVARIANTS TypeOK AtMostOnce
PROPERTIES CancelIsForGood WireAsSigned
