SPECIFICATION Spec
CONSTANTS
    q1 = q1  q2 = q2  a1 = a1  a2 = a2  l1 = l1  acct = acct  other = other
    QueueIds = {q1, q2}
    Attempts = {a1}
    Lines = {l1}
    Accounts = {acct}
    AccountOf <- OneAccount
    Kinds = {"exact"}
    DayKinds = {"exact"}
    NoAttempt = NoAttempt  NoQueue = NoQueue  NoAccount = NoAccount
    NotBefore = 0  NotAfter = 1  ArmWindow = 1  SendingStale = 0  DayEnd = 2
    MaxTime = 1  MaxPosition = 1  Positions = {1}  Scopes = {acct}  MaxFaults = 1  MaxGen = 0  MaxSessions = 0
    MayMisread = FALSE
SYMMETRY Symmetry
INVARIANTS OneClaimPerLine IInv
PROPERTY KeepsPromise
