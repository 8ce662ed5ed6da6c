SPECIFICATION Spec
CONSTANTS
    q1 = q1  q2 = q2  a1 = a1  a2 = a2  l1 = l1  acct = acct  other = other
    QueueIds = {q1}
    Attempts = {a1}
    Lines = {l1}
    Accounts = {acct}
    AccountOf <- OneAccount
    Kinds = {"rule"}
    DayKinds = {"rule"}
    NoAttempt = NoAttempt  NoQueue = NoQueue  NoAccount = NoAccount
    NotBefore = 0  NotAfter = 1  ArmWindow = 1  SendingStale = 0  DayEnd = 1
    MaxTime = 1  MaxPosition = 2  Positions = {1, 2}  Scopes = {acct}  MaxFaults = 0  MaxGen = 1  MaxSessions = 1
    MayMisread = FALSE
SYMMETRY Symmetry
INVARIANTS  BookMatchesWire CancelledUnsent
PROPERTIES WireAsSigned
