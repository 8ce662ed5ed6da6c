SPECIFICATION FairSpec
CONSTANTS
    q1 = q1  q2 = q2  a1 = a1  a2 = a2  l1 = l1  acct = acct  other = other
    QueueIds = {q1}
    Attempts = {a1}
    Lines = {l1}
    Accounts = {acct}
    AccountOf <- OneAccount
    Kinds = {"rule", "exact"}
    DayKinds = {"rule", "exact"}
    NoAttempt = NoAttempt  NoQueue = NoQueue  NoAccount = NoAccount
    NotBefore = 0  NotAfter = 1  ArmWindow = 1  SendingStale = 0  DayEnd = 2
    MaxTime = 2  MaxPosition = 1  Positions = {1}  Scopes = {acct}  MaxFaults = 1  MaxGen = 0  MaxSessions = 0
    MayMisread = FALSE
PROPERTIES SendSettles SignatureResolves
