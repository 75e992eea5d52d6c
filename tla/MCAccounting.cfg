SPECIFICATION FairSpec
CONSTANTS
    s1 = s1
    s2 = s2
    Sess <- MCSess
    Quota = 2
    MaxBytes = 3
    MaxFailures = 1
    None = None
INVARIANTS
    BilledOnce
    CounterUnderQuota
PROPERTY OverQuotaIsReleased
CHECK_DEADLOCK FALSE
