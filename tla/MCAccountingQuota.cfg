SPECIFICATION Spec
CONSTANTS
    s1 = s1
    s2 = s2
    Sess <- MCSess
    Quota = 2
    MaxBytes = 3
    MaxFailures = 1
    None = None
INVARIANT QuotaEnforced
CHECK_DEADLOCK FALSE
