SPECIFICATION FairSpec
CONSTANTS
    eth = eth
    isp = isp
    own = own
    Adapters = {eth}
    Values = {isp, own}
    AppThreads = {"bridge"}
    MaxRetries = 2
    Split = TRUE
    MaxStarts = 2
    MaxConnects = 2
    MaxEdits = 2
INVARIANTS OneInTheGuard OfflineIsUntouched UserDnsRestored
PROPERTIES CrashIsRepaired StopReturns
CHECK_DEADLOCK FALSE
