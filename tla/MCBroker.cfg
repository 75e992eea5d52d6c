SPECIFICATION FairSpec
CONSTANTS
    d1 = d1
    r1 = r1
    r2 = r2
    Devices = {d1}
    Requests = {r1, r2}
    Limit = 1
    MaxTokens = 5
    MaxDecisions = 2
    MaxFaults = 1
INVARIANTS TokenReachesServer CreatedWithinLimit RejectedStaysOut
PROPERTIES ApprovedGetsIn
CHECK_DEADLOCK FALSE
