SPECIFICATION FairSpec
CONSTANTS
    MaxRelease = 2
    Minimum <- MCMinimum
    Own = {1, 2}
    Hired = {3, 4}
    Service = 9
    None = 0
    BuiltIn = {2}
    Scenarios <- MCScenarios
    Names <- MCNames
    Values <- MCValues
    Fold <- MCFold
    Nothing <- MCNothing
    MaxSegment = 1
INVARIANTS
    InstalledWasSigned
    OneThreadEach
    IdentityOfTheServer
PROPERTIES
    DeliveryKeepsCards
    RefreshAnswered
    GateFollows
CHECK_DEADLOCK FALSE
