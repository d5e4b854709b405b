SPECIFICATION FairSpec
CONSTANTS
    w1 = w1
    w2 = w2
    b1 = b1
    b2 = b2
    b3 = b3
    greenhouse = greenhouse
    lever = lever
    Nothing = Nothing
    Source = {greenhouse, lever}
    Board = {b1, b2, b3}
    SourceOf <- MCSourceOf
    Worker = {w1, w2}
    MaxRows = 2
    LowVolume = 1
CHECK_DEADLOCK FALSE
INVARIANTS
    OneResultPerBoard
    SuccessIsComplete
    OpsAgreesWithRaw
    HealthyMeansComplete
    BadListFetchesNothing
PROPERTIES
    RunExits
    RunIsABatch
