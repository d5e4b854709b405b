SPECIFICATION FairSpec
CONSTANTS
    c1 = c1
    c2 = c2
    c3 = c3
    Company <- MCCompany
    KeyOf <- MCKeyOf
    Sheets <- MCSheets
    CheckpointEvery = 2
    ProbeEvery = 2
    Concurrency = 2
    MaxRuns = 2
CHECK_DEADLOCK FALSE
INVARIANTS
    EveryCompanyAudited
    CheckpointBoundsTheLoss
    EmittedIsSaved
    BoardsSurvive
PROPERTY DiscoveryEnds
