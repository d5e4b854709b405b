SPECIFICATION FairSpec
CONSTANTS
    j1 = j1
    j2 = j2
    j3 = j3
    j4 = j4
    j5 = j5
    p1 = p1
    p2 = p2
    None = None
    Ats <- MCAts
    Job <- MCJob
    PlacesOf <- MCPlacesOf
    Boards <- MCBoards
    Quirks <- MCQuirks
    PageSize = 2
    MaxChanges = 2
    MaxFaults = 1
INVARIANTS
    ErrorIsBoundedByChange
    CollapseKeepsEveryPlace
    MissingMeansMissing
PROPERTIES
    FetchEnds
    BoardRecovers
