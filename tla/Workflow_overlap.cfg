SPECIFICATION Spec
CONSTANTS
    r1 = r1
    r2 = r2
    j1 = j1
    j2 = j2
    b1 = b1
    b2 = b2
    greenhouse = greenhouse
    lever = lever
    Absent = Absent
    Runner = {r1, r2}
    Job = {j1, j2}
    Board = {b1, b2}
    BoardOf <- OneJobEach
    Source = {greenhouse}
    SourceOf <- OneSource
    Places = {"allowed"}
    Grace = 3
    GateError = 2
    Lookback = 9
    MaxNow = 0
    MaxRuns = 2
CHECK_DEADLOCK FALSE
INVARIANT NoSilentLoss
