SPECIFICATION Spec
CONSTANTS
    j1 = j1
    j2 = j2
    j3 = j3
    b1 = b1
    b2 = b2
    Absent = Absent
    Job <- MCJob
    Board <- MCBoard
    BoardOf <- MCBoardOf
    Places = {"allowed", "foreign"}
    Grace = 1
    Expiry = 3
    MaxNow = 5
CHECK_DEADLOCK FALSE
INVARIANT TakenDownLeavesGold
