SPECIFICATION Spec
CONSTANTS
    c1 = c1
    c2 = c2
    good = good
    moved = moved
    mistyped = mistyped
    Company = {c1, c2}
    Board = {good, moved, mistyped}
    BadBoard = {mistyped}
    Inventories <- MCInventories
    MaxUpdates = 2
    MaxEdits = 2
CHECK_DEADLOCK FALSE
INVARIANTS
    MasterWins
    EditsRecoverable
    MergeSettles
    PushedListIsFit
