SPECIFICATION PageSpec
CONSTANTS
    Keys = {1, 2, 3, 4, 5}
    Prefixed = {1, 2, 4, 5}
    Amounts <- MCAmounts
    NoAmount = NoAmount
    DefaultPage = 2
    MaxPage = 3
    MaxPages = 3
    MaxAttempts = 2
CHECK_DEADLOCK FALSE
INVARIANTS
    PagesInv
    RowsFoundOnce
PROPERTY
    WalkEnds
