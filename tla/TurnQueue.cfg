CONSTANTS
    Keys = {k1, k2}
    NoKey = NoKey
    NoRecord = NoRecord
    Inputs = {a, b}
    MaxItems = 2
    MaxIds = 3
    MaxTurns = 2
SPECIFICATION QueueSpec
INVARIANTS
    QueueTypeOK
    InOrder
    FateAgrees
    FirstInFirstOut
    PauseHoldsItems
    WithinCapacity
PROPERTIES
    KeyAnswersOnce
    LeavesOnce
    KeepsQueuedWork
CHECK_DEADLOCK FALSE
