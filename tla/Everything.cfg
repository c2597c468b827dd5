CONSTANTS
    Keys = {}
    NoKey = NoKey
    NoRecord = NoRecord
    Inputs = {a}
    MaxItems = 2
    MaxIds = 2
    MaxTurns = 3
    Client = Client
    Runner = Runner
    Compaction = Compaction
    Requests = {"enqueue", "replace", "resume", "fold", "start", "compact", "interrupt"}
    Foldable = {a}
    MaxRounds = 1
    DirectTurns = 1
    MaxFirings = 0
    MaxPending = 1
    MaxCompactions = 1
    EnvironmentMayFail = TRUE
SPECIFICATION Spec
INVARIANTS
    HeldItemsWait
PROPERTIES
    KeepsQueuedWork
CHECK_DEADLOCK FALSE
