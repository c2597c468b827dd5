CONSTANTS
    Keys = {}
    NoKey = NoKey
    NoRecord = NoRecord
    Inputs = {a}
    MaxItems = 2
    MaxIds = 1
    MaxTurns = 2
    Client = Client
    Runner = Runner
    Compaction = Compaction
    Requests = {"enqueue", "remove", "resume", "interrupt", "cancel", "compact"}
    Foldable = {a}
    MaxRounds = 2
    DirectTurns = 0
    MaxFirings = 1
    MaxPending = 1
    MaxCompactions = 1
    EnvironmentMayFail = FALSE
SPECIFICATION Spec
PROPERTIES
    QueuedItemsAreServed
    InterruptedTurnsEnd
    BecomesIdle
CHECK_DEADLOCK FALSE
