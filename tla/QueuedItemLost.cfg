CONSTANTS
    Keys = {}
    NoKey = NoKey
    NoRecord = NoRecord
    Inputs = {a}
    MaxItems = 2
    MaxIds = 1
    MaxTurns = 2
    Client = Client
    Runner = Runner
    Compaction = Compaction
    Requests = {"enqueue", "start"}
    Foldable = {a}
    MaxRounds = 2
    DirectTurns = 1
    MaxFirings = 0
    MaxPending = 1
    MaxCompactions = 0
    EnvironmentMayFail = FALSE
SPECIFICATION Spec
INVARIANTS
    TakenItemRuns
CHECK_DEADLOCK FALSE
