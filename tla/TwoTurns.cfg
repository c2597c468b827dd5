CONSTANTS
    Keys = {}
    NoKey = NoKey
    NoRecord = NoRecord
    Inputs = {a}
    MaxItems = 2
    MaxIds = 0
    MaxTurns = 2
    Client = Client
    Runner = Runner
    Compaction = Compaction
    Requests = {"start", "interrupt"}
    Foldable = {a}
    MaxRounds = 2
    DirectTurns = 1
    MaxFirings = 1
    MaxPending = 1
    MaxCompactions = 0
    EnvironmentMayFail = FALSE
SPECIFICATION Spec
INVARIANTS
    OneTurnAtATime
CHECK_DEADLOCK FALSE
