CONSTANTS
    Keys = {}
    NoKey = NoKey
    NoRecord = NoRecord
    Inputs = {a}
    MaxItems = 2
    MaxIds = 2
    MaxTurns = 2
    Client = Client
    Runner = Runner
    Compaction = Compaction
    Requests = {"enqueue"}
    Foldable = {a}
    MaxRounds = 2
    DirectTurns = 0
    MaxFirings = 0
    MaxPending = 1
    MaxCompactions = 0
    EnvironmentMayFail = FALSE
SPECIFICATION Spec
INVARIANTS
    MirrorSettles
CHECK_DEADLOCK FALSE
