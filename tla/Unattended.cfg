CONSTANTS
    Keys = {}
    NoKey = NoKey
    NoRecord = NoRecord
    Inputs = {a}
    MaxItems = 2
    MaxIds = 2
    MaxTurns = 4
    Client = Client
    Runner = Runner
    Compaction = Compaction
    Requests = {"enqueue", "remove", "resume", "interrupt", "steer"}
    Foldable = {a}
    MaxRounds = 2
    DirectTurns = 0
    MaxFirings = 2
    MaxPending = 1
    MaxCompactions = 0
    EnvironmentMayFail = FALSE
SPECIFICATION Spec
INVARIANTS
    TypeOK
    OneTurnAtATime
    HostFollowsCore
    BusyHasDriver
    TakenItemRuns
    
    SteeringHasATurn
    ShownIsInProgress
    OnlyAskedAreSignalled
CHECK_DEADLOCK FALSE
