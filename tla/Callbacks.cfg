CONSTANTS
    Bases = {b1, b2}
    Answers = {"once", "session", "decline"}
    NoAnswer = NoAnswer
    Closed = Closed
    MaxCalls = 2
    MaxTurns = 2
    Repeats = "any"
    Keys <- MCKeys
    NoKey = NoKey
    Allowed = {"read"}
    Unscoped = {"start"}
    Protected = {"format"}
    ScopeOf <- MCScopeOf
    Questions = {b2}
    Width = 1
    ConsecutiveLimit = 2
    TotalLimit = 3
SPECIFICATION GateSpec
INVARIANTS
    OpenHasItsWaiter
    NoneOpenBetweenTurns
    NoCallForgotten
    ResumesWithTheAnswer
    RunsAreApproved
PROPERTIES
    BlockedCallsReachThePerson
    HearsOnce
    UnansweredCallsGoOn
CHECK_DEADLOCK FALSE
