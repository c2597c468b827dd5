CONSTANTS
    Bases = {b1}
    Answers = {yes, no}
    NoAnswer = NoAnswer
    Closed = Closed
    MaxCalls = 2
    MaxTurns = 1
    Repeats = "later"
SPECIFICATION Spec
INVARIANTS
    OpenIsUnanswered
CHECK_DEADLOCK FALSE
