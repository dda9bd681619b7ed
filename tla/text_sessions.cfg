CONSTANTS
    Sessions = {"a", "b"}
    Scenarios <- Sound
    Observed = "a"
    SingleThreaded = FALSE
    Limit = 1
    NoOne = NoOne
SPECIFICATION Spec
INVARIANTS  EventsAfterAnswer
PROPERTIES IsOutbox CommandsAnswered
CHECK_DEADLOCK FALSE
