CONSTANTS
    Sessions = {"a", "b"}
    Names = {"x", "y", "__m"}
    MetaNames = {"__m"}
    Scenarios <- Apart
    N = 3
    NoOne = NoOne
    Follows = {TRUE, FALSE}
SPECIFICATION SpecReplay
INVARIANTS  ReplicaFollows
PROPERTIES LinesFlushed
CHECK_DEADLOCK FALSE
