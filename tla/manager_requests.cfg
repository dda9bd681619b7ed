CONSTANTS
    Sessions = {s1, s2}
    Names = {"a"}
    Types = {"volatile_list", "volatile_map"}
    Aliases <- OneAlias
    MaxObjects = 6
    MaxHandles = 3
SYMMETRY Symmetry
SPECIFICATION Spec
INVARIANTS OneObjectPerStorage HandleIsCurrent ListedExists
CHECK_DEADLOCK FALSE
