SPECIFICATION Spec
CONSTANTS
    Main = main
    Slaves = {slave}
    Names = {a, b}
    a = a
    b = b
    slave = slave
    MaxHandles = 3
    Scenarios <- Programs
INVARIANTS
    
    
    NoEventDropped
PROPERTY CallsReturn
\* a program ends with its last call
CHECK_DEADLOCK FALSE
