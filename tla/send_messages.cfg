CONSTANTS
    Threads = {"p", "s", "r"}
    Strand = "s"
    Scenarios <- Sound
    SizeOf <- Sizes
    SendBufferSize = 3
    NoOne = NoOne
SPECIFICATION Spec
INVARIANTS OneWriteAtATime SizeNotNegative
PROPERTIES IsOutbox  
