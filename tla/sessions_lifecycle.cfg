CONSTANTS
    Clients = {c1, c2, c3}
    Pausers = {c1, c2}
    Others = {}
    IoThreads = {1, 4}
    Nobody = Nobody
SPECIFICATION Spec
INVARIANTS  ListIsAccurate 
PROPERTIES DeadIsUnlisted
