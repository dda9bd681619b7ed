\* Every list and vector operation with every index; one subscriber from the
\* start and one that waives its snapshot.
CONSTANTS
    t1 = t1
    c1 = c1
    s1 = s1
    s2 = s2
    v1 = v1
    v2 = v2
    Sessions = {t1}
    Storages = {c1}
    Null = Null
    NoSnapshot = NoSnapshot
    Keys <- MCKeys
    Contents <- MCContents
    MaxInt = 15
    Values = {v1, v2}
    NewValues = {v2}
    Subscriptions = {s1, s2}
    SessionOf <- TwoSession
    StorageOf <- TwoStorage
    StartOf <- TwoStart
    Indexes <- AllIndexes
    MaxWrites = 2
    Writers = {w1}
    Thread = Thread
    NoOne = NoOne
    Kinds = {"list", "vector"}
SPECIFICATION SpecVector
INVARIANTS  EventsInOrder
CHECK_DEADLOCK FALSE
