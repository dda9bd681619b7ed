\* The list changes between the subscription and its snapshot.
CONSTANTS
    t1 = t1
    c1 = c1
    s1 = s1
    s2 = s2
    v1 = v1
    v2 = v2
    Sessions = {t1}
    Storages = {c1}
    Null = Null
    NoSnapshot = NoSnapshot
    Keys <- MCKeys
    Contents <- MCContents
    MaxInt = 15
    Values = {v1, v2}
    NewValues = {v1, v2}
    Subscriptions = {s1}
    SessionOf <- OneSession
    StorageOf <- OneStorage
    StartOf <- OneStart
    Indexes <- AllIndexes
    MaxWrites = 2
    Writers = {w1}
    Thread = Thread
    NoOne = NoOne
    Kinds = {"list"}
SPECIFICATION SpecVector
INVARIANTS MirrorsAgree
CHECK_DEADLOCK FALSE
