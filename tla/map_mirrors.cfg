\* Two maps, a writer each, one subscription with a snapshot and one without.
CONSTANTS
    t1 = t1
    c1 = c1
    c2 = c2
    s1 = s1
    s2 = s2
    s3 = s3
    w1 = w1
    w2 = w2
    Sessions = {t1}
    Null = Null
    NoSnapshot = NoSnapshot
    Absent = Absent
    Storages = {c1, c2}
    Subscriptions = {s1, s3}
    Writers = {w1, w2}
    Keys = {k1}
    Values = {v1, v2}
    SessionOf <- TwoMapsSession
    StorageOf <- TwoMapsStorage
    StartOf <- TwoMapsStart
    Owners <- TwoMapsOneWriterEach
    MaxWrites = 2
SPECIFICATION Spec
INVARIANTS PendingHasSnapshotEnd RightAudience MirrorsAgree YoungestIsCurrent
PROPERTIES SubscriptionServed EventuallyConsistent
\* Nothing is left to do once the writes are used up and the queue is empty.
CHECK_DEADLOCK FALSE
