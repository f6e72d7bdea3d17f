\* A build whose release store is a plain store (GCC/Clang on x86).
CONSTANTS
    t1 = t1
    t2 = t2
    a = a
    Threads = {t1, t2}
    Objects = {a}
    NoThread = NoThread
    NoObject = NoObject
    EpochBatch = 1
    BatchPublish = 1
    MaxEpoch = 3
    MaxDepth = 1
    StoreBuffering = TRUE
    Calls = {"until"}
SYMMETRY Symmetry
SPECIFICATION Spec
INVARIANTS
    GracePeriodProven
\* Threads may all have ended, and no epoch above MaxEpoch is explored.
CHECK_DEADLOCK FALSE
