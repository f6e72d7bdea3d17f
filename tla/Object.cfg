\* Reloads and unloads, with and without a reclaim timeout.
CONSTANTS
    t1 = t1
    t2 = t2
    a = a
    b = b
    ia = ia
    ib = ib
    Threads = {t1, t2}
    Objects = {a, b, ia, ib}
    Images = {a, b}
    IndexOf <- MCIndexOf
    NoThread = NoThread
    NoObject = NoObject
    EpochBatch = 2
    BatchPublish = 2
    MaxEpoch = 4
    MaxDepth = 1
    StoreBuffering = FALSE
    Calls = {"sync", "eager", "until"}
    Timeouts = {TRUE, FALSE}
SYMMETRY Symmetry
SPECIFICATION ObjectSpec
INVARIANTS
    ReadersKeepImageAndIndex
    OutcomeProven
\* Threads may all have ended, and no epoch above MaxEpoch is explored.
CHECK_DEADLOCK FALSE
