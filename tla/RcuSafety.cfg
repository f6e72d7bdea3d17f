\* Two threads that read, publish and retire; never is until without its timeouts.
CONSTANTS
    t1 = t1
    t2 = t2
    a = a
    Threads = {t1, t2}
    Objects = {a}
    NoThread = NoThread
    NoObject = NoObject
    EpochBatch = 2
    BatchPublish = 2
    MaxEpoch = 3
    MaxDepth = 1
    StoreBuffering = FALSE
    Calls = {"sync", "eager", "until", "try"}
SYMMETRY Symmetry
SPECIFICATION Spec
INVARIANTS
    TypeOK
    NoUseAfterReclaim
    GracePeriodProven
    IInv
PROPERTIES
    WatermarkMonotone
    ImplementsReclamation
\* Threads may all have ended, and no epoch above MaxEpoch is explored.
CHECK_DEADLOCK FALSE
