SPECIFICATION ProbeSpec
SYMMETRY MCProbeSymmetry
CHECK_DEADLOCK FALSE
CONSTANTS
    ProbeWriters = {w1, w2}
    ProbeReaders = {r1}
    DeadlineTicks = 1
    WindowTicks = 1
    MaxTicks = 3
    MaxProbeCalls = 2
    MaxLosses = 3
    MaxEntryEpoch = 1
    MaxBacklog = 3
    MinProgress = 1
    MaxChildren = 3
INVARIANTS
    StatisticsTrue
    DrainLeavesNothing
    ReloadsWaitTheirOwnTime
