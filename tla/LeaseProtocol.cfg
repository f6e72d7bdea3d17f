\* The counter protocol against an unload and an owner who may close the library
\* at any moment, with owner handles, on POSIX.
CONSTANTS
    h1 = h1
    h2 = h2
    h3 = h3
    Handles = {h1, h2, h3}
    Platform = "posix"
    PinMayFail = FALSE
    MaxRefs = 4
SYMMETRY Symmetry
SPECIFICATION Spec
INVARIANTS
    IInv
    NoLeaseWhenUnloaded
PROPERTIES
    GuardedLeaseBlocksUnmap
    ImplementsContract
\* The module may have been unloaded and every handle emptied for good.
CHECK_DEADLOCK FALSE
