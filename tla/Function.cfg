CONSTANTS
    t1 = t1
    t2 = t2
    h1 = h1
    h2 = h2
    a1 = a1
    a2 = a2
    Threads = {t1, t2}
    Handles = {h1, h2}
    Addrs = {a1, a2}
    NoTable = NoTable
    Unmapped = Unmapped
    Null = Null
    Name = "foo"
    Sig = 1
    Tables <- MCTables
    HashOf <- MCHash
SPECIFICATION Spec
SYMMETRY MCSymmetry
VIEW MCView
CHECK_DEADLOCK FALSE
INVARIANTS
    RightFunction
    ImagesAccounted
    ControlSound
