\* A SharedPtr and a WeakPtr of one block, in two threads.
CONSTANTS
    Workers = {w1, w2}
    Blocks = {b1}
    Strongs = {s1, s2}
    Weaks = {k1, k2}
    NoBlock = NoBlock
    Serialized = FALSE
SPECIFICATION SharedSpec
SYMMETRY Symmetry
INVARIANTS
    NoDanglingBlock
\* Once the block has been freed nothing is left to do.
CHECK_DEADLOCK FALSE
