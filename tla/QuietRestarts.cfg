SPECIFICATION QuietSpec
CONSTANTS
    Threads = {t1}
    Keys = {k1, k2, k3}
    Values = {v1, v2}
    Empty = Empty
    Indexes = {0, 1}
    Hash <- TwoChains
    Blocks = {b1, b2, b3}
    NoThread = NoThread
    NoBlock = NoBlock
SYMMETRY Symmetry
INVARIANTS LoadedTableIsSound
PROPERTIES CrashKeepsTheMap
