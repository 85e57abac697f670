SPECIFICATION QuietSpec
CONSTANTS
    Threads = {t1, t2}
    Keys = {k1, k2}
    Values = {v1, v2}
    Empty = Empty
    Indexes = {0}
    Hash <- OneChain
    Blocks = {b1, b2, b3}
    NoThread = NoThread
    NoBlock = NoBlock
PROPERTIES CloseKeepsTheMap
