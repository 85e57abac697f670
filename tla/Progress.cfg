SPECIFICATION Spec
CONSTANTS
    Threads = {t1, t2}
    Writers = {}
    Readers = {}
    Keys = {k1, k2}
    Values = {v1}
    Empty = Empty
    Indexes = {0}
    Hash <- OneChain
    Blocks = {b1, b2, b3}
    NoThread = NoThread
    NoBlock = NoBlock
PROPERTIES GetsComplete PutsComplete
