SPECIFICATION MCSpec
CONSTANTS
    Threads = {w1, w2, r1}
    Writers = {w1, w2}
    Readers = {r1}
    Keys = {k1, k2}
    Values = {v1, v2}
    Empty = Empty
    Indexes = {0}
    Hash <- OneChain
    Blocks = {b1, b2, b3}
    NoThread = NoThread
    NoBlock = NoBlock
SYMMETRY Symmetry
INVARIANTS TypeOK NoUseAfterFree NoLeak ChainsAreComplete KeysAreUnique ListingIsTheMap OnlyTheLastIsUnset
PROPERTIES SharedBlocksAreImmutable Linearizable
