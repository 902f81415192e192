SPECIFICATION Spec
CONSTANTS
    b1 = b1
    b2 = b2
    v1 = v1
    v2 = v2
    None = None
    Block <- MCBlock
    BlockSize = 2
    MaxUsed = 2
    MaxUuid = 3
    BlockSet = {1, 2, 3}
    Vocab <- MCVocab
    MaxRestarts = 1
SYMMETRY Symmetry
INVARIANTS
    IdsProtected
    BlocksAccounted
PROPERTIES
    FreshIds
CHECK_DEADLOCK FALSE
