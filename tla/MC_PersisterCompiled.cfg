\* As compiled (no BEGIN/COMMIT), can a restart dereference nullptr?
CONSTANTS
    INODE_NUM = 3
    MAX_LOG = 18
    MAX_OPS = 5
    MAX_CRASHES = 3
    TX_BRACKETS = FALSE
    v1 = v1
    Empty = Empty
    NoExt = NoExt
    NoTx = NoTx
    Vals <- MC_Vals
    PastEnd <- MC_PastEndNoMatch
SPECIFICATION Spec
CONSTRAINT Bounds
INVARIANT NoSegfault
