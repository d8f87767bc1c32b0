\* Brackets on, as the commented-out client code: checkpoint, recovery walk.
CONSTANTS
    INODE_NUM = 3
    MAX_LOG = 18
    MAX_OPS = 5
    MAX_CRASHES = 3
    TX_BRACKETS = TRUE
    v1 = v1
    Empty = Empty
    NoExt = NoExt
    NoTx = NoTx
    Vals <- MC_Vals
    PastEnd <- MC_PastEndNoMatch
SPECIFICATION Spec
CONSTRAINT Bounds
INVARIANT TypeOK CheckpointOnlyCommitted FilesDecode
PROPERTY RecoveryFollowsDisk
