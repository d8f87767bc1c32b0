\* Block invariants and read-your-writes, up to the first full disk.
\* extent_protocol: T_DIR = 1, T_FILE = 2; the type is opaque to the inode manager.
CONSTANTS
    INODE_NUM = 2
    NDIRECT = 1
    NINDIRECT = 1
    BLOCK_SIZE = 2
    DATA_NUM = 3
    v1 = v1
    v2 = v2
    NoVal = NoVal
    Types = {1, 2}
    T_DIR = 1
    Vals <- MC_Vals
SPECIFICATION Spec
SYMMETRY ValSymmetry
INVARIANT TypeOK
INVARIANT BlocksDisjoint
INVARIANT ReadYourWritesWhileSpace
PROPERTY ImplementsExtentStore
CONSTRAINT WhileSpace
