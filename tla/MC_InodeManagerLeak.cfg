\* Does write_file/remove_file give back every block an extent stops using?
CONSTANTS
    INODE_NUM = 2
    NDIRECT = 1
    NINDIRECT = 1
    BLOCK_SIZE = 2
    DATA_NUM = 4
    v1 = v1
    v2 = v2
    NoVal = NoVal
    Types = {1}
    T_DIR = 1
    Vals <- MC_Vals
SPECIFICATION Spec
SYMMETRY ValSymmetry
INVARIANT NoBlockLeak
