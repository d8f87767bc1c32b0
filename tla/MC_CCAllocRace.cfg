\* Does create return only inums that were free (spec P4)?
CONSTANTS
    c1 = c1
    c2 = c2
    n1 = n1
    n2 = n2
    Junk = Junk
    INODE_NUM = 4
    MAX_GEN = 2
    ANY_PARENT = TRUE
    Thr <- MC_Thr
    Names <- MC_Names
    Garbage <- MC_GarbageOut
SPECIFICATION Spec
CHECK_DEADLOCK FALSE
PROPERTY CreateReturnsFree
