\* Names n1, n2 stand for names none of which occurs inside another entry's
\* text, the premise under which unlink's find(name) hits its own entry.
CONSTANTS
    c1 = c1
    c2 = c2
    n1 = n1
    n2 = n2
    Junk = Junk
    INODE_NUM = 4
    MAX_GEN = 2
    ANY_PARENT = FALSE
    Thr <- MC_Thr
    Names <- MC_Names
    Garbage <- MC_GarbageOut
SPECIFICATION FairSpec
CHECK_DEADLOCK FALSE
INVARIANT TypeOK NoLostEntry
PROPERTY LocksReleased
