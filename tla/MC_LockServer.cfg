CONSTANTS
    t1 = t1
    t2 = t2
    t3 = t3
    l1 = l1
    l2 = l2
    None = None
    Thr <- MC_Thr
    Lids <- MC_Lids
SPECIFICATION Spec
INVARIANT TypeOK MutualExclusion
PROPERTY NoLostWakeup
