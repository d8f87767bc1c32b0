\* The lab3 directory protocol and apply_log hand-off, one client thread.
CONSTANTS
    Ids = {0, 1, 2}
    NoExt = NoExt
    t1 = t1
    Thr <- MC_Thr
    Chars <- MC_Chars
    Names <- MC_Names
    LinkPath <- MC_LinkPath
    MAX_FILE = 2
    ANY_PARENT = FALSE
SPECIFICATION Spec
INVARIANT TypeOK
INVARIANT ListingMatches
INVARIANT FileContents
INVARIANT LogSerializable
PROPERTY OpsReturn
