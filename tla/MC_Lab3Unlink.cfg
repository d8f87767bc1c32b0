\* unlink of "a" in a directory that also lists "ba": buf.find("a") hits
\* inside "ba" and the erase cuts the wrong entry.
CONSTANTS
    Ids = {0, 1, 2, 3}
    NoExt = NoExt
    t1 = t1
    Thr <- MC_Thr
    Chars <- MC_Chars
    Names <- MC_NamesOverlap
    LinkPath <- MC_LinkPath
    MAX_FILE = 1
    ANY_PARENT = FALSE
SPECIFICATION Spec
INVARIANT ListingMatches
