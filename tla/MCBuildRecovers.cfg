\* Two patches; building again, with a clean after a failure.
CONSTANTS
    p1 = p1
    p2 = p2
    s1 = s1
    s2 = s2
    v1 = v1
    v2 = v2
    t1 = t1
    t2 = t2
    Series <- TwoPatches
    StampOf <- MCStampOf
    Texts = {t1, t2}
    Contents = {v1, v2}
    Leftovers = {None}
    MaxEdits = 1
    MaxKills = 1
    Garbage = Garbage
    None = None
SPECIFICATION FairSpec
INVARIANTS PatchStampTells
PROPERTIES EventuallyBuilt
