\* Edits and kills in any order.
CONSTANTS
    p1 = p1
    p2 = p2
    s1 = s1
    s2 = s2
    v1 = v1
    v2 = v2
    t1 = t1
    t2 = t2
    Series <- OnePatch
    StampOf <- MCStampOf
    Texts = {t1, t2}
    Contents = {v1, v2}
    Leftovers = {None, Garbage}
    MaxEdits = 2
    MaxKills = 2
    Garbage = Garbage
    None = None
SPECIFICATION Spec
SYMMETRY Symmetry
INVARIANTS TypeOK ProductIsFresh Settled
PROPERTY PlanIsOutdated
