\* Three callers, a type with keys and one without and a child.
CONSTANTS
    Callers = {c1, c2, c3}
    OpTypes = {rsa, digest}
    Keyed = {rsa}
    Structs = {s1, s2, s3}
    Objects = {o1, o2}
    Keys = {k1, k2}
    MaxForks = 1
    MaxRefs = 3
    None = None
SPECIFICATION Spec
SYMMETRY Symmetry
INVARIANTS TypeOK  KeyIsThere CountsHold
PROPERTIES NothingLost InheritedLeave
