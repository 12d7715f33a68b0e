\* A type whose list was not the first one used after fork().
CONSTANTS
    Callers = {c1, c2}
    OpTypes = {rsa, digest}
    Keyed = {rsa}
    Structs = {s1, s2, s3}
    Objects = {o1, o2}
    Keys = {k1, k2}
    MaxForks = 1
    MaxRefs = 3
    None = None
SPECIFICATION Spec
SYMMETRY Symmetry
INVARIANT OwnFreelist
