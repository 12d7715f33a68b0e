\* Two contexts and two structures.
CONSTANTS
    Contexts = {c1, c2}
    Structs = {s1, s2}
    None = None
SPECIFICATION Spec
INVARIANT Disconnected
