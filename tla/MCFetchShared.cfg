\* Two runs on one archive name at the same time.
CONSTANTS
    Procs = {p1, p2}
    Inodes = {i1, i2, i3, i4}
    Contents <- MCContents
    NChunks = 2
    Payload <- MCPayload
    Signed = {"good"}
    Sources <- SharedSources
    Options <- SharedOptions
    MaxKills = 1
    Garbage = Garbage
    None = None
SPECIFICATION Spec
SYMMETRY Symmetry
INVARIANTS NamesApart OnlyBesideSpoils
