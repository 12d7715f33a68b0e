\* Two workspaces share USERLAND_ARCHIVES: one can spoil what the other accepted.
CONSTANTS
    Procs = {p1, p2}
    Inodes = {i1, i2, i3, i4}
    Contents <- MCContents
    NChunks = 2
    Payload <- MCPayload
    Signed = {"good"}
    Sources <- SharedSources
    Options <- SharedOptions
    MaxKills = 0
    Garbage = Garbage
    None = None
SPECIFICATION Spec
SYMMETRY Symmetry
INVARIANT ValidatedFileInPlace
