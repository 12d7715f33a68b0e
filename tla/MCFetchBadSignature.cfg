\* A file with a signature that does not verify, under --need-sig.
CONSTANTS
    Procs = {p1}
    Inodes = {i1, i2}
    Contents <- MCContents
    NChunks = 2
    Payload <- MCPayload
    Signed = {"good"}
    Sources <- MixedSources
    Options <- AllOptions
    MaxKills = 0
    Garbage = Garbage
    None = None
SPECIFICATION Spec
INVARIANT BadSignatureDeletes
