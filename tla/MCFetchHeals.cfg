\* The options the gate uses, unsteady mirrors and one that answers.
CONSTANTS
    Procs = {p1}
    Inodes = {i1, i2}
    Contents <- MCContents
    NChunks = 3
    Payload <- MCPayload
    Signed = {"good"}
    Sources <- MirrorSources
    Options <- GateOptions
    MaxKills = 2
    Garbage = Garbage
    None = None
SPECIFICATION FairSpec
INVARIANTS PartIsPrefix
 
