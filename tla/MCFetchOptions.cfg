\* One run at a time, every combination of options, any order of runs.
CONSTANTS
    Procs = {p1}
    Inodes = {i1, i2}
    Contents <- MCContents
    NChunks = 2
    Payload <- MCPayload
    Signed = {"good"}
    Sources <- MixedSources
    Options <- AllOptions
    MaxKills = 1
    Garbage = Garbage
    None = None
SPECIFICATION Spec
INVARIANTS TypeOK SuccessIsValidated FailureLeavesNothing
PROPERTIES RemovesOnlyRefused ImplementsPromise
