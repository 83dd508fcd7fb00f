\* Faultless writes, failing reads, three restarts, scales of length 1 or 2.
CONSTANTS
    NumTensors = 2
    Types = {"f32", "bf16"}
    Caps = {256, 512}
    ScalesLens = {1, 2}
    MaxRestarts = 3
    WriteFaults = FALSE
    ReadFaults = TRUE
    ScalesRef = ScalesRef
    Ones = Ones
    Uninit = Uninit
    Zero = Zero
    NoDot = NoDot
    Hole = Hole
    NoFile = NoFile
    Refs <- MCRefs
    Keys <- MCKeys
    Data <- MCData
SPECIFICATION Spec
INVARIANTS
    TypeOK
    LoadedMatchesSource
    CacheHitAfterCleanWrite
PROPERTIES
    ReadyEventually
