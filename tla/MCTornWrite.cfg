\* Failing writes and reads, two restarts: a torn cache file.
CONSTANTS
    NumTensors = 2
    Types = {"f32", "bf16"}
    Caps = {256, 512}
    ScalesLens = {1}
    MaxRestarts = 2
    WriteFaults = TRUE
    ReadFaults = TRUE
    ScalesRef = ScalesRef
    Ones = Ones
    Uninit = Uninit
    Zero = Zero
    NoDot = NoDot
    Hole = Hole
    NoFile = NoFile
    Refs <- MCRefs
    Keys <- MCKeys
    Data <- MCData
SPECIFICATION Spec
INVARIANT
    LoadedMatchesSource
