\* Faultless writes, failing reads, two restarts: Dot after load and regenerate.
CONSTANTS
    NumTensors = 2
    Types = {"f32", "bf16"}
    Caps = {256, 512}
    ScalesLens = {1}
    MaxRestarts = 2
    WriteFaults = FALSE
    ReadFaults = TRUE
    ScalesRef = ScalesRef
    Ones = Ones
    Uninit = Uninit
    Zero = Zero
    NoDot = NoDot
    Hole = Hole
    NoFile = NoFile
    Refs <- MCRefs
    Keys <- MCKeys
    Data <- MCData
SPECIFICATION Spec
INVARIANT
    DotUsesWeights
