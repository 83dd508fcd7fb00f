\* All four weight types (f32 256 and bf16 512 share a size, as do NUQ and
\* SFP at other capacities), scales of length 0 or 2, two restarts,
\* faultless writes and failing reads: the refinement of CachedWeights and
\* the inductive invariant of LoadProofs.
CONSTANTS
    NumTensors = 2
    Types = {"f32", "bf16", "sfp", "nuq"}
    Caps = {256, 512}
    ScalesLens = {0, 2}
    MaxRestarts = 2
    WriteFaults = FALSE
    ReadFaults = TRUE
    ScalesRef = ScalesRef
    Ones = Ones
    Uninit = Uninit
    Zero = Zero
    NoDot = NoDot
    Hole = Hole
    NoFile = NoFile
    Refs <- MCRefs
    Keys <- MCKeys
    Data <- MCData
SPECIFICATION Spec
INVARIANT
    LInv
PROPERTY
    ImplementsCachedWeights
