\* All four weight types, models with scales of length 1 or 2, faults in
\* writes and reads, two restarts: the inductive invariant of HitProofs.
CONSTANTS
    NumTensors = 2
    Types = {"f32", "bf16", "sfp", "nuq"}
    Caps = {256, 512}
    ScalesLens = {1, 2}
    MaxRestarts = 2
    WriteFaults = TRUE
    ReadFaults = TRUE
    ScalesRef = ScalesRef
    Ones = Ones
    Uninit = Uninit
    Zero = Zero
    NoDot = NoDot
    Hole = Hole
    NoFile = NoFile
    Refs <- MCRefs
    Keys <- MCKeys
    Data <- MCData
SPECIFICATION Spec
INVARIANTS
    HInv
    CacheHitAfterCleanWrite
