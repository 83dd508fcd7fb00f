\* f32 with 2-lane vectors in a release build: a count that is not a
\* multiple of 2N, which only debug builds reject.
CONSTANTS
    Types = {"f32"}
    LaneCounts = {2}
    Batch = 16
    Nums <- MCNums
    Slack = 8
    Junk = Junk
    Zero = Zero
    Unset = Unset
    Scale = Scale
    Other = Other
    Aligned = FALSE
SPECIFICATION Spec
CHECK_DEADLOCK FALSE
INVARIANT
    CompressWritesInBounds
