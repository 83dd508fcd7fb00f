\* bf16 with 2-lane f32 vectors, even counts: the remainder of Compress.
CONSTANTS
    Types = {"bf16"}
    LaneCounts = {2}
    Batch = 16
    Nums <- MCEvenNums
    Slack = 8
    Junk = Junk
    Zero = Zero
    Unset = Unset
    Scale = Scale
    Other = Other
    Aligned = TRUE
SPECIFICATION Spec
CHECK_DEADLOCK FALSE
INVARIANT
    CompressWritesInBounds
