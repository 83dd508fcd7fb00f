\* f32 and bf16, 1/2/4 lanes, every count 1..34 (f32 only where aligned).
CONSTANTS
    Types = {"f32", "bf16"}
    LaneCounts = {1, 2, 4}
    Batch = 16
    Nums <- MCNums
    Slack = 8
    Junk = Junk
    Zero = Zero
    Unset = Unset
    Scale = Scale
    Other = Other
    Aligned = TRUE
SPECIFICATION Spec
\* Compress and Decompress return once their batches ran: the model stops.
CHECK_DEADLOCK FALSE
INVARIANTS
    TypeOK
    RoundTrip
    DecompressInBounds
    RInv
