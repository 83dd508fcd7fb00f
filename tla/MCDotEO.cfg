\* 1, 2 and 4 f32 lanes; an even number of 2*N32 blocks, as the model
\* dimensions (multiples of 128) give; row offsets of 0, 1 and 2 blocks.
CONSTANTS
    LaneCounts = {1, 2, 4}
    Blocks = {2, 4, 6, 8}
    OfsBlocks = {0, 1, 2}
SPECIFICATION Spec
\* DotEO returns: the last state has no successor.
CHECK_DEADLOCK FALSE
INVARIANTS
    TypeOK
    DotEOMatches
    DInv
