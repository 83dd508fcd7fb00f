\* Every count DotEO's assertion admits: any number of 2*N32 blocks.
CONSTANTS
    LaneCounts = {1, 2, 4}
    Blocks = {1, 2, 3, 4}
    OfsBlocks = {0, 1}
SPECIFICATION Spec
CHECK_DEADLOCK FALSE
INVARIANT
    DotEOMatches
