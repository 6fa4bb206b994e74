\* A mega_qkv whose grid fits the GPU, dispatched in any order, and one whose grid does not,
\* dispatched in index order; the other kernels launched with the GPU's capacity. Two
\* launches of any kernels: the second finds the first one's buffers and counters. Block 0
\* has a thread that signals and two that do not.
CONSTANTS
    NThreads = 3
    Capacity = 3
    QkvGrids = {3, 4}
    OrderedGrids = {4}
    MaxLaunches = 2
SPECIFICATION FairSpec
INVARIANTS
    KernelInv
    OutputsRight
    ResidualOnce
PROPERTIES
    EveryLaunchEnds
CHECK_DEADLOCK FALSE
