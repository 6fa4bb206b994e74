\* Every mode the callers use, on weights of a process that repacks in place and of one that
\* does not; two tokens with two slots over two experts, tiles of two rows, so that a group
\* takes zero, one or two tiles; two calls on the same weights.
CONSTANTS
    NTok = 2
    NAct = 2
    NExperts = 2
    TileRows = 2
    Modes <- AllModes
    Junk = 99
    Shared = 100
    MaxCalls = 2
SPECIFICATION Spec
INVARIANTS
    MoeInv
    FixedOrder
    EverySlotOnce
CHECK_DEADLOCK FALSE
