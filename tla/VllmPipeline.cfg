\* The configurations with per-layer inputs on two pipeline ranks.
SPECIFICATION Spec
CONSTANTS
    NLayers = 8
    Full <- MCFull
    NShared = 2
    Window = 2
    Junk = Junk
    Inputs <- MCInputs
    MaxNew = 2
    Padding = Padding
    Chunk = 2
    ContextLeft = 3
    ContextRight = 0
    ConvKernel = 3
    AudioLayers = 2
    Pool = 2
    Setups <- PipelineSetups
    Orders <- MCOrders
    NExperts = 2
    Reqs <- MCReqs
    Length = 3
    MaxChunk = 2
    Pads = 1
INVARIANTS LogitRowsRight
CHECK_DEADLOCK FALSE
