\* Eight layers, the last two shared; a window of two, prompts of two to seven tokens and two
\* generated ones; every vLLM configuration on one rank, also with fast prefill, and those
\* without per-layer inputs on two; two requests of three tokens in chunks of up to two.
SPECIFICATION Spec
CONSTANTS
    NLayers = 8
    Full <- MCFull
    NShared = 2
    Window = 2
    Junk = Junk
    Inputs <- MCInputs
    MaxNew = 2
    Padding = Padding
    Chunk = 2
    ContextLeft = 3
    ContextRight = 0
    ConvKernel = 3
    AudioLayers = 2
    Pool = 2
    Setups <- MCSetups
    Orders <- MCOrders
    NExperts = 2
    Reqs <- MCReqs
    Length = 3
    MaxChunk = 2
    Pads = 1
INVARIANTS
    GemmaInv
    HfHiddenRight
    RefusedRight
    ServedRight
    SameLayer
CHECK_DEADLOCK FALSE
