\* One prefilled token: the first group of the overlap layer completes in a replay.
CONSTANTS
    Token = {0, 1}
    Junk = Junk
    Window = 2
    OverlapRatio = 2
    Target <- MCTarget
    NLayers = 3
    Ratio <- MCRatio
    PS = 1
    NDEC = 4
    Block = 2
    Slack = 0
SPECIFICATION Spec
INVARIANTS
    BitExact
CHECK_DEADLOCK FALSE
