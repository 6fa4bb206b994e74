\* A prompt whose first overlap group is complete at the prefill (PS >= OverlapRatio): 3
\* tokens prefilled, 6 replays, every ratio's groups completing in both, the warm-up
\* step completing a group of ratio 2.
CONSTANTS
    Token = {0, 1}
    Junk = Junk
    Window = 2
    OverlapRatio = 2
    Target <- MCTarget
    NLayers = 3
    Ratio <- MCRatio
    PS = 3
    NDEC = 6
    Block = 2
    Slack = 0
SPECIFICATION Spec
INVARIANTS
    GraphInv
    BitExact
PROPERTIES
    RefinesGreedy
CHECK_DEADLOCK FALSE
