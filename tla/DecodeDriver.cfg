\* A prompt of 4 tokens (3 of them prefilled), 4 tokens decoded one by one, 5 or more
\* decoded speculatively in blocks of 3: several rounds, each accepting 0, 1 or 2 drafts.
CONSTANTS
    Token = {0, 1}
    Junk = Junk
    Window = 2
    OverlapRatio = 2
    Target <- MCTarget
    NLayers = 3
    Ratio <- MCRatio
    PS = 3
    NDEC = 4
    NGen = 5
    Block = 3
    Slack = 0
SPECIFICATION FairSpec
INVARIANTS
    IInv
    NoStaleRead
    SameTokens
    EnoughTokens
PROPERTIES
    RowsFinal
    RefinesGreedy
    Finishes
CHECK_DEADLOCK FALSE
