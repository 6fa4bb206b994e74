\* A ring of three rows; prefills shorter than a group, not longer than the ring, and longer
\* by more than a group; two texts of up to nine tokens through the same buffers.
SPECIFICATION GoldenSpec
CONSTANTS
    Token = {0, 1}
    Junk = Junk
    Window = 3
    OverlapRatio = 2
    NLayers = 3
    Ratio <- MCRatio
    Stages = {"mtp0", "mtp1"}
    MaxSeq = 9
    Texts <- MCTexts
    PromptLens = {1, 2, 3, 5}
    MaxTexts = 2
    Checkpoints <- MCCheckpoints
INVARIANTS RefInv DecodeIsPrefill DraftRight GoldenRight
CHECK_DEADLOCK FALSE
