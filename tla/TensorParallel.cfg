\* Two ranks, two layers, one of them indexed, one draft stage and drafts of two tokens; a
\* prompt of two tokens, then two fed ones; sampling with a temperature.
CONSTANTS
    World = 2
    Vocab = 4
    Heads = 2
    Experts = 4
    Route <- MCRoute
    NLayers = 2
    Indexed = {1}
    Stages = 1
    Block = 2
    NoiseToken = 2
    Temperature = 1
    Seed = 0
    Prompts <- MCPrompts
    Text <- MCText
    Junk = Junk
SPECIFICATION Spec
INVARIANTS
    ScheduleInv
    SameAsOneRank
    RanksAgree
PROPERTIES
    Finishes
