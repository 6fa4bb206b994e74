\* Two clients, three requests between them, so that two prompts come and go between what
\* the caches hold and what is reused; replies of up to 2 tokens in rounds of 2 drafts; token
\* 2 ends a reply, and a draft of another token can be wrong without ending it.
CONSTANTS
    Token = {0, 1, 2}
    Junk = Junk
    Target <- MCTarget
    StopTokens = {2}
    Clients = {c1, c2}
    NoClient = NoClient
    Prompts <- MCPrompts
    MaxTokens = 2
    K = 2
    CAP = 7
    MaxRequests = 3
SPECIFICATION FairSpec
INVARIANTS
    ChatInv
    RepliesGreedy
    PrefixSound
PROPERTIES
    Answered
CHECK_DEADLOCK FALSE
