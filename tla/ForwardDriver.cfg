\* Three layers over two shards of 4 bytes, either of them missing or not; reads of any
\* length; a call of the kernels leaks two buffers, and memory runs out at any part or not.
CONSTANTS
    Name <- MCName
    File = {"A", "B"}
    Shard <- MCShard
    Span <- MCSpan
    Bytes <- MCBytes
    Key <- MCKey
    Kept <- MCName
    HeaderLen = 1
    MaxAddr = 11
    NLayers = 3
    Deq <- MCDeq
    Experts <- MCExperts
    HeadDeq = {"hd"}
    DraftDeq = {"mt", "hd"}
    DraftExperts = {"me"}
    TapLayers = {1, 2}
    Addr = {1, 2, 3}
    Mems = {0, 2, 6, 9, 13, 19}
    Scratch <- MCScratch
    Leaks = 2
    Junk = Junk
SPECIFICATION Spec
INVARIANTS
    ForwardInv
    ServesOwnBytes
    ForwardRight
CHECK_DEADLOCK FALSE
