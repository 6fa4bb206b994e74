\* Two lines and up to five generated tokens of any kind between them: names, reasoning, tool
\* calls and text in every nesting; the answers go back into the next prompt.
CONSTANTS
    Byte = {"a", " ", "_", "n", "t", "x1", "x2"}
    Space = " "
    Mark = "_"
    Lead <- MCLead
    Str <- MCStr
    ByteOf <- MCByteOf
    Control = {"CS", "CE", "TS", "TE", "TR", "EOS"}
    Merges <- MCMerges
    ChanStart = "CS"
    ChanEnd = "CE"
    ToolStart = "TS"
    ToolEnd = "TE"
    Newline = "NL"
    Thought <- MCThought
    StopIds = {"TR", "EOS"}
    EngineStops = {"EOS"}
    Lines <- MCLines
    Generated = {"_A", "X1", "X2", "TH", "NL", "CS", "CE", "TS", "TE", "TR", "EOS"}
    MaxTokens = 5
    MaxLines = 2
    MaxTotal = 5
SPECIFICATION Spec
INVARIANTS
    CanonicalMerges
    RoundTrip
    AnswerWhole
CHECK_DEADLOCK FALSE
