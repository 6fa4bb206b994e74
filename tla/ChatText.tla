----------------------------- MODULE ChatText -----------------------------
(***************************************************************************)
(* The text path of a conversation: server/chat.cpp keeps the messages and *)
(* asks for a streamed reply; the server tokenises the messages            *)
(* (tokenizer.h chat_prompt), and routes each generated token to the reply,*)
(* the reasoning or a tool call (reference/gemma_forward.cu.ref ChanRouter)*)
(* and sends what it adds as a JSON chunk.                                 *)
(*                                                                         *)
(* Generated tokens are arbitrary. Engine and transport are in ChatServer. *)
(***************************************************************************)
EXTENDS Tokenizer

CONSTANTS
    ChanStart, ChanEnd, ToolStart, ToolEnd,     \* <|channel> <channel|> <|tool_call> <tool_call|>
    Newline,        \* token 107, which ends a channel's name
    Thought(_),     \* whether a channel's name says it is reasoning
    StopIds,        \* tokens the router stops at
    EngineStops,    \* tokens the engine stops at (1, 106)
    Lines,          \* what the user types
    Generated,      \* tokens the model generates
    MaxTokens,      \* max_tokens
    MaxLines, MaxTotal      \* bounds: lines typed, tokens generated in all

ASSUME ChatAssumption ==
    /\ \A l \in Lines : l # << >> /\ Whole(l) /\ \A i \in DOMAIN l : l[i] # Mark
    /\ Generated \subseteq Token
    /\ EngineStops \subseteq StopIds /\ StopIds \subseteq Control
    /\ {ChanStart, ChanEnd, ToolStart, ToolEnd} \subseteq Control \ StopIds

VARIABLES
    msgs,       \* the client's history: message texts, the user's first
    phase,      \* "typing", "encode", "generate"
    up,         \* whether the server runs
    at, seg,    \* message being encoded and its tokens so far
    made,       \* tokens generated since the start
    reply,      \* tokens of this reply
    stop,
    router,     \* ChanRouter
    chunk,      \* text of the last chunk
    answer      \* what the client collected

vars == <<msgs, phase, up, at, seg, made, reply, stop, router, chunk, answer>>

Fresh == [state |-> "bare", tool |-> FALSE, cid |-> << >>, rid |-> << >>, tid |-> << >>,
          nid |-> << >>, cprev |-> << >>, rprev |-> << >>, tools |-> << >>]

Init ==
    /\ msgs = << >> /\ phase = "typing" /\ up = TRUE
    /\ at = 0 /\ seg = << >> /\ made = 0
    /\ reply = << >> /\ stop = FALSE /\ router = Fresh
    /\ chunk = << >> /\ answer = << >>

-----------------------------------------------------------------------------
Encode(i, history) == at' = i /\ seg' = Split(Normal(history[i]))

\* The user types a line, or clears the history; the request carries all of it.
\* Without a server the request fails, and the client goes on the same way.
Type(l) ==
    /\ phase = "typing" /\ Len(msgs) < 2 * MaxLines
    /\ msgs' = Append(msgs, l)
    /\ Encode(1, msgs')
    /\ reply' = << >> /\ stop' = FALSE /\ router' = Fresh
    /\ chunk' = << >> /\ answer' = << >>
    /\ phase' = IF up THEN "encode" ELSE "generate"
    /\ UNCHANGED <<up, made>>

Clear ==
    /\ phase = "typing" /\ msgs # << >>
    /\ msgs' = << >>
    /\ UNCHANGED <<phase, up, at, seg, made, reply, stop, router, chunk, answer>>

MergeStep ==
    /\ phase = "encode" /\ Pairs(seg) # {}
    /\ seg' = MergeAt(seg, Best(seg))
    /\ UNCHANGED <<msgs, phase, up, at, made, reply, stop, router, chunk, answer>>

\* The message is encoded: the next one, or generation.
NextMessage ==
    /\ phase = "encode" /\ Pairs(seg) = {}
    /\ \/ at < Len(msgs) /\ Encode(at + 1, msgs) /\ UNCHANGED phase
       \/ at = Len(msgs) /\ phase' = "generate" /\ at' = 0 /\ seg' = << >>
    /\ UNCHANGED <<msgs, up, made, reply, stop, router, chunk, answer>>

-----------------------------------------------------------------------------
\* What a stream's text adds to what was sent of it.
DeltaAll(f, prev) == f
Delta(f, prev) == SubSeq(f, Len(prev) + 1, Len(f))

\* feed(): the router after token t, what it adds to the reply and to the
\* reasoning, and whether to go on.
Feed(r, t) ==
    LET quiet(q) == [r |-> q, cd |-> << >>, rd |-> << >>, go |-> TRUE]
        said == Decode(Append(r.cid, t))
        thought == Decode(Append(r.rid, t))
    IN  IF t = ChanStart THEN quiet([r EXCEPT !.state = "name", !.nid = << >>])
        ELSE IF r.state = "name" THEN
            quiet(IF t = Newline
                  THEN [r EXCEPT !.state = IF Thought(Decode(r.nid)) THEN "thought" ELSE "named"]
                  ELSE [r EXCEPT !.nid = Append(@, t)])
        ELSE IF t = ChanEnd THEN quiet([r EXCEPT !.state = "bare"])
        ELSE IF t = ToolStart THEN quiet([r EXCEPT !.tool = TRUE, !.tid = << >>])
        ELSE IF r.tool THEN
            quiet(IF t = ToolEnd
                  THEN [r EXCEPT !.tool = FALSE, !.tools = Append(@, Decode(r.tid))]
                  ELSE [r EXCEPT !.tid = Append(@, t)])
        ELSE IF t \in StopIds THEN [quiet(r) EXCEPT !.go = FALSE]
        ELSE IF r.state = "thought" THEN
            [quiet([r EXCEPT !.rid = Append(@, t), !.rprev = thought])
                EXCEPT !.rd = Delta(thought, r.rprev)]
        ELSE [quiet([r EXCEPT !.cid = Append(@, t), !.cprev = said])
                EXCEPT !.cd = Delta(said, r.cprev)]

\* A token is emitted. dump() throws on a chunk that is not whole characters, and
\* nothing on the way up to the server's thread catches it.
Emit(t) ==
    /\ phase = "generate" /\ up /\ ~stop
    /\ Len(reply) < MaxTokens /\ made < MaxTotal
    /\ reply' = Append(reply, t) /\ made' = made + 1
    /\ LET f == Feed(router, t) IN
       /\ router' = f.r
       /\ chunk' = f.rd \o f.cd
       /\ stop' = (~f.go \/ t \in EngineStops)
       /\ IF Whole(f.rd \o f.cd)
          THEN answer' = answer \o f.cd /\ UNCHANGED up
          ELSE up' = FALSE /\ UNCHANGED answer
    /\ UNCHANGED <<msgs, phase, at, seg>>

\* The stream ends or breaks; the client adds what it collected to the history.
Finish ==
    /\ phase = "generate"
    /\ stop \/ Len(reply) = MaxTokens \/ ~up
    /\ msgs' = Append(msgs, answer)
    /\ phase' = "typing"
    /\ UNCHANGED <<up, at, seg, made, reply, stop, router, chunk, answer>>

Next ==
    \/ \E l \in Lines : Type(l)
    \/ Clear \/ MergeStep \/ NextMessage \/ Finish
    \/ \E t \in Generated : Emit(t)

Spec == Init /\ [][Next]_vars

-----------------------------------------------------------------------------
\* Merging the lowest rank first, one pair at a time, gives the tokens of the
\* merge list applied rank by rank: the tokens the model was trained on
\* (tokenizer.h:79-88).
CanonicalMerges ==
    phase = "encode" /\ Pairs(seg) = {} => seg = ByRank(Split(Normal(msgs[at])))

\* Every message reads back as it was written, also mid-way through its merges
\* and whether or not its characters are in the vocabulary.
RoundTrip == phase = "encode" => Decode(seg) = msgs[at]

\* The parts of a reply by position. A channel's name runs from its start to
\* the next newline; nothing but another start is recognised in it.
InName(i) == \E j \in 1..(i - 1) : reply[j] = ChanStart
                /\ \A k \in (j + 1)..(i - 1) : reply[k] \notin {Newline, ChanStart}
Marker(i, t) == reply[i] = t /\ (t = ChanStart \/ ~InName(i))
InTool(i) == \E j \in 1..(i - 1) : Marker(j, ToolStart) /\ \A k \in (j + 1)..(i - 1) : ~Marker(k, ToolEnd)
InThought(i) ==
    \E j, n \in 1..(i - 1) :
        /\ j < n /\ Marker(j, ChanStart) /\ reply[n] = Newline
        /\ \A k \in (j + 1)..(n - 1) : reply[k] \notin {Newline, ChanStart}
        /\ \A k \in (n + 1)..(i - 1) : ~Marker(k, ChanStart) /\ ~Marker(k, ChanEnd)
        /\ Thought(Decode(SubSeq(reply, j + 1, n - 1)))
Said(i) == reply[i] \notin Control /\ ~InName(i) /\ ~InTool(i) /\ ~InThought(i)

\* The client's answer is the text of the reply's own tokens: no reasoning, no
\* channel name, no tool call, nothing twice and nothing missing, however the
\* parts are nested (gemma ref 827-845, chat.cpp:29-36).
AnswerWhole ==
    up /\ phase \in {"generate", "typing"} =>
        answer = FlattenSeq([i \in DOMAIN reply |-> IF Said(i) THEN Spelled(reply[i]) ELSE << >>])

\* "decoding each stream separately for correct UTF-8" (gemma ref 826): what a
\* chunk carries is whole characters.
WholeCharacters == phase = "generate" /\ reply # << >> => Whole(chunk)

=============================================================================
