------------------------------ MODULE GemmaHf ------------------------------
(***************************************************************************)
(* src/reference/transformers_src/modeling_gemma4.py: generation with      *)
(* Gemma4ForConditionalGeneration. The first call embeds the prompt, puts  *)
(* the features of the towers in the places of the placeholders and runs   *)
(* the layers; every later call is one token with the cache.               *)
(*                                                                         *)
(* The hidden state of position p is represented by p, and by Junk when    *)
(* anything that went into it is not what it should be.                    *)
(***************************************************************************)
EXTENDS GemmaText, GemmaTowers

CONSTANTS
    Inputs,     \* what may be asked: prompts and the clips given with them, padded to one length
    MaxNew,     \* max_new_tokens
    Padding     \* a feature of a padded frame or patch

Media == {"image", "video", "audio"}

VARIABLES
    ask,        \* the request: prompt, clips and how the model is configured
    kinds,      \* the text so far: "text" or the modality a token stands for
    status,     \* "ready" for a call, "running", "failed", "done"
    start, lay, \* position of the first token of the call, next layer
    x,          \* hidden states of the call
    perLayer,   \* per_layer_inputs of the call
    blocks,     \* block_sequence_ids of the call
    cache,      \* past_key_values: the rows each layer keeps
    sharedKv    \* shared_kv_states

hfVars == <<ask, kinds, status, start, lay, x, perLayer, blocks, cache, sharedKv>>

NoRows == [L \in Layers |-> << >>]
NoShared == [t \in {"full", "sliding"} |-> << >>]
HfRest ==
    /\ status = "ready" /\ start = 1 /\ lay = 0 /\ x = << >> /\ perLayer = << >> /\ blocks = << >>
    /\ cache = NoRows /\ sharedKv = NoShared
HfInit == ask \in Inputs /\ kinds = ask.prompt /\ HfRest

Positions == start..Len(kinds)

-----------------------------------------------------------------------------
\* The towers' outputs of a modality, one clip after another; padding is stripped.
Tower(m, clip) == IF m = "audio" THEN AudioFeatures(clip) ELSE VisionFeatures(clip)
Encoded(m) == FlattenSeq([c \in DOMAIN ask.clips[m] |->
    LET out == Tower(m, ask.clips[m][c])
    IN  [f \in DOMAIN out |->
            CASE out[f] = "right" -> <<m, c, f>> [] out[f] = "wrong" -> Junk [] out[f] = "padding" -> Padding]])
FeaturesPadded(m) == Encoded(m)
Features(m) == SelectSeq(Encoded(m), LAMBDA e : e # Padding)

\* The vision tower raises on an image or a frame of video it cannot pool.
Encodable == \A m \in {"image", "video"} : \A c \in DOMAIN ask.clips[m] : Poolable(ask.clips[m][c])

\* get_placeholder_mask, and the number of placeholders up to p.
Places(m) == {p \in Positions : kinds[p] = m}
Rank(m, p) == Cardinality({q \in Places(m) : q <= p})

\* The numbers of features and placeholders agree, for what was given.
Matching == \A m \in Media : ask.clips[m] # << >> => Len(Features(m)) = Cardinality(Places(m))

\* The embedding of a placeholder that gets no feature: looked up with the padding token
\* in its place, or as the caller embedded it.
Placeholder(p) == IF ask.byEmbeds /\ start = 1 THEN <<"token", p, 0>> ELSE <<"pad", 0, 0>>

\* inputs_embeds after the scatters: features in the order of their placeholders.
Merged(p) ==
    IF kinds[p] = "text" THEN <<"token", p, 0>>
    ELSE IF ask.clips[kinds[p]] = << >> THEN Placeholder(p)
    ELSE Features(kinds[p])[Rank(kinds[p], p)]

\* The token of the per-layer embedding: the padding token at a placeholder.
PleTokenOfPlace(p) == <<"token", p, 0>>
PleToken(p) == IF kinds[p] = "text" THEN <<"token", p, 0>> ELSE <<"pad", 0, 0>>

\* Called with embeddings alone, get_per_layer_inputs looks their tokens up. The
\* padding row put at the placeholders is not scaled as the embeddings are.
Reversible == \A p \in Positions : kinds[p] = "text" \/ ask.padIsZero
Reversed == start = 1 /\ ask.byEmbeds

\* get_block_sequence_ids_for_mask: runs of vision tokens, numbered.
IsVision(p) == kinds[p] \in {"image", "video"}
AfterVisionWrapped(p) == IsVision(IF p = 1 THEN Len(kinds) ELSE p - 1)
AfterVision(p) == p > 1 /\ IsVision(p - 1)
Starts == {p \in Positions : IsVision(p) /\ ~AfterVision(p)}
VisionBlocks == [p \in Positions |->
    IF IsVision(p) THEN Cardinality({q \in Starts : q <= p}) - 1 ELSE -1]

\* prepare_inputs_for_generation: only the first call has mm_token_type_ids.
BlocksOfCall ==
    IF ask.bidirectional /\ start = 1 THEN VisionBlocks ELSE [p \in Positions |-> -1]

\* The masks of transformers: causal, sliding, and both ways inside a block.
Masked(L, p, q) == InReach(L, p, q) \/ (q \in Positions /\ blocks[p] # -1 /\ blocks[p] = blocks[q])

-----------------------------------------------------------------------------
\* What a position's embedding is due to be, and what its query is due to read: the
\* reachable past and, read both ways, the image it is part of.
DueFeatures(m, clip) == IF m = "audio" THEN DueFrames(clip) ELSE DueSquares(clip)
Given(m) == UNION {{<<c, f>> : f \in 1..DueFeatures(m, ask.clips[m][c])} : c \in DOMAIN ask.clips[m]}
DueEmbedding(p) ==
    LET m == kinds[p]
        k == Cardinality({q \in 1..p : kinds[q] = m})
        given == Given(m)
        before(u, v) == u[1] < v[1] \/ (u[1] = v[1] /\ u[2] <= v[2])
    IN  IF m = "text" THEN <<"token", p, 0>>
        ELSE IF given = {} THEN Placeholder(p)
        ELSE LET g == CHOOSE g \in given : Cardinality({u \in given : before(u, g)}) = k
             IN  <<m, g[1], g[2]>>
SameImage(p, q) == \A r \in (IF p < q THEN p..q ELSE q..p) : IsVision(r)
DueReads(L, p) == {q \in 1..Len(kinds) : InReach(L, p, q) \/ (ask.bidirectional /\ SameImage(p, q))}

\* Gemma4Model.forward up to the layers, with Gemma4TextModel's projection of the
\* per-layer inputs. Anything that does not match raises before the cache is touched.
Embed ==
    /\ status = "ready"
    /\ IF start = 1 /\ ~(Encodable /\ Matching /\ (ask.ple /\ Reversed => Reversible))
       THEN status' = "failed" /\ UNCHANGED <<x, perLayer, blocks, lay>>
       ELSE /\ status' = "running" /\ lay' = 0 /\ blocks' = BlocksOfCall
            /\ x' = [p \in Positions |-> IF Merged(p) = DueEmbedding(p) THEN p ELSE Junk]
            /\ perLayer' = [p \in Positions |-> IF ask.ple THEN <<PleToken(p), Merged(p)>> ELSE << >>]
    /\ UNCHANGED <<ask, kinds, start, cache>>
    /\ sharedKv' = NoShared

\* DynamicCache.update: the rows to attend to, and those a layer keeps of them.
Updated(L, rows) == cache[L] \o rows
KeptOneMore(L, kv) == IF L \in Full THEN kv ELSE SubSeq(kv, IF Len(kv) < Window THEN 1 ELSE Len(kv) - Window + 1, Len(kv))
Kept(L, kv) == IF L \in Full THEN kv ELSE SubSeq(kv, IF Len(kv) < Window THEN 1 ELSE Len(kv) - Window + 2, Len(kv))

\* The rows layer L attends to. A shared layer takes those the last unshared layer of
\* its type attended to in this call, not those it keeps.
SharedFromCache(L) == cache[HfTarget(L)]
SharedRows(L) == sharedKv[TypeOf(L)]
RowsOf(L, rows) == IF IsShared(L) THEN SharedRows(L) ELSE Updated(L, rows)
StoresAtFirst(L) == ~IsShared(L) /\ L = FirstPeer(L)
Stores(L) == ~IsShared(L) /\ L = HfTarget(L)

\* The hidden state of p after layer L: right if all it read was.
Attended(L, p, kv) ==
    LET offset == Len(kinds) - Len(kv)
        read == {j \in DOMAIN kv : Masked(L, p, offset + j)}
    IN  IF /\ x[p] = p
           /\ {offset + j : j \in read} = DueReads(L, p)
           /\ \A j \in read : kv[j] = <<KeyLayer(L), offset + j>>
           /\ perLayer[p] = (IF ask.ple THEN <<IF kinds[p] = "text" THEN <<"token", p, 0>> ELSE <<"pad", 0, 0>>,
                                               DueEmbedding(p)>> ELSE << >>)
        THEN p ELSE Junk

\* A decoder layer of the call.
Layer ==
    /\ status = "running" /\ lay < NLayers
    /\ LET kv == RowsOf(lay, [i \in 1..Cardinality(Positions) |-> <<lay, x[start + i - 1]>>])
       IN  /\ x' = [p \in Positions |-> Attended(lay, p, kv)]
           /\ cache' = IF IsShared(lay) THEN cache ELSE [cache EXCEPT ![lay] = Kept(lay, kv)]
           /\ sharedKv' = IF Stores(lay) THEN [sharedKv EXCEPT ![TypeOf(lay)] = kv] ELSE sharedKv
    /\ lay' = lay + 1
    /\ UNCHANGED <<ask, kinds, status, start, perLayer, blocks>>

\* The logits of the last position give the next token, which the next call feeds.
Generate ==
    /\ status = "running" /\ lay = NLayers
    /\ IF Len(kinds) < Len(ask.prompt) + MaxNew
       THEN status' = "ready" /\ kinds' = Append(kinds, "text") /\ start' = Len(kinds) + 1
       ELSE status' = "done" /\ UNCHANGED <<kinds, start>>
    /\ UNCHANGED <<ask, lay, x, perLayer, blocks, cache, sharedKv>>

HfNext == Embed \/ Layer \/ Generate

-----------------------------------------------------------------------------
HfTypeOK ==
    /\ status \in {"ready", "running", "failed", "done"} /\ lay \in 0..NLayers
    /\ start \in {1, Len(kinds)} /\ Len(kinds) <= Len(ask.prompt) + MaxNew
    /\ status = "running" => DOMAIN x = Positions /\ DOMAIN blocks = Positions
    /\ \A L \in Layers : IsShared(L) => cache[L] = << >>
    /\ \A L \in Layers \ Full : Len(cache[L]) < Window

\* The hidden states of every call are those one pass over the whole text would give:
\* with features in their places, images read both ways, sliding caches that forget,
\* and key-value states shared between layers (modeling_gemma4.py:1249-1265, 2218-2382).
HfHiddenRight == status = "running" => \A p \in Positions : x[p] = p

\* A request is refused only when the patches of an image are no multiple of what one
\* feature is pooled from, when the features do not match the placeholders, or when
\* per-layer tokens are to be recovered from the embeddings of media placeholders; and a
\* refused request has left nothing in the cache (639-645, 2245-2320, 1755-1777).
RefusedRight ==
    status = "failed" =>
        /\ cache = NoRows
        /\ \/ \E m \in Media : /\ ask.clips[m] # << >>
                               /\ Cardinality(Given(m)) # Cardinality({p \in DOMAIN kinds : kinds[p] = m})
           \/ \E m \in {"image", "video"} : \E c \in DOMAIN ask.clips[m] :
                Len(ask.clips[m][c]) % (Pool * Pool) # 0
           \/ ask.ple /\ ask.byEmbeds /\ ~ask.padIsZero /\ \E p \in DOMAIN kinds : kinds[p] # "text"

=============================================================================
