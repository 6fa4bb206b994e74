----------------------------- MODULE GemmaVllm -----------------------------
(***************************************************************************)
(* src/reference/transformers_src/vllm_gemma4.py: the text model, loaded   *)
(* from a checkpoint and serving batches of chunks of several requests, on *)
(* one rank, on one rank with fast prefill, or on a pipeline of ranks.     *)
(*                                                                         *)
(* The hidden state of position p of request r is represented by <<r, p>>, *)
(* and by Junk when anything that went into it is not what it should be.   *)
(***************************************************************************)
EXTENDS GemmaText, SequencesExt

CONSTANTS
    Setups,     \* how the model may be configured and run
    Orders,     \* the orders the checkpoint's tensors may come in
    NExperts,
    Reqs,       \* requests
    Length,     \* positions of each request
    MaxChunk,   \* bound: tokens of a request in a batch
    Pads        \* bound: padding of logits_indices

VARIABLES
    setup,      \* moe, ple, keqv, packed (3D experts), fast (kv_sharing_fast_prefill), ranks
    unread,     \* the checkpoint's tensors still to come
    slots,      \* what each rank's parameters hold
    fed,        \* tokens of each request scheduled
    inbox,      \* batches sent to each rank
    work,       \* the batch each rank is on
    cross,      \* a fast prefill's second half: logits_indices, and the rows before it
    kv,         \* the cache of each layer
    logitRows   \* rows the last batch computes logits from

vllmVars == <<setup, unread, slots, fed, inbox, work, cross, kv, logitRows>>

Idle == << >>
Ranks == 0..(setup.ranks - 1)

\* make_layers: the layers of a rank.
FirstOn(k) == (k * NLayers) \div setup.ranks
LayersOn(k) == FirstOn(k)..(FirstOn(k + 1) - 1)

-----------------------------------------------------------------------------
\* Names of tensors: of a layer's module, of an expert of it where expert # -1.
Name(L, mod, e, proj) == [layer |-> L, mod |-> mod, expert |-> e, proj |-> proj]
Whole(n) == <<n, -1, "whole">>

\* Gemma4ForCausalLM.load_weights, _weight_iterator: the tensors made of one of the
\* checkpoint, under this model's names. Packed experts are cut up; a full layer whose
\* keys are its values has its k_proj twice.
Renamed(n) == CASE n.mod = "router" /\ n.proj = "per_expert_scale" -> [n EXCEPT !.mod = "moe"]
                [] n.mod = "experts" -> [n EXCEPT !.mod = "moe"]
                [] OTHER -> n
RepeatsKeyAlways(n) == n.proj = "k_proj" /\ setup.keqv
RepeatsKey(n) == n.proj = "k_proj" /\ setup.keqv /\ n.layer \in Full
Cut(n) ==
    LET m == Renamed(n) IN
    CASE m.mod = "moe" /\ m.expert = -1 /\ m.proj = "gate_up_proj" ->
            FlattenSeq([i \in 1..NExperts |-> <<<<[m EXCEPT !.expert = i - 1, !.proj = "gate_proj"], <<n, i - 1, "first">>>>,
                                                <<[m EXCEPT !.expert = i - 1, !.proj = "up_proj"], <<n, i - 1, "second">>>>>>])
      [] m.mod = "moe" /\ m.expert = -1 /\ m.proj = "down_proj" ->
            [i \in 1..NExperts |-> <<[m EXCEPT !.expert = i - 1], <<n, i - 1, "whole">>>>]
      [] RepeatsKey(m) -> <<<<m, Whole(n)>>, <<[m EXCEPT !.proj = "v_proj"], Whole(n)>>>>
      [] OTHER -> <<<<m, Whole(n)>>>>

\* Names AutoWeightsLoader passes over.
Skipped(n) == n.mod \in {"vision_tower", "lm_head"}

\* Gemma4Model.load_weights: the parameter of a name and the shard of it.
Slot(n) ==
    CASE n.mod = "self_attn" /\ n.proj \in {"q_proj", "k_proj", "v_proj"} -> <<n.layer, "qkv_proj", -1, n.proj>>
      [] n.mod = "mlp" /\ n.proj \in {"gate_proj", "up_proj"} -> <<n.layer, "gate_up_proj", -1, n.proj>>
      [] n.mod = "moe" /\ n.proj \in {"gate_proj", "up_proj"} -> <<n.layer, "w13", n.expert, n.proj>>
      [] n.mod = "moe" /\ n.proj = "down_proj" -> <<n.layer, "w2", n.expert, n.proj>>
      [] OTHER -> <<n.layer, n.mod, n.expert, n.proj>>
HasParameter(k, n) == n.layer = -1 \/ n.layer \in LayersOn(k)
Loaded(k, held, pieces) ==
    FoldSeq(LAMBDA piece, acc : IF HasParameter(k, piece[1]) THEN (Slot(piece[1]) :> piece[2]) @@ acc ELSE acc,
            held, pieces)

\* The checkpoint: what the configuration's tensors are called in it. Shared layers
\* have no keys and values of their own, full layers may have keys only.
Checkpoint(c) ==
    UNION {
        {Name(L, "self_attn", -1, "q_proj"), Name(L, "layer_scalar", -1, "layer_scalar")}
        \cup (IF IsShared(L) THEN {} ELSE {Name(L, "self_attn", -1, "k_proj")})
        \cup (IF IsShared(L) \/ (c.keqv /\ L \in Full) THEN {} ELSE {Name(L, "self_attn", -1, "v_proj")})
        \cup {Name(L, "mlp", -1, p) : p \in {"gate_proj", "up_proj", "down_proj"}}
        \cup (IF ~c.moe THEN {}
              ELSE {Name(L, "router", -1, "per_expert_scale")} \cup
                   IF c.packed THEN {Name(L, "experts", -1, p) : p \in {"gate_up_proj", "down_proj"}}
                   ELSE {Name(L, "experts", e, p) : e \in 0..(NExperts - 1), p \in {"gate_proj", "up_proj", "down_proj"}})
      : L \in Layers}
    \cup {Name(-1, "embed_tokens", -1, "embed_tokens"), Name(-1, "lm_head", -1, "lm_head"),
          Name(-1, "vision_tower", -1, "q_proj")}

\* What the forward of layer L finds in its slots is what the checkpoint has for it.
DuePiece(c, L, slot) ==
    CASE slot[4] = "v_proj" /\ c.keqv /\ L \in Full -> Whole(Name(L, "self_attn", -1, "k_proj"))
      [] slot[2] = "qkv_proj" -> Whole(Name(L, "self_attn", -1, slot[4]))
      [] slot[2] = "gate_up_proj" \/ slot[2] = "mlp" -> Whole(Name(L, "mlp", -1, slot[4]))
      [] slot[2] = "layer_scalar" -> Whole(Name(L, "layer_scalar", -1, "layer_scalar"))
      [] slot[4] = "per_expert_scale" -> Whole(Name(L, "router", -1, "per_expert_scale"))
      [] c.packed -> <<Name(L, "experts", -1, IF slot[2] = "w2" THEN "down_proj" ELSE "gate_up_proj"), slot[3],
                       IF slot[2] = "w2" THEN "whole" ELSE IF slot[4] = "gate_proj" THEN "first" ELSE "second">>
      [] OTHER -> Whole(Name(L, "experts", slot[3], slot[4]))
UsedSlots(c, L) ==
    {<<L, "qkv_proj", -1, p>> : p \in IF IsShared(L) THEN {"q_proj"} ELSE {"q_proj", "k_proj", "v_proj"}}
    \cup {<<L, "gate_up_proj", -1, p>> : p \in {"gate_proj", "up_proj"}}
    \cup {<<L, "mlp", -1, "down_proj">>, <<L, "layer_scalar", -1, "layer_scalar">>}
    \cup (IF ~c.moe THEN {}
          ELSE {<<L, "moe", -1, "per_expert_scale">>} \cup (({L} \X {"w2"} \X (0..(NExperts - 1)) \X {"down_proj"})
                \cup ({L} \X {"w13"} \X (0..(NExperts - 1)) \X {"gate_proj", "up_proj"})))
LayerLoaded(k, L) == \A s \in UsedSlots(setup, L) : s \in DOMAIN slots[k] /\ slots[k][s] = DuePiece(setup, L, s)

-----------------------------------------------------------------------------
VllmRest ==
    /\ fed = [r \in Reqs |-> 0] /\ inbox = [k \in 0..1 |-> << >>] /\ work = [k \in 0..1 |-> Idle]
    /\ cross = Idle /\ kv = [L \in Layers |-> [rp \in Reqs \X (1..Length) |-> << >>]] /\ logitRows = << >>
VllmInit ==
    /\ setup \in Setups
    /\ \E o \in Orders : unread = o[setup]
    /\ slots = [k \in 0..1 |-> << >>]
    /\ VllmRest

\* The next tensor of the checkpoint, on every rank.
LoadWeight ==
    /\ unread # << >>
    /\ unread' = Tail(unread)
    /\ slots' = IF Skipped(Head(unread)) THEN slots
                ELSE [k \in 0..1 |-> IF k \in Ranks THEN Loaded(k, slots[k], Cut(Head(unread))) ELSE slots[k]]
    /\ UNCHANGED <<setup, fed, inbox, work, cross, kv, logitRows>>

\* vLLM's scheduler: some requests' next tokens, of which no earlier ones are under way.
InFlight(r) ==
    \/ \E k \in Ranks : work[k] # Idle /\ \E i \in DOMAIN work[k].rows : work[k].rows[i][1] = r
    \/ \E k \in Ranks : \E b \in DOMAIN inbox[k] : \E i \in DOMAIN inbox[k][b].rows : inbox[k][b].rows[i][1] = r
Schedule(chunk) ==
    /\ unread = << >> /\ \E r \in Reqs : chunk[r] > 0
    /\ \A r \in Reqs : chunk[r] > 0 => ~InFlight(r) /\ fed[r] + chunk[r] <= Length
    /\ inbox[0] = << >> /\ work[0] = Idle
    /\ LET rows == FlattenSeq([i \in 1..Cardinality(Reqs) |->
                LET r == SetToSeq(Reqs)[i] IN [j \in 1..chunk[r] |-> <<r, fed[r] + j>>]])
       IN  inbox' = [inbox EXCEPT ![0] = <<[rows |-> rows, h |-> rows, ple |-> << >>]>>]
    /\ fed' = [r \in Reqs |-> fed[r] + chunk[r]]
    /\ UNCHANGED <<setup, unread, slots, work, cross, kv, logitRows>>

\* The last row of each request in a batch, and logits_indices padded with copies.
LastRows(rows) == SetToSortSeq({i \in DOMAIN rows : \A j \in DOMAIN rows : rows[j][1] = rows[i][1] => j <= i}, <)
Padded(is, n) == is \o [i \in 1..n |-> is[1]]

\* Gemma4Model.forward at its start: embedding and per-layer inputs on the first rank;
\* on the others what was sent, per-layer inputs only where the caller gave some. The
\* text model gives none.
GivenPerLayer == FALSE
Begin(k) ==
    /\ work[k] = Idle /\ inbox[k] # << >>
    /\ LET batch == Head(inbox[k])
           ple == IF k = 0 THEN IF setup.ple THEN batch.rows ELSE << >>
                  ELSE IF GivenPerLayer THEN batch.ple ELSE << >>
       IN  work' = [work EXCEPT ![k] = [rows |-> batch.rows, h |-> batch.h, ple |-> ple, lay |-> FirstOn(k)]]
    /\ inbox' = [inbox EXCEPT ![k] = Tail(@)]
    /\ UNCHANGED <<setup, unread, slots, fed, cross, kv, logitRows>>

\* The cache after layer L ran on rows: a shared layer writes nothing.
Written(L, rows, h) ==
    IF IsShared(L) THEN kv[L]
    ELSE [rp \in DOMAIN kv[L] |-> IF \E i \in DOMAIN rows : rows[i] = rp THEN <<L, h[CHOOSE i \in DOMAIN rows : rows[i] = rp]>>
                                   ELSE kv[L][rp]]

\* The cache an attention layer reads: its own, or its target's.
SourceFirst(L) == IF IsShared(L) THEN FirstPeer(L) ELSE L
Source(L) == IF IsShared(L) THEN VllmTarget(L) ELSE L

\* A row after layer L, right if the weights are, and its own state, its per-layer input
\* and every row of its request it is due to read.
RowAfter(k, L, row, h, ple, table) ==
    IF /\ LayerLoaded(k, L)
       /\ h = row
       /\ setup.ple => ple = row
       /\ \A q \in 1..row[2] : InReach(L, row[2], q) => table[<<row[1], q>>] = <<KeyLayer(L), <<row[1], q>>>>
    THEN row ELSE Junk

RunLayer(k) ==
    LET w == work[k]
        L == w.lay
        wrote == Written(L, w.rows, w.h)
        table == IF Source(L) = L THEN wrote ELSE kv[Source(L)]
    IN  /\ kv' = [kv EXCEPT ![L] = wrote]
        /\ work' = [work EXCEPT ![k] = [w EXCEPT !.lay = L + 1, !.h = [i \in DOMAIN w.rows |->
              RowAfter(k, L, w.rows[i], w.h[i], IF w.ple = << >> THEN << >> ELSE w.ple[i], table)]]]
        /\ UNCHANGED <<setup, unread, slots, fed, inbox, logitRows>>

\* _run_decoder_layers, and the loop of Gemma4Model.forward.
SplitEarly == FirstShared - 1
Split == FirstShared
LayerStep(k) ==
    /\ work[k] # Idle /\ work[k].lay \in LayersOn(k)
    /\ setup.fast => work[k].lay # Split \/ cross # Idle
    /\ RunLayer(k) /\ UNCHANGED cross

\* fast_prefill_forward between the halves: positions, states and per-layer inputs of
\* logits_indices are copied to the static buffers. Without metadata of a fast prefill
\* every row goes on.
Gather(n) ==
    /\ setup.fast /\ cross = Idle /\ work[0] # Idle /\ work[0].lay = Split
    /\ \E is \in {Padded(LastRows(work[0].rows), n), [i \in DOMAIN work[0].rows |-> i]} :
         LET w == work[0]
             At(s) == [i \in DOMAIN is |-> s[is[i]]]
         IN  /\ cross' = [indices |-> is, rows |-> w.rows, h |-> w.h]
             /\ work' = [work EXCEPT ![0] = [w EXCEPT !.rows = At(w.rows), !.h = At(w.h),
                                                      !.ple = IF w.ple = << >> THEN << >> ELSE At(w.ple)]]
    /\ UNCHANGED <<setup, unread, slots, fed, inbox, kv, logitRows>>

\* The rows of the second half put back among those of the first.
PutBack(w) ==
    IF cross = Idle THEN w.h
    ELSE [i \in DOMAIN cross.rows |->
            IF \E j \in DOMAIN cross.indices : cross.indices[j] = i
            THEN w.h[CHOOSE j \in DOMAIN cross.indices : cross.indices[j] = i] ELSE cross.h[i]]

\* The end of a rank's layers: intermediate tensors for the next rank, or the norm.
SendOn(k) ==
    /\ work[k] # Idle /\ work[k].lay \notin LayersOn(k) /\ k + 1 \in Ranks
    /\ inbox' = [inbox EXCEPT ![k + 1] = Append(@, [rows |-> work[k].rows, h |-> work[k].h, ple |-> work[k].ple])]
    /\ work' = [work EXCEPT ![k] = Idle]
    /\ UNCHANGED <<setup, unread, slots, fed, cross, kv, logitRows>>
FinishBatch(k) ==
    /\ work[k] # Idle /\ work[k].lay \notin LayersOn(k) /\ k + 1 \notin Ranks
    /\ LET rows == IF cross = Idle THEN work[k].rows ELSE cross.rows
           is == LastRows(rows)
           h == PutBack(work[k])
       IN  logitRows' = [i \in DOMAIN is |-> <<rows[is[i]], h[is[i]]>>]
    /\ work' = [work EXCEPT ![k] = Idle] /\ cross' = Idle
    /\ UNCHANGED <<setup, unread, slots, fed, inbox, kv>>

Chunks == [Reqs -> 0..MaxChunk]
VllmNext ==
    \/ LoadWeight
    \/ \E chunk \in Chunks : Schedule(chunk)
    \/ \E k \in Ranks : Begin(k) \/ LayerStep(k) \/ SendOn(k) \/ FinishBatch(k)
    \/ \E n \in 0..Pads : Gather(n)

-----------------------------------------------------------------------------
\* Once the checkpoint is read, every rank's layers hold their own tensors, whatever
\* order they came in and however the experts are packed (vllm_gemma4.py:1367-1506,
\* 1621-1724).
LoadedRight == unread = << >> => \A k \in Ranks : \A L \in LayersOn(k) : LayerLoaded(k, L)

\* Every row logits are computed from is the one a pass over its whole request would
\* give: chunked, batched with other requests, with the shared layers run for the last
\* rows only, or on a pipeline with two batches under way (1199-1365).
LogitRowsRight == \A i \in DOMAIN logitRows : logitRows[i][2] = logitRows[i][1]

\* No layer's cache holds a row of another request or position, or a wrong one.
CachedRowsRight == \A L \in Layers, rp \in Reqs \X (1..Length) : kv[L][rp] \in {<< >>, <<L, rp>>}

=============================================================================
