----------------------------- MODULE GenGolden -----------------------------
(***************************************************************************)
(* src/ref/gen_golden.py over the reference model, with                    *)
(* src/ref/raw_loader.py. Mode "smoke" is the model of RefModel run on its *)
(* own; the others build one layer, load its weights from the shards of a  *)
(* checkpoint, run it on a prefill and dump what a CUDA gate replays.      *)
(***************************************************************************)
EXTENDS RefModel

CONSTANT Checkpoints    \* index: tensor -> shard; shards: shard -> its tensors

\* The shards an index names are files that are there: safe_open raises otherwise.
ASSUME CheckpointAssumption ==
    \A f \in Checkpoints : \A n \in DOMAIN f.index : f.index[n] \in DOMAIN f.shards

VARIABLES
    mode, target,   \* the command and its --layer
    phase,          \* "model", "read", "load", "forward", "dump", "done", "refused"
    files,          \* the checkpoint
    toRead,         \* shards not yet read
    tensors,        \* tensors read
    toLoad,         \* wanted names not yet assigned
    params,         \* what the parameters hold
    golden          \* what was dumped

goldenVars == <<mode, target, phase, files, toRead, tensors, toLoad, params, golden>>

-----------------------------------------------------------------------------
\* Tensors of a layer, those alike taken as one: fp8 linears and fp4 experts have a
\* weight and a scale, wo_a has both in the checkpoint and only a weight in the model.
Fp8 == {"attn.linear", "attn.indexer.wq_b", "ffn.shared_experts"}
Fp4 == {"ffn.experts"}
Tensor(of, part) == [of |-> of, part |-> part]
ScaleOf(n) == [n EXCEPT !.part = IF @ = "weight" THEN "scale" ELSE @]
Parts(of) == IF of \in Fp8 \cup Fp4 THEN {"weight", "scale"} ELSE {"weight"}

\* What Attention and Block construct for a layer.
AttentionOf(L) ==
    {"attn.linear", "attn.wo_a", "attn.norms"}
    \cup (IF Ratio[L] # 0 THEN {"attn.compressor"} ELSE {})
    \cup (IF Ratio[L] = OverlapRatio THEN {"attn.indexer.wq_b", "attn.indexer.compressor"} ELSE {})
BlockOf(L) == AttentionOf(L) \cup {"ffn.experts", "ffn.shared_experts", "ffn.gate", "norms", "hc"}
Constructed == IF mode = "block" THEN BlockOf(target) ELSE AttentionOf(target)
Parameters == UNION {{Tensor(of, part) : part \in Parts(of)} : of \in Constructed}
Wanted == Parameters \cup {Tensor("attn.kv_cache", "buffer")}

\* The assertion on the layer's ratio.
NoCheck(m, L) == TRUE
LayerFits(m, L) == IF m = "cmla" THEN Ratio[L] # 0 ELSE Ratio[L] = 0

GoldenInit ==
    /\ Init
    /\ \/ mode = "smoke" /\ phase = "model" /\ target = 0 /\ files = [index |-> << >>, shards |-> << >>]
       \/ /\ mode \in {"block", "mla", "cmla"} /\ ~dirty
          /\ target \in Layers /\ files \in Checkpoints
          /\ phase = IF LayerFits(mode, target) THEN "read" ELSE "refused"
    /\ toRead = IF phase = "read" THEN DOMAIN files.shards ELSE {}
    /\ tensors = {}
    /\ toLoad = IF phase = "read" THEN Wanted ELSE {}
    /\ params = [n \in toLoad |-> Junk]
    /\ golden = << >>

\* load_state_into reads, of each shard, the keys the index places in it.
ReadShard ==
    /\ phase = "read"
    /\ \E s \in toRead :
         LET keys == {k \in toLoad \cup {ScaleOf(n) : n \in toLoad} : k \in DOMAIN files.index /\ files.index[k] = s}
         IN  toRead' = toRead \ {s} /\ tensors' = tensors \cup (keys \cap files.shards[s])
    /\ phase' = IF toRead' = {} THEN "load" ELSE "read"
    /\ UNCHANGED <<mode, target, files, toLoad, params, golden, vars>>

\* The value a parameter gets of its tensor.
ScaleAtHand(n) == files.index[ScaleOf(n)] = files.index[n]
ScaleRead(n) == ScaleOf(n) \in tensors
Assigned(n) ==
    IF n.of = "attn.wo_a" /\ ScaleRead(n) THEN <<"dequantised", n, ScaleOf(n)>>
    ELSE IF n.of \in Fp4 /\ n.part = "weight" THEN <<"fp4", n>>
    ELSE <<"raw", n>>

\* One turn of its loop: names that were not read stay as they were created.
AssignTensor ==
    /\ phase = "load"
    /\ \E n \in toLoad :
         /\ toLoad' = toLoad \ {n}
         /\ params' = IF n \notin tensors THEN params
                      ELSE [m \in DOMAIN params |->
                              IF m = n THEN Assigned(n)
                              ELSE IF m = ScaleOf(n) /\ ScaleRead(n) THEN <<"raw", m>>
                              ELSE params[m]]
    /\ phase' = IF toLoad' = {} THEN "forward" ELSE "load"
    /\ UNCHANGED <<mode, target, files, toRead, tensors, golden, vars>>

\* The layer is called once, on a random input at position 0.
CallLayer ==
    /\ phase = "forward" /\ call = "none"
    /\ \E t \in Texts, n \in PromptLens :
         ids' = t /\ len' = n /\ x' = [i \in 0..(n - 1) |-> Prefix(t, i)]
    /\ start' = 0 /\ texts' = texts + 1 /\ dirty' = TRUE /\ call' = "forward" /\ lay' = target
    /\ UNCHANGED <<buffers, draft, goldenVars>>
RunLayer ==
    /\ phase = "forward" /\ ForwardLayer
    /\ phase' = "dump"
    /\ UNCHANGED <<mode, target, files, toRead, tensors, toLoad, params, golden>>

\* What each mode writes: input, output and these weights.
DumpsAttentionOnly(m, L) == {"attn.linear", "attn.wo_a", "attn.norms"}
Dumps(m, L) ==
    {"attn.linear", "attn.wo_a", "attn.norms"}
    \cup (IF m = "block" THEN {"ffn.experts", "ffn.shared_experts", "ffn.gate", "norms", "hc"} ELSE {})
    \cup (IF m = "cmla" THEN {"attn.compressor"} ELSE {})
    \cup (IF m = "cmla" /\ L \in Indexed THEN {"attn.indexer.wq_b", "attn.indexer.compressor"} ELSE {})
Dump ==
    /\ phase = "dump"
    /\ golden' = [n \in {n \in DOMAIN params : n.of \in Dumps(mode, target)} |-> params[n]]
    /\ phase' = "done"
    /\ UNCHANGED <<mode, target, files, toRead, tensors, toLoad, params, vars>>

GoldenNext ==
    \/ phase = "model" /\ Next /\ UNCHANGED goldenVars
    \/ ReadShard \/ AssignTensor \/ CallLayer \/ RunLayer \/ Dump
GoldenSpec == GoldenInit /\ [][GoldenNext]_<<vars, goldenVars>>

-----------------------------------------------------------------------------
\* The checkpoint has what the layer needs, where its index says.
InCheckpoint(n) == n \in DOMAIN files.index /\ n \in files.shards[files.index[n]]
Complete == \A n \in Parameters \cup {Tensor("attn.wo_a", "scale")} : InCheckpoint(n)
DueValue(n) ==
    CASE n.of = "attn.wo_a" -> <<"dequantised", n, ScaleOf(n)>>
      [] n.of \in Fp4 /\ n.part = "weight" -> <<"fp4", n>>
      [] OTHER -> <<"raw", n>>

\* A golden of a complete checkpoint has every weight the layer was run with, each as
\* the checkpoint has it or, for wo_a, with its scale applied, and the outputs are
\* those of these inputs: whatever the shards' order, wherever a scale is, and for no
\* layer the mode does not cover (gen_golden.py:91-271, raw_loader.py:34-94).
GoldenRight ==
    phase = "done" /\ Complete =>
        /\ DOMAIN golden = Parameters
        /\ \A n \in Parameters : golden[n] = DueValue(n)
        /\ \A i \in DOMAIN x : x[i] = Prefix(ids, i)

\* What the loader has done so far: everything wanted of the shards read is at hand,
\* and of a complete checkpoint every parameter assigned has its value.
Loaded ==
    /\ mode \in {"block", "mla", "cmla"} /\ target \in Layers /\ LayerFits(mode, target) /\ files \in Checkpoints
    /\ toLoad \subseteq Wanted /\ DOMAIN params = Wanted
    /\ phase = "read" => toLoad = Wanted
    /\ phase # "read" => toRead = {}
    /\ phase \notin {"read", "load"} => toLoad = {}
    /\ Complete =>
         /\ \A n \in Parameters \cup {Tensor("attn.wo_a", "scale")} : n \in tensors \/ files.index[n] \in toRead
         /\ \A n \in Parameters \ toLoad : params[n] = DueValue(n)

\* The layer is called once, on fresh buffers, with what was loaded.
CalledOnce ==
    /\ phase \in {"read", "load"} => call = "none"
    /\ call = "none" => texts = 0
    /\ start = 0
    /\ call = "forward" /\ phase = "forward" => lay = target

\* The state in every mode: RefModel's between and inside calls, or the loader's.
RefInv ==
    /\ TypeOK
    /\ phase \in {"model", "read", "load", "forward", "dump", "done", "refused"}
    /\ phase = "model" => BuffersHeld
    /\ phase \notin {"model", "refused"} => Loaded /\ CalledOnce

=============================================================================
