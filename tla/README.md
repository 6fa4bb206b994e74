# Models of the DSpark / DeepSeek-V4-Flash decode engine

TLA+ specifications of the stateful core of this repository and of the Python
references it is ported from, the TLC configurations that check them on small
instances, and machine-checked proofs. The repository runs a pruned DeepSeek-V4-Flash on one
GPU: 43 layers, whose attention keeps a sliding window of raw rows next to
*compressed* rows (one per 4 or 128 tokens), and a speculative decode loop in
which a small head drafts a block of tokens and the target verifies the block in
one pass. Most of what can go wrong in it is bookkeeping: which cache rows
exist, to which text they belong, who may read them, and in which order blocks,
threads and requests touch them.

## 1. The system

### Parts, state and operations

| part | code | state it keeps | operations |
|---|---|---|---|
| decode driver | `src/decode.cu` | the token buffer `ids`, the KV caches of every layer, the row counts `T`, the taps `main_x`, the outputs | prefill, M=1 decode, verify gate, speculative rounds with accept and rollback |
| graph decode | `src/decode.cu:239-291`, `kernels/compressed_decode.cu:333-455` | combined caches `kvc`, device cells `d_pos d_g d_T d_curid`, a captured graph | prefill + copy, warm-up step, capture, replay |
| cache, compressor, indexer kernels | `kernels/{compressed_decode,block_decode,mla_decode,compressor,indexer,compressed_attn}.cu` | none of their own: they write rows of the caches | write window rows, pool and emit groups, mask, select, attend |
| MoE layer | `kernels/moe.cu`, `kernels/tc_moe_gemm.cu` | the layout of each weight (`g_pp_done`, `g_tc_cache`), per-call grouping buffers | route, count, scan, scatter, tile, GEMM, combine |
| megakernels | `src/megakernel.cu` | static scratch buffers and counters shared by every launch | launch, signal, grid barrier, arrival barrier, residual add |
| serving engine | `reference/gemma_forward.cu.ref` | one KV cache, `taps_ctx`, `valid_len`, `g_cached_ids`, the mutex | HTTP request, prefix-cached prefill, speculative generation, reply |
| draft model | `src/draft.cu` | the draft KV cache and `ctx_done` | propose |
| DSpark head | `kernels/dspark*.cu` | none between calls | draft a block from the taps |
| scratch arena | `include/dscratch.h`, `kernels/dscratch.cu` | a bump pointer | init, allocate, reset per layer |
| weight store, loader | `include/{weight_store,safetensors}.h` | resident weights, open shards | load, map, get |
| tokenizer | `include/tokenizer.h` | vocabulary and merges | encode, decode, chat prompt |
| chat client | `server/chat.cpp` | the message history | post, stream, append |
| prefill / trace driver | `src/forward.cu` | streamed weights, hidden states | forward of a whole prompt, trace capture |
| DeepSeek reference | `ref/deepseek_v4_ref.py` | ring caches, compressor states and draft rings, all of them module buffers that outlive a text; on several ranks a generator each | prefill, one token, `forward_spec`; collectives |
| golden generator | `ref/gen_golden.py`, `ref/raw_loader.py` | the parameters of one layer | construct, read shards, assign, run, dump |
| Gemma 4 references | `reference/transformers_src/modeling_gemma4.py`, `vllm_gemma4.py`, `scripts/ref_forward.py` | caches with sliding layers, shared key-value states; batches, pipeline messages, static buffers | encode media, embed and scatter, run layers, generate; load, batch, fast prefill, send on |
| numeric kernels | the rest of `kernels/` | none | GEMM, attention, normalisation, quantisation |
| gates, other oracles, scripts | `tests/`, the rest of `ref/`, `tools/`, `scripts/` | files | comparisons with golden data |

### How they interact

`main()` of `decode.cu` is one host thread that queues kernels on one stream;
each layer of a pass is a call into the block, cache, MoE and head kernels. The
interaction is shared memory: the caches are written by one pass and read by
all later ones, with the counts `T` as the only statement of what is valid.
Inside a kernel, thread blocks and threads run concurrently (the megakernels,
the MoE scatter). In the serving engine handler threads share one engine under
a mutex, and the state it leaves (KV rows, taps, cached ids, draft rows) is
reused by the next request.

The Python sources are what the engine is compared with: `gen_golden.py` runs a
layer of `deepseek_v4_ref.py` and writes what the gates replay, and the two Gemma
sources and `ref_forward.py` are three readings of one model. They keep their
state differently from the engine (a ring and a carried group instead of a cache
and counts; caches that forget; caches of other layers), so each is a model of its
own and its promise is stated the same way: what is computed call by call is what
one pass over the whole text computes.

### What is hard, and what makes each part correct

* **Speculation over caches with derived rows.** A rejected draft leaves window
  rows, history rows, compressed rows and counts behind. Correct: after each
  round the counts are those of the accepted text, no query ever reads a
  leftover, and the output is what one-token-at-a-time decode gives, whatever
  was drafted. (`NoStaleRead`, `IInv`, `RowsFinal`, `RefinesGreedy`.)
* **The same arithmetic in several shapes.** M=1, M=K and the captured graph
  emit groups and mask rows by different code. Correct: they agree.
  (`SameTokens`, `BitExact`, `GraphInv`.)
* **Buffers sized once.** `seqmax`, `comp_kv`, `Tmax`, the rope tables and `CAP`
  must hold the last block's rejected drafts. (`IInv`, `GraphInv`,
  `ChatInv`, `EnoughTokens`.)
* **Blocks that spin.** Counters in global memory order the blocks, and a flag set by
  one thread speaks for a whole block, which it does not wait for.
  (`EveryLaunchEnds`, `KernelInv`, `OutputsRight`, `ResidualOnce`.)
* **Unordered threads feeding floating-point sums**, and groups that outgrow the tile
  of the GEMM they are given to. (`MoeInv`, `FixedOrder`, `EverySlotOnce`.)
* **Requests that inherit state.** (`RepliesGreedy`, `PrefixSound`,
  `ChatInv`, `Answered`.)
* **Weights by name, offset and address.** A tensor is found through the index, a
  header, a mapping and a pool filled by partial reads; experts are repacked in
  place once, keyed by address; the buffers of a layer are freed and their
  addresses reused, while the kernels leak some of their own and do not notice a
  failed `cudaMalloc`. (`ServesOwnBytes`, `ForwardRight`, `ForwardInv`.)
* **Text that goes round.** An answer is decoded token by token, routed, sent,
  collected and encoded again in the next prompt. (`CanonicalMerges`,
  `RoundTrip`, `AnswerWhole`.)
* **Groups carried over calls.** The reference keeps the tokens of an incomplete
  group, and the group before it, in a state that prefill, single tokens and a
  shift must leave alike, next to a ring whose rows every later token overwrites.
  (`DecodeIsPrefill`, `RefInv`, `DraftRight`.)
* **Collectives that match by order alone.** A rank that skips one, or samples its
  own token, leaves the others waiting or computing another text.
  (`ScheduleInv`, `SameAsOneRank`, `RanksAgree`, `Finishes`.)
* **Goldens.** A weight and its scale may come from different shards in any order,
  and a mode must cover the layer it is asked for. (`GoldenRight`.)
* **Features in their places.** Clips are padded to one length, encoded in
  overlapping chunks or pooled by position, stripped and scattered in one flat
  order; images are read both ways, sliding caches forget, layers share the states
  of others. (`HfHiddenRight`, `RefusedRight`.)
* **Batches and pipelines.** Chunks of several requests share a pass; the shared
  layers may run for the last rows only; what a layer needs must be sent along to
  the rank it is on. (`ServedRight`, `GemmaInv`, `LogitRowsRight`, `SameLayer`.)

`PROJECT.json` lists the forty hazards that matter most with the properties that
would catch them. The code has more of them. Covered by properties: the buffer
sizes at `decode.cu:240` (`GraphInv`), the static scratch shared by launches at
`megakernel.cu:154` (`KernelInv`), the bound `CAP` at `gemma_forward.cu.ref:527`
(`ChatInv`), the repacking keyed by address at `tc_moe_gemm.cu:194` (`ForwardRight`), the number of
tiles at `:216` (`MoeInv`), the shard that cannot be opened at `safetensors.h:157`
(`ForwardInv`, `ServesOwnBytes`), the grid barrier at `megakernel.cu:71`
(`KernelInv`, `OutputsRight`, `ResidualOnce`), the
split into bytes at `tokenizer.h:82` (`RoundTrip`), the shifted inputs of the gate at
`decode.cu:298` (`SameTokens`), the taps of rejected drafts at `:423` (`IInv`), the draft slots at `deepseek_v4_ref.py:746`
(`DraftRight`), the refusals at `modeling_gemma4.py:1757` and `:2320`
(`RefusedRight`), the search for a shared layer's cache at `vllm_gemma4.py:466`
(`ServedRight`, `SameLayer`), the ratio of a layer at `gen_golden.py:100`
(`GoldenRight`). Not covered: the rope table at `decode.cu:71` (section 5), the
scales taken for powers of two at `moe.cu:254` and the logit that is not a number
at `moe.cu:132` (numeric), and the history a failed request leaves at
`chat.cpp:40` (no doc says what it should be).

## 2. The modules

The representation common to all the cache models: **a cache row is the token
history it was computed from.** The row of position p of a text is the function
`[0..p -> Token]`; a hidden state that was computed from a wrong, unwritten or
missing row is `Junk`, which is contagious through `ReadsAgree`. A compressed
row is the function from the positions it pools to the rows it pooled. So "the
numbers are the same" becomes equality of provenance, and `Target`, an arbitrary
function from histories to tokens, stands for the model: its argmax is
determined by a right history and is any token for a wrong one.

| module | models | how it corresponds |
|---|---|---|
| `GreedyDecode` | the promise of every decode loop | an abstract output that grows by at most a block of the target's greedy continuation |
| `CacheRows` | the rows the kernels write, pool, mask and read | operators shared by the two drivers: `GroupRow` (the pooled row, with the previous group of an overlap compressor), `Completing` and `EmitRows` (groups a pass completes), `DueRows` (what a query may read), `ReadsAgree` |
| `DecodeDriver` | `main()`: prefill, M=1 decode, gate, speculation | one action per loop step and per layer; `stage` is the block of `main()`, `run` the pass in flight and `lay` its next layer; `Kept` is the rollback of `T`, `Taps` the copy into `main_x` |
| `GraphDecode` | the GRAPH block | host state and device cells separately; the commit decisions are those of the device kernels |
| `MegaKernels` | `megakernel.cu` | one program counter per thread block, from `queued` through the phases of its kernel to `exited`; block 0's threads one by one while they write the vector the others wait for (`writing`); `Capacity` slots; scratch parts tagged with the launch that wrote them, and `stale`, who read one of an earlier launch |
| `MoeForward` | `moe_forward` and the GEMMs it calls | one action per kernel, `Claim` and `Fill` per thread of the scatter, `AddRow` per atomic add; the serial loops over the experts (scan, host grouping, tiles, one GEMM each) take a step per expert, counted by `expert`; a token's output is the *sequence* of its contributions |
| `ChatServer` | the serving engine and `draft_propose` | one action per step of a handler; the holder of the mutex goes through prefill, propose, verify, accept, reply |
| `WeightStore` | `safetensors.h` and `weight_store.h` | the index, each shard's header, mapping, offset of its data, reads of any length into the pool, the resolution of internal names; a missing shard fails the load |
| `ForwardDriver` | `forward.cu` `main()` | extends `WeightStore` (same process): two passes, one action per part of a layer (build, block, end), then the draft head; `heap`, `allocs` and `mk` are the `Loader`'s buffers, `done` the addresses already repacked; `Call` is the scratch of a call of the kernels, what it leaks (`leaked`) and the pointer that was never set (`wild`) |
| `Tokenizer` | `tokenizer.h` | operators: `Split` into characters or bytes, `Best` and `MergeAt` for a merge step, `Decode`; `ByRank` is the reference definition |
| `ChatText` | `server/chat.cpp` and `ChanRouter` | the client's history, encoding of a prompt one merge per step, generation of arbitrary tokens, `Feed` (the router), the chunk sent and what the client collects; `up` is whether the server process still runs |
| `RefModel` | `deepseek_v4_ref.py` on one rank | extends `CacheRows`; one action per `Block.forward`, one for the head, one for `forward_spec`; a compressor is its state slots and its cache, as in the code; a text finds the buffers as the last one, or `init_random_`, left them |
| `GenGolden` | `gen_golden.py` and `raw_loader.py` | extends `RefModel`: mode `smoke` is that model, the others run one layer of it with weights read from the shards of a checkpoint |
| `TensorParallel` | the same reference on several ranks | `pc` is where each rank is, `waiting` that it entered the collective there; a partial result is the set of parts (embedding row, heads, experts) a rank holds, a sum is right if each due part comes once |
| `GemmaText` | the Gemma 4 text layer in its three sources | the sharing of key-value states, and a layer as a term over named weights and norms |
| `GemmaTowers` | the audio and vision towers of `modeling_gemma4.py` | operators: which frames and patches go into each feature, through mask, subsampling, chunks, relative shift, causal convolution, pooling by position |
| `GemmaHf` | generation with `modeling_gemma4.py` | one action per call's embedding, per layer and per generated token; a hidden state is its position or `Junk` |
| `GemmaVllm` | `vllm_gemma4.py` | loading tensor by tensor, then batches of chunks over one rank, with fast prefill, or a pipeline |
| `Gemma` | the two engines side by side | a behaviour is of either; `SameLayer` relates their layers |
| `MC*` | instances for TLC | small `Target`s that depend on the whole history, small ratios, prompts, modes |
| `DecodeDriver_proofs`, `GraphDecode_proofs`, `MegaKernels_proofs`, `MoeForward_proofs`, `ChatServer_proofs`, `ForwardDriver_proofs`, `TensorParallel_proofs`, `GenGolden_proofs` | | lemmas and theorems (section 4) |

`DecodeDriver` and `GraphDecode` extend `CacheRows` and instantiate
`GreedyDecode` with a refinement mapping.

Abstractions to keep in mind when reading them:

* *Which* due rows the indexer's top-k selects is not modelled: a query depends
  on all the rows it might select, which is stronger. The indexer's own
  compressed cache (`idx_ckv`) is written by the same code at the same moments
  as `comp_kv` and is folded into it.
* The taps of the last layers are represented by the final hidden state.
* Near-ties between logits of differently shaped GEMMs are numeric and out of
  scope: the argmax is a function of the history.
* In `MoeForward` the three matrices of an expert are one weight, and the router
  is an arbitrary routing. `AllModes` has every path the callers can reach, those
  of `NOGROUPED=1` (`forward.cu:92`, `126`) among them: the per-expert loop with the
  one-tile GEMMs, over weights repacked in place or in the cache. Weights that are used both by a mode that repacks in
  place and by one that reads the original layout are excluded by assumption.
* `MegaKernels` is sequentially consistent; the fences of the code are what
  makes that a fair reading. A block is one thread, except where its threads are
  not joined: between the writes of `hnorm16` or `ao16` by the threads of block 0 and
  the flag thread 0 sets there is no `__syncthreads()` (`megakernel.cu:51-53`,
  `118-119`), so each thread's part is a step of its own and the flag waits for
  thread 0's only. The next `__syncthreads()` (`:56`, `:121`) joins them. A GEMV reads
  the whole vector in one step; a part it finds stale is recorded in `stale`.
* `ChatServer` is the greedy mode (no sampling, no typical acceptance) and has
  one `MaxTokens` for all requests. What a handler sends is its tokens; what
  becomes of their text is `ChatText`, where in turn the tokens are arbitrary.
* In `ForwardDriver` a hidden state is the number of layers it went through with
  the right weights in the right layout, or `Junk`. Memory is counted in buffers of one
  size, of which a call of the kernels takes `Scratch` and loses `Leaks`, or fewer
  where it runs short (two in the grouped path, `allslot_d` and `OEbts`; the constant
  would be one for the device-routed loop, which loses `allslot_d` alone). After a call that was short of memory its result is the
  right one or `Junk`; that a kernel with a pointer that was not set may overwrite
  weights or end the process later is not modelled. The block-draft gate
  (`DSPARK_REAL`), which reads a second store, is left out.
* In `Tokenizer` the space mark U+2581 is one symbol. The fixed text of roles and
  tool declarations around the messages of a prompt is left out of `ChatText`.
* `RefModel` and `TensorParallel` split one program: caches and calls on one rank,
  and shards and collectives without caches. Each is right about what the other
  leaves out only if a rank's attention sees the rows `RefModel` says it does,
  which holds because every rank keeps all of them. A text on used buffers begins
  with at least one overlap group (the callers in the repository do).
* In `GenGolden` tensors that are loaded alike are one; `GoldenRight` is stated for
  checkpoints that have every tensor, since nothing says what an incomplete one
  should give.
* In `GemmaTowers` a feature is `right` if it is what its clip would get alone, up to
  the numbers; each layer of the vision encoder masks the padding and is taken for
  right. The relative positions encoded reach as far as the window only if
  half the context is the left horizon (`TowerAssumption`; the default
  configuration has it), and the kernel size of the pooler is more than one
  (section 5). An image whose number of patches is no multiple of the square of that
  size cannot be pooled and is refused (`Poolable`, `modeling_gemma4.py:641-645`). The
  images are whole squares otherwise, as the image processor makes them: a side that
  is no multiple of the kernel size, with a number of patches that is, would make the
  index of a square too large for `F.one_hot` (651-653) and is left out.
* In `GemmaText` a configuration says whether there are experts (`enable_moe_block`;
  its alias `use_second_mlp_block`, which only vLLM knows, is taken as unset) and
  whether vLLM gives the router the input the experts get
  (`router_uses_prenormed_input`).
* In `Gemma` the sampling and vLLM's scheduler are external: any token, any batch of
  chunks of which no earlier tokens are still under way.
* The command line of `main()` with more than four arguments only changes
  switches and is not modelled.

## 3. The runs

| run | module, cfg | what it shows | properties | distinct states |
|---|---|---|---|---|
| `decode_driver` | `MCDecodeDriver`, `DecodeDriver.cfg` | all stages over a sliding, an overlap (ratio 2) and a strided (ratio 3) layer, arbitrary drafts: the inductive invariant, the refinement, termination | `IInv NoStaleRead SameTokens EnoughTokens RowsFinal RefinesGreedy Finishes` | 7120 |
| `graph_decode` | `MCGraphDecode`, `GraphDecode.cfg` | prefill, warm-up, capture, replay: device counts and rows are those of the text and the replays emit the greedy tokens | `GraphInv BitExact RefinesGreedy` | 896 |
| `mega_kernels` | `MegaKernels`, `MegaKernels.cfg` | two launches of any of the three kernels; a `mega_qkv` grid that fits the GPU in any dispatch order and one that does not in index order; block 0's threads in any order around its signal | `KernelInv OutputsRight ResidualOnce EveryLaunchEnds` | 8485 |
| `moe_forward` | `MCMoeForward`, `MoeForward.cfg` | every way the callers use the layer, the per-expert loop over packed weights included, on weights repacked in place and on original ones, for every routing and thread order | `MoeInv FixedOrder EverySlotOnce` | 111063 |
| `chat_server` | `MCChatServer`, `ChatServer.cfg` | two concurrent clients, three requests over prompts that share prefixes, all drafts, stop tokens, clients that leave | `ChatInv RepliesGreedy PrefixSound Answered` | 379375 |
| `forward_driver` | `MCForwardDriver`, `ForwardDriver.cfg` | loading with any shard missing and reads of any length, two passes and the draft head in more or less memory than they need, with calls that leak | `ForwardInv ServesOwnBytes ForwardRight` | 133684 |
| `chat_text` | `MCChatText`, `ChatText.cfg` | two typed lines, generated tokens of every kind, answers that go back into the next prompt, a server that falls over | `CanonicalMerges RoundTrip AnswerWhole` | 478010 |
| `gen_golden` | `MCGenGolden`, `GenGolden.cfg` | two texts through the same reference buffers, fresh or random; every mode, layer and checkpoint layout | `RefInv DecodeIsPrefill DraftRight GoldenRight` | 48954 |
| `tensor_parallel` | `MCTensorParallel`, `TensorParallel.cfg` | a prompt and two tokens, each with its drafts, on two ranks in every interleaving | `ScheduleInv SameAsOneRank RanksAgree Finishes` | 951 |
| `gemma` | `MCGemma`, `Gemma.cfg` | prompts with images, frames of video and audio, called by tokens or embeddings, matching or not, poolable or not; every vLLM configuration, weight order, batching and fast prefill | `GemmaInv HfHiddenRight RefusedRight ServedRight SameLayer` | 105376 |

The properties named `*Inv` are conjunctions: the module's types, the
invariants that tie its own state together (`BarrierHolds`, `WritesFit`,
`GroupsRight`, `TilesCover`, `LeaksOK`, `MemoryEnough`, `ReplyBounded`, `SameSchedule`,
`BuffersHeld`, `Loaded`, `LoadedRight`) and what makes them inductive (`CacheOK`,
`ControlOK`, `CountersOK`, `ContinuesOK`, `RoundOK`, `StoreOK`, `HeapOK`,
`HiddenOK`, `OffsRight`, `ClaimsOK`, `TilesOK`, `ResultsOK`, `SameData`), so that a
run checks on its instance the very formula that section 4 proves inductive.

Two runs are expected to fail, each documenting a finding (section 5):
`graph_short_prompt` and `vllm_pipeline`.

**Bounds.**

* *Drivers.* A ratio of 2 or 3, a window of 2 and a block of 3 keep the relations
  that matter in the code (`WINDOW` 128, ratios 4 and 128, block 5): blocks
  longer than the smallest ratio, so that one round completes zero, one or two
  groups; texts longer than the window; groups that begin in the accepted and
  end in the rejected part of a block; groups pooled wholly in prefill, across
  prefill and decode, and wholly in decode. Two tokens suffice because a draft is
  either the target's token or not, and the instance's `Target` mixes the whole
  history, so that a wrong history nearly always gives another token. Prompts
  shorter than any group are covered by the theorems, which hold for all.
* *Megakernels.* Three slots against three or four blocks is the smallest GPU on
  which a block can wait for a slot; two launches let the second find the first
  one's buffers. Three threads in block 0: one that signals, and two that may or
  may not have written by then.
* *MoE.* Two tokens with two slots over two experts and tiles of 2 rows make
  groups of zero, one and two tiles; two calls on the same weights.
* *Server.* Prompts of one to three tokens with common and different prefixes,
  replies of up to 2 tokens, rounds of 2 drafts; three requests, so that two other
  prompts come between what the caches hold and what is reused.
* *Weights.* Two shards of 4 bytes, addresses for the head's buffers, one layer and
  the draft model, three layers: enough for a layer to get the addresses an
  earlier one freed. A block needs 4 buffers of scratch, the head 3 and the draft 4,
  and two are lost per block (`Leaks`). `Mems` has memory for nothing, for
  the head's weights, for a block but no second one, for one pass, for nearly two,
  and for everything (19, where `Enough` holds).
* *Text.* A letter with three merges that compete, a space, a two-byte character
  that is not in the vocabulary, and all control tokens; five generated tokens
  make every nesting of names, reasoning, tool calls and text.

* *Reference.* A ring of three rows, ratios 0, 2 (overlapping) and 3, prefills
  shorter than a group, longer than the ring and in between, and texts of nine
  tokens: the ring wraps twice and every group is completed by prefill, by a token,
  or by both. Two texts, so that the second finds the first one's buffers.
* *Ranks.* Two ranks, each with half of the heads, experts and vocabulary; tokens
  whose experts live on one rank only, so that the other has nothing to add.
* *Gemma.* A window of two against prompts of two to seven tokens; eight layers of
  which two share, with targets on the second of two pipeline ranks; images of one
  to four features, square, wide, tall and padded, and some with patches left over; audio of one to five features in
  up to three chunks; two requests of three tokens in chunks of up to two.

`MaxTexts`, `MaxSeq`, `MaxNew`, `MaxChunk`, `Length`, `Pads`, `MaxLaunches`, `MaxCalls`, `MaxRequests`, `MaxLines`, `MaxTotal`, `NDEC`, `NGen`
and `PS` bound the length of a run; they appear as guards in the modules.

**Deadlock** checking is off where the program stops: `main()` returns or exits,
and a run of launches, calls, requests or typed lines ends at its bound. That the
waiting ones do not stop early is a liveness property (`Finishes`,
`EveryLaunchEnds`, `Answered`). `tensor_parallel` checks deadlock: ranks that have
ended stay in the loop `Exit`, so any other state without a step is an error.

**Fairness.** `DecodeDriver`: WF on `Next`, since `main()` is one thread that
waits for nothing but its own kernels. `MegaKernels`: WF of each resident
block's step (a spinning warp does not stop the others) and WF of dispatch *as a
whole*: a free slot is given to some queued block, to which one is the
hardware's choice. `ChatServer`: WF of each handler thread; there are finitely
many requests, because `std::mutex` is not fair and a stream of new requests
could starve a waiting one. `TensorParallel`: WF of each rank's step, as ranks are
processes, and WF of the collectives: one that all ranks have entered completes. No fairness is assumed of clients, nor in the other
modules, which have no liveness property.

## 4. The proofs

Theorems hold for every value of the constants that the module's assumption
admits; hypotheses beyond it are named below. Each rests on an inductive invariant that a run
of section 3 checks too. A step of the proof is one action of the model, and under it
there is one step per part of the invariant that the action can disturb.

### Speculative decoding

`DecodeDriver_proofs` proves, for **every** prompt, target, number and ratio of
layers, window, block length, number of tokens and drafts admitted by the
assumption of `DecodeDriver` (`Ratio[L] = 0` or at least 1, `Block` at least 1,
`OverlapRatio` at least 1, a prompt that prefills at least one token):

| theorem | property |
|---|---|
| `Invariant` | `Spec => []IInv` |
| `TypeCorrect` | `TypeOK` |
| `NoStaleReadHolds` | no query of any pass reads a wrong row or misses one |
| `RowCountsHold` | the rollback restores the counts of the accepted text |
| `DraftContextHolds` | the draft head works from the committed text's taps |
| `GateMatchesHolds` | one M=K pass gives what K M=1 passes gave |
| `WritesFitHolds` | every write is inside the buffers |
| `EnoughTokensHolds` | speculation ends with the tokens asked for, less than a block more |
| `SameTokensHolds` | speculation emits the M=1 tokens |
| `RowsFinalHolds` | committed compressed rows never change within a stage |
| `Refinement` | `Spec => Greedy!GreedySpec` |

`TypeOK`, `RowCounts`, `DraftContext`, `GateMatches` and `WritesFit` are
consequences of `IInv` and not checked by runs of their own.

None of the safety properties is inductive: that a query reads right rows
depends on what every earlier pass wrote, on the counts, and on the tokens of
the pass in flight. The invariant is

    IInv == TypeOK /\ ControlOK /\ TextOK /\ CacheOK /\ OutputOK

* `ControlOK`: which pass each stage runs, over which positions. Without it an
  arbitrary pass could write past `seqmax` or feed a wrong token.
* `TextOK`: the token buffer below `pos` is the prompt followed by the stage's
  output, and the tokens of the pass in flight follow.
* `CacheOK`: layers the pass has been through hold the rows of `pos+K`
  positions and the others of `pos`; `T` is the number of complete groups of
  that many; each counted compressed row pools the right rows; `Tbefore` is the
  count before the round. It says nothing of the rows *behind* those: that is
  where rejected drafts stay, and the argument is that all readers and emits are
  bounded by `pos`, `K` and `T`.
* `OutputOK`: everything emitted is the greedy continuation of the prompt.

The proof rests on lemmas about the cache operators of `CacheRows`: what a query is
due, that the groups completing in a pass are those between the two counts, that
emits behind the counts leave the rows in use alone, the cardinalities and the
division facts they need. The proof of the invariant has a step per action, the
two passes sharing the lemma for a layer's writes. `Refinement` maps `Accept` to
an abstract burst, `SpecEnd` to the abstract stop and the rest to stuttering.

### The ranks

`TensorParallel_proofs` proves `ScheduleHolds == Spec => []ScheduleInv` for every
number of ranks, layers and draft stages, every set of indexed layers, block
length, routing, prompt and text admitted by `ShardsAssumption` (positive sizes,
shards that divide evenly, tokens in the vocabulary). A collective names neither
its layer nor its purpose, so that ranks which wait together wait for the same
thing (`SameSchedule`) needs a history; the invariant carries it in `Meeting(r)`,
the collective a rank waits in or will reach by steps of its own, with the call,
layer and draft it belongs to, and says that it is the same for all ranks
(`SameMeeting`). A rank's own steps leave its meeting as it is, and a collective
moves all ranks from one meeting to the next, because ranks that all wait are at
one place (lemma `Together`). `PlaceOK` says what a place implies (layers are
counted inside layers only, drafts have between one and `Block` tokens, what is
fed on is a token), `DrawsOK` bounds the random draws call by call. The proof
inducts on `Lockstep`, `ScheduleInv` without the data and without what follows from
the rest, one lemma per kind of step. That `MoE.forward` reduces whatever the routing is what
keeps it inductive: with the reduction skipped where no expert is hit the run
`tensor_parallel` finds ranks in different collectives.

On that rests what the ranks compute (`SameAsOneRankHolds`, `RanksAgreeHolds`).
`SameData` says that some one prompt accounts for everything every rank has: its
input, the drafts, the hidden state, the logits, and how often its generator was
drawn from. A partial result is a set of parts; each part that is due (an
embedding row, a head, an expert, a slice of the vocabulary) is on exactly one rank
because the shards divide evenly, so a sum over the ranks has it once. Sampling is
a function of logits, seed and the number of draws: equal counts make it equal.
Hypotheses beyond sizes: the gate picks at least one expert, prompts are not empty.

### The captured graph

`GraphDecode_proofs`, for every model, number of layers, ratios, window and number
of replays, **for prompts that fill an overlap group** (`LongPrompt`):

| theorem | property |
|---|---|
| `GraphInvHolds` | writes inside `kvc`, counts, committed rows and tokens of the text so far |
| `BitExactHolds` | a replay gives every layer the eager step's hidden state |
| `GraphRefinement` | `Spec => RefinesGreedy`: the replays are greedy decoding, one token each |

The hypothesis is needed: without it the first group of an overlap layer may be
completed by the device's emit, which does not mask the group before the text
(section 5, item 1), and `graph_short_prompt` shows the property fail. `CacheOK`
tells layer by layer which rows hold: after the prefill `Prefilled`, from the copy on
`CachedTo` the present length, one position more for the layers the pass has been
through. What the warm-up step wrote lies behind the counts that are reset
before the capture, so nothing of it is in `CachedTo`. `ControlOK` is what the device
cells mean: `d_pos` is the length of the text and `d_curid` its last token.

### The megakernels

`MegaKernels_proofs` proves `KernelInvHolds`, `OutputsRightHolds` and
`ResidualOnceHolds` for every capacity, every finite set of grids and any number
of launches. A counter is the number of blocks *past* its increment
(`CountersOK`), which makes "the counter has reached the number of blocks" mean
"all blocks are past", and so `BarrierHolds`. A block that stopped spinning tells what
the others have done (`WaitedOK`). What the blocks before a barrier of
`mega_attn_front` wrote is of this launch. Behind the signal of the other two
kernels that is known of thread 0's part only, and of all parts where block 0
itself has gone on (`ScratchOK`, by the set `writing` of threads that have not
written). So `OutputsRight` says that block 0 reads nothing stale and the other
blocks nothing but the parts of threads other than 0 (`Unsignalled`); that they
read nothing stale at all is false (section 5). `ResidualOnce` speaks of the
additions, each made when all slices of its own launch were computed, and not of the numbers
in a slice computed from a stale part. `ResidualOK` counts the launches that have ended their addition. That
the blocks do get past the barrier is not proved: `EveryLaunchEnds` is liveness.

### The MoE layer

`MoeForward_proofs`, for any sizes of at least one, every routing, every mode of the
callers and every order of threads:

| theorem | property |
|---|---|
| `MoeInvHolds` | the grouping is a bijection onto the experts' ranges, tiles cover each row once, weights are in the layout on record |
| `FixedOrderHolds` | grouped and per-token paths add in slot order, whatever the interleaving |
| `EverySlotOnceHolds` | every mode adds each assignment of a token once, by its own expert, if its groups are not larger than a one-tile GEMM holds (`Whole`) |

The per-expert tensor-core GEMMs compute one tile whatever the size of the group
(`tc_moe_gemm.cu:166`). `FitsTile` names the groups that lose rows in those modes, and
`EverySlotOnce` claims every token that is in none of them, also next to groups
that do; without that condition it is false (section 5). The
argument is counting. A group begins behind the assignments of smaller experts
(`OffsRight`), and as many rows of it are claimed as threads of its expert have
claimed one (`ClaimsOK`), fewer than its assignments while one is left: so the claimed
row lies inside the group and is new. When all are filled every assignment has a row of
its own; there are as many rows, so every row has an assignment (lemma
`GroupingIs`). Tiles made for the experts so far own their rows once (`TilesOK`).
`ResultsOK` follows the contributions through the kernels; in the per-expert loop
`Summed` is the set of assignments added so far, in any order but once each.
`WeightsOK` needs that nobody mixes modes that repack in place with modes that
read the original layout (`Compatible`).

### The serving engine

`ChatServer_proofs` proves `ChatInvHolds`, `RepliesGreedyHolds` and
`PrefixSoundHolds` for any clients, prompts, target, stop tokens, limits and
drafts, if each request fits the cache (`Size + MaxTokens + K <= CAP`, the
precondition the engine leaves to its callers). While a reply goes on, the rows, the
taps, the number of tokens counted and the tokens delivered are of one text,
the request's (`ContinuesOK`); in its last round they part, since the round commits what
is not delivered, and the handler leaves. `RoundOK` says what the verify
pass wrote, so the accepted drafts continue that text and the prefix the next
request reuses (`PrefixSound`) is the cached prompt's own, whatever was
rejected, cut short or abandoned. The draft's context is no part of it: the
reply does not depend on the drafts.

### Weights and the forward driver

`ForwardDriver_proofs` proves `ForwardInvHolds`, `ServesOwnBytesHolds` and
`ForwardRightHolds` for every checkpoint layout, set of files on disk, mapping, split
of the reads into partial ones, number of layers and memory. Assumed: finitely many
addresses and names; addresses for the head and one layer, or the draft model; a
layer has none of the head's names. How much memory there is is not assumed. `StoreOK` is the loader's: mapped shards do not
overlap, a resolved name lies at its offset behind its shard's header, the bytes
read are at their place in the buffer. `HeapOK` is the `Loader`'s stack: the head's
buffers at the bottom and the current layer's above, so freeing to the mark frees the
layer and nothing else. `LeaksOK` bounds what is lost by the calls made so far,
which over two passes is `2 * NLayers * Leaks` before the draft head runs.
With the known height of the stack this gives `MemoryEnough`: if memory holds the head, the
largest layer or the draft model with its scratch, and those leaks (`Enough`), no
allocation fails. Where it does not, `wild` says whether a kernel went on with a
pointer that was not set, and `ForwardRight` is claimed of the runs in which none did;
the others end in an error or finish. `PacksOK` says that each address on record was repacked once:
experts keep theirs for the whole run. `HiddenOK` counts the layers.

### The reference and its goldens

`GenGolden_proofs`, for every number of layers and stages, all ratios, windows, texts
and prompt lengths up to `MaxSeq`, and every layout of a checkpoint over its shards:

| theorem | property |
|---|---|
| `RefInvHolds` | buffers hold the tokens fed so far; the loader has what the shards read hold |
| `DecodeIsPrefillHolds` | a text decoded token by token, after a prompt of any length, gets the hidden states of one prefill |
| `DraftRightHolds` | the draft stages see the last `Window` rows of their own text |
| `GoldenRightHolds` | a golden of a complete checkpoint has the layer's own weights and the outputs of its inputs |

Assumed (`RefAssumption`, `CheckpointAssumption`): at least one layer and position, an
overlap ratio and a window of at least one, and an index that names shards which are
there (`safe_open` raises otherwise). A text put on used buffers begins with a whole
overlap group: that is the guard of `StartText`, and without it `DecodeIsPrefill` is
false (`deepseek_v4_ref.py:336`).

`DecodeIsPrefill` speaks of one call and says nothing of what it leaves behind, so it
is not inductive. `BuffersHeld` says it of the buffers, layer by layer, because inside
a call some layers have seen its tokens and the others have not: `FedTo(L)` counts those
layer `L` has. After `n` tokens a ring holds the last `Window` of them (`RingHeld`); a
compressor holds the complete groups in its cache, the rest in the slots of their
positions and, behind an overlap, the previous group (`CompHeld`). The first group of a
text needs more, since no previous group has replaced what was there: on fresh
buffers nothing is behind it (`NothingBehind`), and a prefill of a group or more writes it.
A prefill and a single token write in ways of their own (a rotated slice and one slot, a
reshaped batch and a shift at the end of a group); each is shown to lead from
`n` tokens to the next count, and what a query then gathers to be what is due to it.

`GoldenRight` needs the loader's bookkeeping (`Loaded`): each tensor wanted has been read
or its shard is yet to be, so a scale is at hand when its weight is assigned
whatever the shards' order, and each parameter assigned has its value. `CalledOnce` puts
the layer's one call on fresh buffers, where `DecodeIsPrefill` gives its output.

### Only model-checked

* Liveness is out of the prover's reach: `Finishes`, `EveryLaunchEnds`, `Answered`.
* `Tokenizer`, and with it `ChatText` (`CanonicalMerges`, `RoundTrip`, `AnswerWhole`),
  uses recursive operators: the number of merges is only known by doing them.
* The Gemma modules. `HfHiddenRight`, `RefusedRight`, `ServedRight` and the weights of
  `GemmaInv` speak of batches, features and slots put together by folds over sequences
  (`FoldSeq`, `FlattenSeq`), and what a fold computes for every input takes induction over
  data. `SameLayer` compares two terms of the configuration and depends on no step: a
  proof is within reach and has not been written.

## 5. What the models found

1. *Graph decode of very short prompts* (`graph_short_prompt`, `BitExact`). The device
   emit clamps positions before the text to 0. For group 0 of an overlap layer that
   candidate is committed when the group completes in a replay (fewer than 4
   prefilled tokens), so its row pools copies of token 0 where every other path
   masks the missing previous group.
2. *Per-layer inputs on a pipeline* (`vllm_pipeline`, `LogitRowsRight`).
   `vllm_gemma4.py:1139` and `1353-1354` send `per_layer_inputs` with the hidden
   states, but `1324-1325` takes them out only if the caller gave some, and
   `Gemma4ForCausalLM.forward` (1602-1613) gives none. On every rank but the first
   the layers then run without the per-layer residual. A caller that hands in its
   own on every rank, as a wrapper outside this repository may, gets those sent.

Remarks that have no run of their own. The definitions named stay in the modules;
checking one as an INVARIANT of the run named shows it.

* *Rope table of the device emit* (`RopeInTable`, `graph_decode` with `Ratio <- WideRatio`
  and `NDEC = 3`). `stride_rows` rounds the table down to whole groups, but the emit
  reads row `pos / ratio` on every step: past the last whole group of `seqmax` it is
  one row beyond the table. The candidate is not committed, so no output depends on it.
* *Draft context after a new request* (`DraftContextFresh`, `chat_server`). The test that
  guards a fresh sequence only catches one shorter than the last. Replies remain
  right; acceptance suffers.
* *Unsynchronised signal of the megakernels* (`NoStaleRead`, `mega_kernels`). All threads of
  block 0 write `hnorm16` (`megakernel.cu:51`) or `ao16` (`118`); thread 0 sets the flag
  after a fence but with no `__syncthreads()` (`52-53`, `119`). Another block may
  then read parts that other warps have not written: the previous
  launch's, or none on the first. The comment at `37` has the GEMV after the norm, and
  `LOOP_LOG.md:82` calls the tokens "VERIFIED BIT-EXACT"; the code makes neither
  certain. `mega_attn_front` meets at its grid barriers, which do join the threads.
* *Per-expert tensor-core GEMM* (`DropIn`, `moe_forward`). "Drop-in for fp4_gemm"
  (`tc_moe_gemm.cu:166`), it computes one tile of 16 rows of its group. With
  `NOGROUPED=1` (`forward.cu:92`, `126`; `moe.cu:305`, `336-347`) the rows of a larger group
  behind them are left out.
* *Memory that a pass keeps* (`NoPassAllocations`, `forward_driver`). "MEMORY-NEUTRAL 2x
  warmup: no per-pass persistent allocations" (`forward.cu:139-140`), but each call of
  `moe_forward` on grouped experts allocates `allslot_d` and `OEbts` (`moe.cu:221`, `250`) and
  frees neither (`285-291`). Without the arena both are lost for good, in each layer of
  each pass.
* *Input of the router* (`SameLayer`, `gemma`). Where `router_uses_prenormed_input` is set,
  `vllm_gemma4.py:634-638` and `734-735` give the router the normed input;
  `modeling_gemma4.py` has no such option, so for those configurations the two differ.
* *Streamed characters* (`WholeCharacters`, `chat_text`). The router sends what each token
  adds to the text. A character made of byte tokens is sent in pieces; serialising a
  piece throws in the content provider, which runs outside the handler's `try`.
* *Residency of `mega_qkv`.* Its comment says that all blocks are resident, and its
  grid is not capped. The kernel ends because block 0 is dispatched first, which
  `mega_kernels` shows for a grid that does not fit; with such a grid and another
  dispatch order the waiting blocks would fill the GPU.
* *`gen_golden.py block --layer 2`.* The usage example (line 13) and the default (line 284)
  name layer 2, but the assertion of mode `block` (line 100) wants a layer of ratio 0,
  as layer 1 is, and in the configuration of line 45 layer 2 has ratio 4.
* *Reversed embeddings.* Where per-layer tokens are recovered by comparing embeddings
  with the scaled table, the padding row put at the placeholders is not scaled, so
  a request with media is refused unless that row is zero (`Reversible`).
* *Pooling of kernel size 1.* The pooler then returns `padding_positions` as they came
  (True is padding, `modeling_gemma4.py:674-682`), and its caller takes the mask for
  True is valid (2067-2068): padding would be kept and patches stripped. `Pool > 1`
  excludes it; no configuration in the repository has it.

## 6. Not modelled

The numbers: GEMM, attention, quantisation, normalisation, the hyper-connection
mixing and the DSpark head's kernels have no control state, and floating point is
out of TLC's reach; the gates under `tests/` compare them with oracles. The other
Python oracles (`gen_units.py`, `kernel.py` and the like) evaluate one formula each
and write it to a file; benchmark scripts, tools and traces share no state with the
engine. Of the Gemma sources the vision encoder's layers, the processors that make
patches and mel frames, tensor parallelism and quantisation of the vLLM layers are
left out. Vendored code (`include/third_party`, `third_party`,
`reference/redhatai_nvfp4`, `reference/dflash_src`), and the HTML page, are not
part of the program's logic.

## 7. Plan

Built so far, in this order because the speculative loop over derived rows is
what the engine lives by: `GreedyDecode`, `CacheRows`, `DecodeDriver` and its
proofs, `GraphDecode`, `MegaKernels`, `ChatServer`, `MoeForward`, `WeightStore`,
`ForwardDriver`, `Tokenizer`, `ChatText`; then the references the engine is ported
from: `RefModel`, `GenGolden`, `TensorParallel`, `GemmaText`, `GemmaTowers`,
`GemmaHf`, `GemmaVllm`, `Gemma`.

Next modules:

* `ScratchArena`: bump allocation per layer, callers that hold pointers across
  `arena_reset`, the capture of arena addresses by the graph, overflow.
* `ForwardDriver`: the block-draft gate over a second store.
* A refinement from `DecodeDriver`'s caches to `RefModel`'s ring and carried groups.

Next theorems:

* `Gemma`: `SameLayer` for every choice of layers, from the equivalence of the two
  searches for a shared layer's source.
* `GemmaVllm`: `ServedRight` for every batching, with the folds replaced by recursive
  functions a prover can reason about where it does not take induction.
* `Tokenizer` with recursive functions instead of recursive operators, so that the
  invariants of `ChatText`'s router and client (`AnswerWhole`) come into reach.
