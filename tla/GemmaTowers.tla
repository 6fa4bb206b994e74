---------------------------- MODULE GemmaTowers ----------------------------
(***************************************************************************)
(* The audio and the vision tower of                                       *)
(* src/reference/transformers_src/modeling_gemma4.py: which frames and     *)
(* patches go into each feature. Clips of a batch are padded to one length;*)
(* a feature is right if it is the one its clip would get alone.           *)
(*                                                                         *)
(* Frames, chunks and features are numbered from 0, as in the code.        *)
(***************************************************************************)
EXTENDS Integers, Sequences, FiniteSets, SequencesExt

CONSTANTS
    Chunk,          \* attention_chunk_size
    ContextLeft,    \* attention_context_left
    ContextRight,   \* attention_context_right
    ConvKernel,     \* conv_kernel_size
    AudioLayers,    \* num_hidden_layers of the audio tower
    Pool            \* pooling_kernel_size of the vision tower

MaxPast == ContextLeft - 1
Context == Chunk + MaxPast + ContextRight

\* The relative positions encoded, Context \div 2 down to 0, are those of a window that
\* reaches MaxPast frames back.
ASSUME TowerAssumption ==
    /\ {Chunk, ConvKernel, AudioLayers} \subseteq Nat \ {0}
    /\ ContextLeft \in Nat /\ ContextLeft > 1 /\ ContextRight \in {0, 1}
    /\ Context \div 2 = MaxPast
    /\ Pool \in Nat /\ Pool > 1

-----------------------------------------------------------------------------
\* The two strided convolutions over time: what is not in the mask is zeroed, and every
\* second entry of the mask is kept. A frame is represented by the input frames in it.
Halves(h) == 0..((Cardinality(DOMAIN h) + 1) \div 2 - 1)
Subsample(h, mask) ==
    [j \in Halves(h) |-> UNION {h[t] : t \in {t \in ((2 * j - 1)..(2 * j + 1)) \cap DOMAIN h : mask[t]}}]
MaskAfter(mask) == [j \in Halves(mask) |-> mask[2 * j]]

\* sliding_window_mask_function, for the window the attention gives it.
InWindow(q, k) ==
    LET dist == q - k IN (dist >= 0 /\ dist < ContextLeft - 1) \/ (dist < 0 /\ -dist < ContextRight)

\* _extract_block_context: the frame in column j of the context of block b.
ContextFrame(b, j) == b * Chunk + j - MaxPast

\* _convert_4d_mask_to_blocked_5d: whether query i of block b may read column j.
BlockedMask(mask, b, i, j) ==
    LET q == b * Chunk + i
        k == ContextFrame(b, j)
    IN  k \in DOMAIN mask /\ mask[k] /\ InWindow(q, k)

\* _rel_shift: rows of relative scores, padded to one more than the context, are read
\* again as rows of the context's width. The query and relative position whose score
\* ends up in column j of row i.
RelShiftSquare(i, j) == <<i, (Context \div 2) - j>>
RelShift(i, j) ==
    LET at == i * Context + j
    IN  <<at \div (Context + 1), (Context \div 2) - (at % (Context + 1))>>

\* Chunked attention: the frames query q reads, each with the score added to it.
AudioReads(mask, q) ==
    LET b == q \div Chunk
        i == q % Chunk
    IN  {<<ContextFrame(b, j), RelShift(i, j)>> : j \in {j \in 0..(Context - 1) : BlockedMask(mask, b, i, j)}}
DueAudioReads(mask, q) == {<<k, <<q % Chunk, q - k>>>> : k \in {k \in DOMAIN mask : mask[k] /\ InWindow(q, k)}}

\* The causal convolution pads on the left only.
LeftPad == ConvKernel - 1
ConvReads(mask, q) == {k \in (q - LeftPad)..(q - LeftPad + ConvKernel - 1) : k \in DOMAIN mask}

\* One conformer layer: frames that are right after it.
AudioLayer(mask, right) ==
    LET attended == {q \in right : /\ AudioReads(mask, q) = DueAudioReads(mask, q)
                                   /\ {r[1] : r \in AudioReads(mask, q)} \subseteq right}
    IN  {q \in attended : ConvReads(mask, q) \subseteq attended}

\* The projection in front of the layers: both convolutions.
Projected(mask) == Subsample(Subsample([t \in DOMAIN mask |-> {t}], mask), MaskAfter(mask))
DueFrame(mask, j) == {t \in DOMAIN mask : mask[t] /\ t \in (4 * j - 3)..(4 * j + 3)}

\* The tower's outputs for a clip, a mask over its frames: "right", "wrong", or "padding"
\* where the mask it returns is false.
AudioFeatures(clip) ==
    LET mask0 == [t \in 0..(Len(clip) - 1) |-> clip[t + 1]]
        mask2 == MaskAfter(MaskAfter(mask0))
        frames == Projected(mask0)
        first == {j \in DOMAIN frames : mask2[j] /\ frames[j] = DueFrame(mask0, j)}
        last == FoldLeft(LAMBDA right, l : AudioLayer(mask2, right), first, [l \in 1..AudioLayers |-> l])
    IN  [f \in 1..Cardinality(DOMAIN frames) |->
            IF ~mask2[f - 1] THEN "padding" ELSE IF f - 1 \in last THEN "right" ELSE "wrong"]

-----------------------------------------------------------------------------
\* An image is the sequence of its patches' positions <<x, y>>, of which padding has -1.
PaddingPatch == <<-1, -1>>
Greatest(S) == CHOOSE n \in S : \A k \in S : k <= n
AtLeast0(n) == IF n < 0 THEN 0 ELSE n

\* _avg_pool_by_positions: patches are averaged in squares of side k, an error if those
\* are not all the patches. Positions of padding are taken as 0; its hidden states are
\* zero.
OutputLength(clip) == Len(clip) \div (Pool * Pool)
PoolSide(clip) == Greatest({k \in 1..Len(clip) : k * k <= Len(clip) \div OutputLength(clip)})
Poolable(clip) ==
    OutputLength(clip) > 0 /\ PoolSide(clip) * PoolSide(clip) * OutputLength(clip) = Len(clip)
RowLength(clip) == (Greatest({AtLeast0(clip[i][1]) : i \in DOMAIN clip}) + 1) \div PoolSide(clip)
KernelIndex(clip, i) ==
    AtLeast0(clip[i][1]) \div PoolSide(clip) + RowLength(clip) * (AtLeast0(clip[i][2]) \div PoolSide(clip))
PooledPatches(clip, f) == {clip[i] : i \in {i \in DOMAIN clip : KernelIndex(clip, i) = f /\ clip[i] # PaddingPatch}}

\* How many features a clip gives, and the squares of an image in reading order.
DueFrames(clip) == (Cardinality({t \in DOMAIN clip : clip[t]}) + 3) \div 4
DueSquares(clip) == Cardinality({i \in DOMAIN clip : clip[i] # PaddingPatch}) \div (Pool * Pool)
DuePatches(clip, f) ==
    LET width == Greatest({clip[i][1] : i \in DOMAIN clip}) + 1
        x == (f % (width \div Pool)) * Pool
        y == (f \div (width \div Pool)) * Pool
    IN  (x..(x + Pool - 1)) \X (y..(y + Pool - 1))

\* The tower's outputs for an image, as above; squares no patch fell into are stripped.
VisionFeatures(clip) ==
    [f \in 1..OutputLength(clip) |->
        IF \A i \in DOMAIN clip : KernelIndex(clip, i) # f - 1 THEN "padding"
        ELSE IF PooledPatches(clip, f - 1) = DuePatches(clip, f - 1) THEN "right" ELSE "wrong"]

=============================================================================
