------------------------------ MODULE RefModel ------------------------------
(***************************************************************************)
(* src/ref/deepseek_v4_ref.py: the PyTorch reference of the model the      *)
(* engine ports. Transformer.forward prefills a text at start_pos 0 and    *)
(* then takes one token per call; forward_spec feeds the DSpark stages.    *)
(*                                                                         *)
(* Its caches differ from the engine's: a ring of Window rows, and for the *)
(* compressed rows a state that collects a group over several calls. All   *)
(* of them are module buffers, so a text finds what the last one left.     *)
(* Hidden states and rows are represented by provenance, as in CacheRows.  *)
(***************************************************************************)
EXTENDS CacheRows

CONSTANTS
    NLayers, Ratio,     \* n_layers, compress_ratios
    Stages,             \* the mtp layers
    MaxSeq,             \* max_seq_len
    Texts,              \* token sequences fed: functions [0..MaxSeq-1 -> Token]
    PromptLens,         \* tokens of the first call
    MaxTexts            \* bound: texts run on one model

Layers == 0..(NLayers - 1)

ASSUME RefAssumption ==
    /\ NLayers \in Nat \ {0} /\ MaxSeq \in Nat \ {0} /\ MaxTexts \in Nat
    /\ OverlapRatio \in Nat \ {0}
    /\ Ratio \in [Layers -> Nat]
    /\ Texts \subseteq [0..(MaxSeq - 1) -> Token]
    /\ PromptLens \subseteq 1..MaxSeq

VARIABLES
    dirty,      \* the buffers hold something other than what they were created with
    texts,      \* texts begun
    ids,        \* the text being fed
    start, len, \* start_pos and length of the call, or of the last one
    call,       \* "none", "forward", "spec": what the caller is in
    lay,        \* next layer
    x,          \* hidden states of the call
    ring,       \* kv_cache[:, :win] of each layer
    cmp, icmp,  \* Compressor of the attention and of the indexer, per layer
    dring,      \* kv_cache of the DSpark stages
    draft       \* what the last draft was computed from: "none", "right", "wrong"

buffers == <<ring, cmp, icmp, dring>>
vars == <<dirty, texts, ids, start, len, call, lay, x, ring, cmp, icmp, dring, draft>>

-----------------------------------------------------------------------------
\* A slot of kv_state and score_state: the score's position bias and the token it
\* came from, or nothing where the score is minus infinity.
Nothing == << >>
Slot(i, h) == <<i, h>>

\* A compressed row: the position it is rotated to and what it pools, each part
\* from one half of the projection.
Row(at, old, new) == [at |-> at, parts |-> {<<"old", s>> : s \in old \ {Nothing}}
                                      \cup {<<"new", s>> : s \in new \ {Nothing}}]
Overlaps(R) == R = OverlapRatio
States(R) == IF Overlaps(R) THEN 2 * R ELSE R
CompRows(R) == 0..(MaxSeq \div R - 1)

Garbage(R) == [state |-> [s \in 0..(States(R) - 1) |-> Slot(0, Junk)], cache |-> [g \in CompRows(R) |-> Junk]]
Created(R) == [state |-> [s \in 0..(States(R) - 1) |-> Nothing], cache |-> [g \in CompRows(R) |-> Junk]]
Compressed == {L \in Layers : Ratio[L] # 0}
Indexed == {L \in Layers : Ratio[L] = OverlapRatio}

\* A model as constructed, or with every buffer filled at random (gen_golden.py
\* init_random_).
Init ==
    /\ dirty \in BOOLEAN /\ texts = 0 /\ ids \in Texts
    /\ start = 0 /\ len = 0 /\ call = "none" /\ lay = 0 /\ x = << >>
    /\ ring = [L \in Layers |-> [s \in 0..(Window - 1) |-> Junk]]
    /\ cmp = [L \in Compressed |-> IF dirty THEN Garbage(Ratio[L]) ELSE Created(Ratio[L])]
    /\ icmp = [L \in Indexed |-> cmp[L]]
    /\ dring = [s \in Stages |-> [i \in 0..(Window - 1) |-> Junk]]
    /\ draft = "none"

-----------------------------------------------------------------------------
\* Compressor.forward at start_pos 0. The last whole group and the rest of the
\* tokens stay in the state for the calls to come.
PrefillStateWhole(c, R, n) == c.state
PrefillState(c, R, n) ==
    LET cutoff == n - (n % R)
        offset == IF Overlaps(R) THEN R ELSE 0
    IN  [s \in DOMAIN c.state |->
            IF Overlaps(R) /\ cutoff >= R /\ s < R THEN Slot(s, x[cutoff - R + s])
            ELSE IF s \in offset..(offset + (n % R) - 1) THEN Slot(s - offset, x[cutoff + s - offset])
            ELSE c.state[s]]
PrefillRow(R, g) ==
    Row(g * R, IF Overlaps(R) /\ g > 0 THEN {Slot(i, x[(g - 1) * R + i]) : i \in 0..(R - 1)} ELSE {},
               {Slot(i, x[g * R + i]) : i \in 0..(R - 1)})
CompressPrefill(c, R, n) ==
    [state |-> PrefillState(c, R, n),
     cache |-> [g \in DOMAIN c.cache |-> IF g < n \div R THEN PrefillRow(R, g) ELSE c.cache[g]]]

\* Compressor.forward of the token at p: its slot, and if it completes a group the
\* row, after which an overlap compressor's group becomes the previous one.
NoShift(st, R) == st
Shift(st, R) == [s \in DOMAIN st |-> IF s < R THEN st[R + s] ELSE st[s]]
CompressToken(c, R, p) ==
    LET first == IF Overlaps(R) THEN R ELSE 0
        st == [c.state EXCEPT ![first + (p % R)] = Slot(p % R, x[0])]
        old == {st[s] : s \in 0..(first - 1)}
        new == {st[s] : s \in first..(first + R - 1)}
    IN  IF (p + 1) % R # 0 THEN [c EXCEPT !.state = st]
        ELSE [state |-> IF Overlaps(R) THEN Shift(st, R) ELSE st,
              cache |-> [c.cache EXCEPT ![p \div R] = Row(p + 1 - R, old, new)]]

Compress(c, R) == IF start = 0 THEN CompressPrefill(c, R, len) ELSE CompressToken(c, R, start)

-----------------------------------------------------------------------------
\* The ring after the rows of a call: the last Window of a prefill, or one row.
RingStraight(r, rows) ==
    [s \in 0..(Window - 1) |-> IF s < len THEN rows[IF len > Window THEN len - Window + s ELSE s] ELSE r[s]]
RingPrefill(r, rows) ==
    LET cutoff == len % Window IN
    IF len <= Window THEN [s \in DOMAIN r |-> IF s < len THEN rows[s] ELSE r[s]]
    ELSE [s \in DOMAIN r |-> IF s >= cutoff THEN rows[len - Window + s - cutoff]
                             ELSE rows[len - cutoff + s]]
Ringed(r, rows) == IF start = 0 THEN RingPrefill(r, rows) ELSE [r EXCEPT ![start % Window] = rows[0]]

\* get_window_topk_idxs: positions of the pass for a prefill's query i, slots of
\* the ring for a token.
WindowIdxs(i) ==
    LET from == IF i - Window + 1 < 0 THEN 0 ELSE i - Window + 1
        width == IF len < Window THEN len ELSE Window
    IN  {q \in from..(from + width - 1) : q <= i}
RingIdxsShort == IF start >= Window THEN 0..(Window - 1) ELSE 0..(start - 1)
RingIdxs == IF start >= Window - 1 THEN 0..(Window - 1) ELSE 0..start

\* get_compress_topk_idxs, and what the indexer may select from.
CompressIdxs(i, R) == 0..((start + i + 1) \div R - 1)

\* What the rows a query needs are, for the history h at position p.
Due(h, p) == {Prefix(h, q) : q \in WinReads(p)}
DueCompressed(h, R, g) ==
    Row(g * R, IF Overlaps(R) /\ g > 0 THEN {Slot(i, Prefix(h, (g - 1) * R + i)) : i \in 0..(R - 1)} ELSE {},
               {Slot(i, Prefix(h, g * R + i)) : i \in 0..(R - 1)})

\* Attention of query i: the right hidden state if it reads the rows due to its
\* own history and nothing else.
Attended(i, L) ==
    LET R == Ratio[L]
        p == start + i
        window == IF start = 0 THEN {x[q] : q \in WindowIdxs(i)} ELSE {ring'[L][s] : s \in RingIdxs}
        rowsRight(c) == \A g \in CompressIdxs(i, R) : c.cache[g] = DueCompressed(x[i], R, g)
    IN  IF /\ x[i] # Junk
           /\ window = Due(x[i], p)
           /\ R # 0 => CompressIdxs(i, R) = DueRows(R, p) /\ rowsRight(cmp'[L])
           /\ Overlaps(R) => rowsRight(icmp'[L])
        THEN x[i] ELSE Junk

-----------------------------------------------------------------------------
\* A text begins with its prompt. A caller that reuses the buffers gives at least
\* one whole overlap group.
StartText(t, n) ==
    /\ call = "none" /\ texts < MaxTexts
    /\ n \in PromptLens /\ (dirty => n >= OverlapRatio)
    /\ ids' = t /\ texts' = texts + 1 /\ dirty' = TRUE
    /\ start' = 0 /\ len' = n /\ call' = "forward" /\ lay' = 0
    /\ x' = [i \in 0..(n - 1) |-> Prefix(t, i)]
    /\ UNCHANGED <<buffers, draft>>

\* The next token of the text.
NextToken ==
    /\ call = "none" /\ texts > 0 /\ start + len < MaxSeq
    /\ start' = start + len /\ len' = 1 /\ call' = "forward" /\ lay' = 0
    /\ x' = [i \in {0} |-> Prefix(ids, start')]
    /\ UNCHANGED <<dirty, texts, ids, buffers, draft>>

\* Block.forward of a layer.
ForwardLayer ==
    /\ call = "forward" /\ lay < NLayers
    /\ ring' = [ring EXCEPT ![lay] = Ringed(@, x)]
    /\ cmp' = [L \in Compressed |-> IF L = lay THEN Compress(cmp[L], Ratio[L]) ELSE cmp[L]]
    /\ icmp' = [L \in Indexed |-> IF L = lay THEN Compress(icmp[L], Ratio[L]) ELSE icmp[L]]
    /\ x' = [i \in DOMAIN x |-> Attended(i, lay)]
    /\ lay' = lay + 1
    /\ UNCHANGED <<dirty, texts, ids, start, len, call, dring, draft>>

\* The logits; the caller goes on to forward_spec with the layers' hidden states.
ForwardHead ==
    /\ call = "forward" /\ lay = NLayers
    /\ call' = "spec"
    /\ UNCHANGED <<dirty, texts, ids, start, len, lay, x, buffers, draft>>

\* forward_spec: the stages' rings take the new rows; after a token they draft.
DraftSlotsShort == 0..((IF Window < start THEN Window ELSE start) - 1)
DraftSlots == 0..((IF Window < start + 1 THEN Window ELSE start + 1) - 1)
ForwardSpec ==
    /\ call = "spec"
    /\ dring' = [s \in Stages |-> Ringed(dring[s], x)]
    /\ draft' = IF start = 0 THEN "none"
                ELSE IF \A s \in Stages : {dring'[s][i] : i \in DraftSlots} = Due(Prefix(ids, start), start)
                THEN "right" ELSE "wrong"
    /\ call' = "none"
    /\ UNCHANGED <<dirty, texts, ids, start, len, lay, x, ring, cmp, icmp>>

Next ==
    \/ \E t \in Texts, n \in PromptLens : StartText(t, n)
    \/ NextToken \/ ForwardLayer \/ ForwardHead \/ ForwardSpec

Spec == Init /\ [][Next]_vars

-----------------------------------------------------------------------------
Rows == (UNION {[0..n -> Token] : n \in 0..(MaxSeq - 1)}) \cup {Junk}
Ring == [0..(Window - 1) -> Rows]
HasShape(c, R) ==
    /\ DOMAIN c = {"state", "cache"}
    /\ DOMAIN c.state = 0..(States(R) - 1) /\ DOMAIN c.cache = CompRows(R)

\* Buffers have their shapes; a call is a prefill or one token, inside the tables.
TypeOK ==
    /\ dirty \in BOOLEAN /\ texts \in Nat /\ ids \in Texts
    /\ start \in Nat /\ len \in Nat /\ start + len <= MaxSeq
    /\ (start > 0 => len = 1) /\ (texts > 0 => len > 0) /\ (call # "none" => texts > 0)
    /\ (texts = 0 => start + len = 0) /\ (~dirty => texts = 0)
    /\ call \in {"none", "forward", "spec"} /\ lay \in 0..NLayers
    /\ DOMAIN x = 0..(len - 1) /\ \A i \in DOMAIN x : x[i] \in Rows
    /\ ring \in [Layers -> Ring] /\ dring \in [Stages -> Ring]
    /\ DOMAIN cmp = Compressed /\ \A L \in Compressed : HasShape(cmp[L], Ratio[L])
    /\ DOMAIN icmp = Indexed /\ \A L \in Indexed : HasShape(icmp[L], Ratio[L])
    /\ draft \in {"none", "right", "wrong"}

\* Token by token a text gets the hidden states one prefill of it would give,
\* whatever text used the buffers before (deepseek_v4_ref.py:322-376, 466-526).
DecodeIsPrefill == \A i \in DOMAIN x : x[i] = Prefix(ids, start + i)

\* The draft stages see the last Window rows of this text (752-763, 875-882).
DraftRight == draft # "wrong"

\* Tokens of the text that have gone through layer L, and through the stages.
FedTo(L) == IF call = "forward" /\ lay <= L THEN start ELSE start + len
FedToStages == IF call = "none" THEN start + len ELSE start

\* A ring after n tokens of the text h holds the last Window of them.
RingHeld(r, h, n) == \A q \in 0..(n - 1) : q >= n - Window => r[q % Window] = Prefix(h, q)

\* A compressor after n tokens of the text h has the rows of the groups that are
\* complete, the tokens of the one that is not, each in the slot of its position,
\* and behind an overlap its previous group.
GroupsHeld(c, h, R, n) == \A g \in 0..(n \div R - 1) : c.cache[g] = DueCompressed(h, R, g)
RestHeld(c, h, R, n) ==
    \A i \in 0..((n % R) - 1) :
        c.state[(IF Overlaps(R) THEN R ELSE 0) + i] = Slot(i, Prefix(h, n - (n % R) + i))
PreviousHeld(c, h, R, n) ==
    Overlaps(R) /\ n >= R =>
        \A i \in 0..(R - 1) : c.state[i] = Slot(i, Prefix(h, n - (n % R) - R + i))
CompHeld(c, h, R, n) == GroupsHeld(c, h, R, n) /\ RestHeld(c, h, R, n) /\ PreviousHeld(c, h, R, n)

\* Before the first overlap group completes nothing is behind it: a text that begins
\* with less than a group is given only to buffers as they were created.
NothingBehind(c, R) == \A i \in 0..(R - 1) : c.state[i] = Nothing
InFirstGroup(R, n) ==
    Overlaps(R) /\ n < R /\ (~dirty \/ (texts > 0 /\ (n > 0 \/ len < R)))

\* Every buffer is what one prefill of the tokens fed to it would leave.
RingsHeld ==
    /\ \A L \in Layers : RingHeld(ring[L], ids, FedTo(L))
    /\ \A s \in Stages : RingHeld(dring[s], ids, FedToStages)
Compressing(cs, L) ==
    /\ CompHeld(cs[L], ids, Ratio[L], FedTo(L))
    /\ InFirstGroup(Ratio[L], FedTo(L)) => NothingBehind(cs[L], Ratio[L])
BuffersHeld ==
    /\ RingsHeld
    /\ \A L \in Compressed : Compressing(cmp, L)
    /\ \A L \in Indexed : Compressing(icmp, L)

=============================================================================
