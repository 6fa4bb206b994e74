---------------------------- MODULE DecodeDriver ----------------------------
(***************************************************************************)
(* src/src/decode.cu main(): prefill, M=1 greedy decode, the one-forward   *)
(* verify gate, and DSpark speculative decode, over the per-layer KV       *)
(* caches of include/block_decode.h.                                       *)
(*                                                                         *)
(* A forward pass runs the layers one after another; each layer writes its *)
(* cache rows and then attends over them. The draft head's proposals are   *)
(* arbitrary: what it proposes may cost time and nothing else.             *)
(***************************************************************************)
EXTENDS CacheRows, Sequences

CONSTANTS
    Target(_),      \* argmax of the logits of a history [0..n -> Token]
    NLayers,        \* N_LAYERS
    Ratio,          \* compress_ratio(L), 0 for a sliding layer
    PS,             \* prefill length: the prompt is at 0..PS
    NDEC,           \* tokens of the M=1 decode
    NGen,           \* NGEN0, tokens asked of the speculative decode
    Block,          \* DSPARK_BLOCK
    Slack           \* room added to seqmax (8)

Layers == 0..(NLayers - 1)
MaxOf(a, b) == IF a < b THEN b ELSE a
MinOf(a, b) == IF a < b THEN a ELSE b
SeqMaxNoBlock == PS + 1 + MaxOf(NDEC, NGen) + Slack
SeqMax == PS + 1 + MaxOf(NDEC, NGen) + Block + Slack
Positions == 0..(SeqMax - 1)
CompCap(L) == SeqMax \div Ratio[L] + 2
CompRows(L) == IF Ratio[L] = 0 THEN {} ELSE 0..(CompCap(L) - 1)
VK == MinOf(NDEC, Block)
Histories == UNION {[0..n -> Token] : n \in Positions}

ASSUME DriverAssumption ==
    /\ Junk \notin Token \cup Histories
    /\ NLayers \in Nat \ {0}
    /\ Ratio \in [Layers -> Nat]
    /\ PS \in Nat \ {0}
    /\ NDEC \in Nat
    /\ NGen \in Nat
    /\ Block \in Nat \ {0}
    /\ Slack \in Nat
    /\ \A h \in Histories : Target(h) \in Token

VARIABLES
    stage,      \* part of main() being run: "ar", "gate", "spec", "done"
    prompt,     \* ids, the host's prompt tokens
    ids,        \* d_ids, the device token buffer
    run,        \* forward pass in flight: "idle", "prefill", "decode", "verify"
    lay,        \* next layer of that pass
    pos, K,     \* it covers positions pos..pos+K-1; 0..pos-1 are in the caches
    x,          \* its hidden states, by provenance
    win, xin,   \* KV[L].win_kv, KV[L].xin
    comp, T,    \* KV[L].comp_kv (and idx_ckv, written at the same rows), KV[L].T
    cur,        \* token at pos, not yet in the caches
    gen,        \* tokens of the M=1 decode
    vam,        \* argmaxes of the verify gate
    mainx,      \* main_x, the draft head's context
    draft, Tbefore,
    sgen        \* tokens of the speculative decode

caches == <<win, xin, comp, T>>
control == <<stage, run, lay, pos, K>>
text == <<prompt, ids, cur, gen, vam, sgen>>
head == <<mainx, draft, Tbefore>>
vars == <<stage, prompt, ids, run, lay, pos, K, x, win, xin, comp, T, cur, gen, vam,
          mainx, draft, Tbefore, sgen>>

Init ==
    /\ stage = "ar"
    /\ prompt \in [0..PS -> Token]
    /\ ids = [p \in Positions |-> IF p <= PS THEN prompt[p] ELSE Junk]
    /\ run = "idle" /\ lay = 0 /\ pos = 0 /\ K = 0
    /\ x = << >>
    /\ win = [L \in Layers |-> [p \in Positions |-> Junk]]
    /\ xin = win
    /\ comp = [L \in Layers |-> [t \in CompRows(L) |-> Junk]]
    /\ T = [L \in Layers |-> 0]
    /\ cur = prompt[PS]
    /\ gen = << >> /\ vam = << >> /\ sgen = << >>
    /\ mainx = [p \in Positions |-> Junk]
    /\ draft = << >>
    /\ Tbefore = T

-----------------------------------------------------------------------------
\* Embed the tokens of ids at p..p+n-1 and start a pass of kind r over them.
Start(r, p, n) ==
    /\ run' = r /\ lay' = 0 /\ pos' = p /\ K' = n
    /\ x' = [i \in 0..(n - 1) |-> Prefix(ids', p + i)]

\* The pass is over, p positions are now in the caches.
FinishKeepsLayer(p) == run' = "idle" /\ lay' = lay + 1 /\ pos' = p /\ K' = 0 /\ x' = << >>
Finish(p) == run' = "idle" /\ lay' = 0 /\ pos' = p /\ K' = 0 /\ x' = << >>

\* argmax over the logits of a hidden state: the target's token if the state
\* was computed from the right rows, anything otherwise.
Argmax(h) == IF h \in Histories THEN {Target(h)} ELSE Token

\* Rows pos..pos+K-1 of a cache take the pass's hidden states.
WriteRows(rows) == [p \in Positions |-> IF p \in pos..(pos + K - 1) THEN x[p - pos] ELSE rows[p]]

-----------------------------------------------------------------------------
\* Prefill of 0..PS-1, at the start of each stage, with the row counts reset.
StartPrefill ==
    /\ stage # "done" /\ run = "idle" /\ pos = 0
    /\ T' = [L \in Layers |-> 0]
    /\ UNCHANGED ids
    /\ Start("prefill", 0, PS)
    /\ UNCHANGED <<stage, prompt, cur, gen, vam, sgen, win, xin, comp, head>>

\* One layer of prefill. Attention works on the pass's own keys; the caches are
\* filled on the side, with one compressed row per complete group.
PrefillLayer ==
    LET R == Ratio[lay]
        groups == {g \in 0..(PS - 1) : g * R + R - 1 <= PS - 1}
    IN  /\ run = "prefill" /\ lay < NLayers
        /\ win' = [win EXCEPT ![lay] = WriteRows(@)]
        /\ \/ /\ R = 0
              /\ UNCHANGED <<xin, comp, T>>
           \/ /\ R # 0
              /\ xin' = [xin EXCEPT ![lay] = WriteRows(@)]
              /\ comp' = [comp EXCEPT ![lay] = [t \in CompRows(lay) |->
                            IF t \in groups THEN GroupRow(xin'[lay], R, t) ELSE @[t]]]
              /\ T' = [T EXCEPT ![lay] = Cardinality(groups)]
        /\ lay' = lay + 1
        /\ UNCHANGED <<stage, run, pos, K, x, text, head>>

\* Prefill is done. The speculative stage also pools the taps of the last
\* layers into main_x; cur is the last prompt token.
PrefillDone ==
    /\ run = "prefill" /\ lay = NLayers
    /\ mainx' = IF stage = "spec" THEN WriteRows(mainx) ELSE mainx
    /\ cur' = prompt[PS]
    /\ Finish(PS)
    /\ UNCHANGED <<stage, prompt, ids, gen, vam, sgen, caches, draft, Tbefore>>

-----------------------------------------------------------------------------
\* One layer of a pass over the caches writes the K window rows and the xin
\* history and emits the groups that complete.
LayerWrites ==
    LET R == Ratio[lay] IN
    /\ lay < NLayers
    /\ win' = [win EXCEPT ![lay] = WriteRows(@)]
    /\ \/ /\ R = 0
          /\ UNCHANGED <<xin, comp, T>>
       \/ /\ R # 0
          /\ xin' = [xin EXCEPT ![lay] = WriteRows(@)]
          /\ comp' = [comp EXCEPT ![lay] =
                        EmitRows(@, T[lay], xin'[lay], pos, pos + K - 1, R)]
          /\ T' = [T EXCEPT ![lay] = @ + Cardinality(Completing(pos, pos + K - 1, R))]
    /\ lay' = lay + 1
    /\ UNCHANGED <<stage, run, pos, K, text, head>>

\* Then query pos+i reads its window and the compressed rows: what comes out is
\* a right hidden state only if all of them belong to its history.
Attended(i, rows) ==
    IF x[i] # Junk /\ ReadsAgree(x[i], pos + i, win'[lay], comp'[lay], rows, Ratio[lay])
    THEN x[i] ELSE Junk

\* M=1 attends to every emitted row, the T of this moment.
AllRows(R) == IF R = 0 THEN {} ELSE 0..(T'[lay] - 1)

DecodeLayer ==
    /\ run = "decode"
    /\ LayerWrites
    /\ x' = [i \in 0..(K - 1) |-> Attended(i, AllRows(Ratio[lay]))]

\* M=K attends per query to the rows below (pos+i+1)/ratio; the indexer's top-k
\* is also cut at T.
CausalRows(R, p) ==
    IF R # 0 /\ R = OverlapRatio THEN 0..(MinOf((p + 1) \div R, T'[lay]) - 1)
    ELSE DueRows(R, p)

VerifyLayer ==
    /\ run = "verify"
    /\ LayerWrites
    /\ x' = [i \in 0..(K - 1) |-> Attended(i, CausalRows(Ratio[lay], pos + i))]

-----------------------------------------------------------------------------
\* M=1 decode: feed cur at pos.
DecodeStep ==
    /\ stage = "ar" /\ run = "idle" /\ pos >= PS
    /\ Len(gen) < NDEC
    /\ ids' = [ids EXCEPT ![pos] = cur]
    /\ Start("decode", pos, 1)
    /\ UNCHANGED <<stage, prompt, cur, gen, vam, sgen, caches, head>>

DecodeHead ==
    /\ run = "decode" /\ lay = NLayers
    /\ \E am \in Argmax(x[0]) : gen' = Append(gen, am) /\ cur' = am
    /\ Finish(pos + 1)
    /\ UNCHANGED <<stage, prompt, ids, vam, sgen, caches, head>>

\* NDEC tokens are out: the verify gate if it has two tokens to verify.
DecodeEnd ==
    /\ stage = "ar" /\ run = "idle" /\ pos >= PS
    /\ Len(gen) >= NDEC
    /\ stage' = IF VK >= 2 THEN "gate" ELSE "spec"
    /\ Finish(0)
    /\ UNCHANGED <<text, caches, head>>

-----------------------------------------------------------------------------
\* The gate verifies the inputs of the M=1 decode in one pass of VK tokens.
GateTokenShifted(i) == IF i = 0 THEN prompt[PS] ELSE gen[i + 1]
GateToken(i) == IF i = 0 THEN prompt[PS] ELSE gen[i]

GateVerify ==
    /\ stage = "gate" /\ run = "idle" /\ pos = PS
    /\ ids' = [p \in Positions |->
                 IF p \in PS..(PS + VK - 1) THEN GateToken(p - PS) ELSE ids[p]]
    /\ Start("verify", PS, VK)
    /\ UNCHANGED <<stage, prompt, cur, gen, vam, sgen, caches, head>>

GateHead ==
    /\ stage = "gate" /\ run = "verify" /\ lay = NLayers
    /\ \E am \in [1..VK -> Token] :
         /\ \A i \in 1..VK : am[i] \in Argmax(x[i - 1])
         /\ vam' = am
    /\ stage' = "spec"
    /\ Finish(0)
    /\ UNCHANGED <<prompt, ids, cur, gen, sgen, caches, head>>

-----------------------------------------------------------------------------
SpecRoom == Len(sgen) < NGen /\ pos + Block + 1 < SeqMax

\* What the head may propose: its numbers are left out, so any block.
Drafts == [0..(Block - 1) -> Token]

\* A speculative round: the head drafts from main_x, then the target verifies
\* cur and all drafts but the last in one pass.
SpecRound ==
    /\ stage = "spec" /\ run = "idle" /\ pos >= PS
    /\ SpecRoom
    /\ draft' \in Drafts
    /\ Tbefore' = T
    /\ ids' = [p \in Positions |->
                 IF p = pos THEN cur
                 ELSE IF p \in (pos + 1)..(pos + Block - 1) THEN draft'[p - pos - 1]
                 ELSE ids[p]]
    /\ Start("verify", pos, Block)
    /\ UNCHANGED <<stage, prompt, cur, gen, vam, sgen, caches, mainx>>

\* Drafts accepted against the target's argmaxes: the length of the longest
\* matching prefix, of at most Block-1.
AcceptedUnchecked(d, tam) == Block - 1
Accepted(d, tam) ==
    Cardinality({n \in 1..(Block - 1) : \A i \in 0..(n - 1) : d[i] = tam[i]})

\* What a round emits when acc drafts were accepted: these and the target's
\* token for the next position, which becomes cur; n positions are committed.
EmissionNoCorrection(tam, acc) ==
    [out |-> [i \in 1..acc |-> draft[i - 1]],
     n |-> acc, cur |-> IF acc = 0 THEN cur ELSE draft[acc - 1]]
EmissionOfDraft(tam, acc) ==
    [out |-> [i \in 1..(acc + 1) |-> draft[i - 1]], n |-> acc + 1, cur |-> draft[acc]]
Emission(tam, acc) ==
    [out |-> [i \in 1..(acc + 1) |-> IF i <= acc THEN draft[i - 1] ELSE tam[acc]],
     n |-> acc + 1, cur |-> tam[acc]]

\* Compressed rows layer L keeps: those of the groups complete in the accepted
\* positions pos..pos+acc.
KeptAll(L, acc) == T[L]
KeptShort(L, acc) == Tbefore[L] + Cardinality(Completing(pos, pos + acc - 1, Ratio[L]))
Kept(L, acc) == Tbefore[L] + Cardinality(Completing(pos, pos + acc, Ratio[L]))

\* main_x takes the taps of the accepted positions.
TapsShort(acc) ==
    [p \in Positions |-> IF p \in pos..(pos + acc - 1) THEN x[p - pos] ELSE mainx[p]]
Taps(acc) == [p \in Positions |-> IF p \in pos..(pos + acc) THEN x[p - pos] ELSE mainx[p]]

\* Accept: emit, keep the taps of the accepted positions, roll the row counts
\* back to them.
Accept ==
    /\ stage = "spec" /\ run = "verify" /\ lay = NLayers
    /\ \E tam \in [0..(Block - 1) -> Token] :
         LET acc == Accepted(draft, tam)
             e == Emission(tam, acc)
         IN  /\ \A i \in 0..(Block - 1) : tam[i] \in Argmax(x[i])
             /\ sgen' = sgen \o e.out
             /\ mainx' = Taps(acc)
             /\ T' = [L \in Layers |-> IF Ratio[L] = 0 THEN T[L] ELSE Kept(L, acc)]
             /\ cur' = e.cur
             /\ Finish(pos + e.n)
    /\ draft' = << >>
    /\ UNCHANGED <<stage, prompt, ids, gen, vam, win, xin, comp, Tbefore>>

SpecEnd ==
    /\ stage = "spec" /\ run = "idle" /\ pos >= PS
    /\ ~SpecRoom
    /\ stage' = "done"
    /\ UNCHANGED <<run, lay, pos, K, x, text, caches, head>>

-----------------------------------------------------------------------------
Next ==
    \/ StartPrefill \/ PrefillLayer \/ PrefillDone
    \/ DecodeStep \/ DecodeLayer \/ DecodeHead \/ DecodeEnd
    \/ GateVerify \/ VerifyLayer \/ GateHead
    \/ SpecRound \/ Accept \/ SpecEnd

Spec == Init /\ [][Next]_vars

\* main() is one thread that never blocks on anything but its own GPU work.
FairSpec == Spec /\ WF_vars(Next)

-----------------------------------------------------------------------------
Rows == Histories \cup {Junk}

\* Types. Of a compressed row only the layout is fixed here: CacheOK says what
\* the rows in use hold.
TypeOK ==
    /\ stage \in {"ar", "gate", "spec", "done"}
    /\ prompt \in [0..PS -> Token]
    /\ ids \in [Positions -> Token \cup {Junk}]
    /\ run \in {"idle", "prefill", "decode", "verify"}
    /\ lay \in 0..NLayers /\ pos \in Nat /\ K \in Nat
    /\ x \in [0..(K - 1) -> Rows]
    /\ win \in [Layers -> [Positions -> Rows]]
    /\ xin \in [Layers -> [Positions -> Rows]]
    /\ DOMAIN comp = Layers /\ \A L \in Layers : DOMAIN comp[L] = CompRows(L)
    /\ T \in [Layers -> Nat] /\ Tbefore \in [Layers -> Nat]
    /\ cur \in Token
    /\ gen \in Seq(Token) /\ vam \in Seq(Token) /\ sgen \in Seq(Token)
    /\ mainx \in [Positions -> Rows]
    /\ draft \in [0..(Block - 1) -> Token] \cup {<< >>}

\* No query ever reads a cache row of another history, a row never written, or
\* misses one: rows left by rejected drafts and by the earlier stages stay
\* behind the counts and the window (decode.cu:405-417, compressed_decode.cu:231).
NoStaleRead == \A i \in 0..(K - 1) : x[i] # Junk

\* Between passes every compressed layer has exactly the rows of the groups
\* complete in the text so far: what the rollback must restore (decode.cu:424-425).
RowCounts ==
    run = "idle" /\ pos > 0 =>
        \A L \in Layers : Ratio[L] # 0 => T[L] = pos \div Ratio[L]

\* A speculative round drafts from the taps of the committed text, none missing
\* and none of a rejected draft (decode.cu:423).
DraftContext ==
    stage = "spec" /\ run = "idle" =>
        \A p \in 0..(pos - 1) : mainx[p] = Prefix(ids, p)

\* One M=K pass gives what K M=1 passes gave (decode.cu:294-295).
GateMatches == \A i \in DOMAIN vam : vam[i] = gen[i]

\* Speculative decode emits the tokens the M=1 decode emits.
SameTokens == \A i \in 1..MinOf(Len(sgen), Len(gen)) : sgen[i] = gen[i]

\* Every write of a pass, rejected drafts included, is inside the buffers that
\* seqmax sizes, and every row count within comp_kv (decode.cu:84, 104-110).
WritesFit ==
    /\ pos + K <= SeqMax
    /\ \A L \in Layers : Ratio[L] # 0 => T[L] <= CompCap(L)

\* The loop stops because the tokens are there, never for lack of room, and
\* overshoots by less than a block.
EnoughTokens == stage = "done" => Len(sgen) >= NGen /\ Len(sgen) < NGen + Block

-----------------------------------------------------------------------------
(* The inductive invariant behind these properties. *)

\* The token at p of the prompt followed by the output o.
TextAt(o, p) == IF p <= PS THEN prompt[p] ELSE o[p - PS]

\* The output o is committed: it ends at pos, where cur waits to be fed.
TextEndsAt(o) ==
    /\ pos = PS + Len(o)
    /\ cur = TextAt(o, pos)
    /\ \A p \in 0..(pos - 1) : ids[p] = TextAt(o, p)

\* Which pass each stage runs, over how many positions, and when it may start.
ControlOK ==
    /\ pos = 0 \/ pos >= PS
    /\ pos + K <= SeqMax
    /\ run = "idle" => lay = 0 /\ K = 0
    /\ run = "prefill" => stage # "done" /\ pos = 0 /\ K = PS
    /\ run = "decode" => stage = "ar" /\ pos >= PS /\ K = 1 /\ Len(gen) < NDEC
    /\ run = "verify" =>
         \/ stage = "gate" /\ pos = PS /\ K = VK
         \/ /\ stage = "spec" /\ pos >= PS /\ K = Block /\ Len(sgen) < NGen
            /\ draft \in [0..(Block - 1) -> Token]
    /\ stage = "done" => run = "idle" /\ pos >= PS

\* The token buffer below pos is the prompt and the output of the stage; the
\* tokens of the pass in flight follow it.
TextOK ==
    /\ \A p \in 0..PS : ids[p] = prompt[p]
    /\ stage = "ar" => IF pos = 0 THEN gen = << >> ELSE TextEndsAt(gen)
    /\ stage = "ar" => Len(gen) <= NDEC
    /\ stage # "ar" => Len(gen) = NDEC
    /\ stage \in {"ar", "gate"} => vam = << >> /\ sgen = << >>
    /\ stage = "gate" => VK >= 2 /\ pos \in {0, PS}
    /\ stage \in {"spec", "done"} => IF pos = 0 THEN sgen = << >> ELSE TextEndsAt(sgen)
    /\ stage = "done" => Len(sgen) >= NGen
    /\ Len(sgen) < NGen + Block
    /\ Len(vam) <= VK
    /\ \A p \in 0..(pos + K - 1) : ids[p] \in Token
    /\ run = "decode" => ids[pos] = cur
    /\ run = "verify" /\ stage = "gate" => \A i \in 0..(VK - 1) : ids[PS + i] = GateToken(i)
    /\ run = "verify" /\ stage = "spec" =>
         /\ ids[pos] = cur
         /\ \A i \in 1..(Block - 1) : ids[pos + i] = draft[i - 1]

\* Positions of layer L's caches in use: the layers below lay have already
\* written the rows of the pass in flight.
Ready(L) == IF L < lay THEN pos + K ELSE pos

\* The first n positions of layer L's caches belong to the history of the text,
\* and its count says how many compressed rows they make.
CachedTo(L, n) ==
    /\ \A p \in 0..(n - 1) : win[L][p] = Prefix(ids, p)
    /\ Ratio[L] # 0 =>
         /\ \A p \in 0..(n - 1) : xin[L][p] = Prefix(ids, p)
         /\ T[L] = n \div Ratio[L]
         /\ \A t \in 0..(T[L] - 1) : comp[L][t] = DueRow(ids, Ratio[L], t)

\* Every hidden state, cache row and tap in use is the one of its position.
\* After a stage ends the counts are stale until its successor's prefill.
CacheOK ==
    /\ \A i \in 0..(K - 1) : x[i] = Prefix(ids, pos + i)
    /\ run # "idle" \/ pos > 0 => \A L \in Layers : CachedTo(L, Ready(L))
    /\ run = "verify" /\ stage = "spec" =>
         \A L \in Layers : Ratio[L] # 0 => Tbefore[L] = pos \div Ratio[L]
    /\ stage \in {"spec", "done"} => \A p \in 0..(pos - 1) : mainx[p] = Prefix(ids, p)

\* Within a stage a committed compressed row never changes again: emits write
\* behind the rows in use (block_decode.h:11, compressor.cu:112).
RowsFinal ==
    [][stage' = stage =>
         \A L \in Layers : Ratio[L] # 0 =>
            \A t \in 0..(pos \div Ratio[L] - 1) : comp'[L][t] = comp[L][t]]_vars

\* main() ends.
Finishes == <>(stage = "done")

\* The speculative decode refines greedy decoding of the target.
Greedy == INSTANCE GreedyDecode WITH out <- sgen, stopped <- (stage = "done")
RefinesGreedy == Greedy!GreedySpec

\* Both decodes have emitted greedy tokens only.
OutputOK == Greedy!IsGreedy(prompt, gen) /\ Greedy!IsGreedy(prompt, sgen) /\ GateMatches

\* Inductive: the cache rows in use, the text and the outputs agree at every
\* point of every pass, the rejected drafts' leftovers out of sight.
IInv == TypeOK /\ ControlOK /\ TextOK /\ CacheOK /\ OutputOK

=============================================================================
