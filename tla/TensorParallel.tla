--------------------------- MODULE TensorParallel ---------------------------
(***************************************************************************)
(* src/ref/deepseek_v4_ref.py on several ranks. Every rank runs the same   *)
(* program on its shard of the embedding, heads, experts and vocabulary,   *)
(* and meets the others in collectives, which match by order alone.        *)
(*                                                                         *)
(* A rank's partial result for a token is the set of parts it holds: an    *)
(* embedding row, heads, experts. all_reduce adds them up, so a result is  *)
(* right when every part that is due was contributed by exactly one rank.  *)
(* A right hidden state is represented by the token it stands for.         *)
(***************************************************************************)
EXTENDS Integers, Sequences, FiniteSets

CONSTANTS
    World,          \* world_size
    Vocab,          \* vocab_size
    Heads,          \* n_heads, index_n_heads
    Experts,        \* n_routed_experts
    Route,          \* the experts of each token: indices of the gate
    NLayers, Indexed,   \* layers, and those with an Indexer
    Stages,         \* n_mtp_layers
    Block,          \* dspark_block_size
    NoiseToken,     \* dspark_noise_token_id
    Temperature,    \* 0 or 1
    Seed,           \* torch.manual_seed
    Prompts,        \* sequences of tokens prefilled
    Text,           \* tokens fed one at a time after it
    Junk

Ranks == 0..(World - 1)
Tokens == 0..(Vocab - 1)
ASSUME ShardsAssumption ==
    /\ World \in Nat \ {0} /\ Block \in Nat \ {0} /\ NLayers \in Nat \ {0} /\ Stages \in Nat \ {0}
    /\ \A n \in {Vocab, Heads, Experts} : n \in Nat \ {0} /\ n % World = 0
    \* The gate picks at least one expert; logits are those of a last token.
    /\ Route \in [Tokens -> (SUBSET (0..(Experts - 1))) \ {{}}]
    /\ NoiseToken \in Tokens /\ Prompts \subseteq Seq(Tokens) \ {<< >>} /\ Text \in Seq(Tokens)
    /\ Temperature \in {0, 1} /\ Seed \in Nat
    /\ Junk \notin Tokens

VARIABLES
    pc,         \* what each rank computes next
    waiting,    \* it has entered the collective of that step
    pass, fed, lay, \* the call it is in, tokens of Text fed, layer
    toks,       \* input ids of the call
    x,          \* hidden states
    part,       \* its partial result, or shard of the logits
    logits,     \* at each vocabulary index, the token whose logit stands there
    out,        \* output_ids of forward; in forward_spec the token whose bias is added
    draft,      \* output_ids of forward_spec
    draws       \* how often its generator was drawn from

place == <<pc, waiting, pass, fed, lay>>
data == <<toks, x, part, logits, out, draft, draws>>
vars == <<place, data>>

Init ==
    /\ pc = [r \in Ranks |-> "embed"] /\ waiting = [r \in Ranks |-> FALSE]
    /\ pass = [r \in Ranks |-> "forward"] /\ fed = [r \in Ranks |-> 0] /\ lay = [r \in Ranks |-> 0]
    /\ \E p \in Prompts : toks = [r \in Ranks |-> p]
    /\ x = toks /\ part = [r \in Ranks |-> << >>] /\ logits = [r \in Ranks |-> << >>]
    /\ out = [r \in Ranks |-> 0] /\ draft = [r \in Ranks |-> << >>] /\ draws = [r \in Ranks |-> 0]

-----------------------------------------------------------------------------
\* The shard of rank r of n things.
Local(n, r) == (r * (n \div World))..((r + 1) * (n \div World) - 1)

\* ParallelEmbedding: rows of other ranks are masked.
EmbedPartUnmasked(r, t) == {<<"row", IF t \in Local(Vocab, r) THEN t ELSE r * (Vocab \div World)>>}
EmbedPart(r, t) == IF t \in Local(Vocab, r) THEN {<<"row", t>>} ELSE {}

\* The heads of a rank: its share of the index score, or of wo_b's input.
HeadPart(r, h) == IF h = Junk THEN {} ELSE {<<"head", k, h>> : k \in Local(Heads, r)}

\* MoE.forward: the chosen experts that live here.
ExpertPartAll(r, h) == IF h = Junk THEN {} ELSE {<<"expert", e, h>> : e \in Route[h]}
ExpertPart(r, h) == IF h = Junk THEN {} ELSE {<<"expert", e, h>> : e \in Route[h] \cap Local(Experts, r)}

\* What must be there, once each, for the hidden state of token t.
Due(t) == CASE pc[0] \in {"embed", "bias_embed"} -> {<<"row", t>>}
            [] pc[0] \in {"index", "attn"} -> {<<"head", k, t>> : k \in 0..(Heads - 1)}
            [] OTHER -> {<<"expert", e, t>> : e \in Route[t]}

\* The sum of the ranks S at token i.
SumOf(S, i) ==
    LET whole(t) == \A a \in Due(t) \cup UNION {part[r][i] : r \in S} :
                        Cardinality({r \in S : a \in part[r][i]}) = IF a \in Due(t) THEN 1 ELSE 0
    IN  IF \E t \in Tokens : whole(t) THEN CHOOSE t \in Tokens : whole(t) ELSE Junk

\* all_gather and cat: the shards in rank order.
GatherAtOwnFirst(r, v) == part[(r + v \div (Vocab \div World)) % World][(v % (Vocab \div World)) + 1]
GatherAt(r, v) == part[v \div (Vocab \div World)][(v % (Vocab \div World)) + 1]

\* The random numbers of a rank: the same seed everywhere, one draw per sample.
NoiseOfRank(r) == IF Temperature = 0 THEN 0 ELSE Seed + r + draws[r]
Noise(r) == IF Temperature = 0 THEN 0 ELSE Seed + draws[r]

\* sample: the index of the greatest noised logit. The bias of a draft position is
\* that of the token before it.
Sampled(r, h, before) ==
    IF h = Junk \/ before = Junk THEN 0
    ELSE CHOOSE v \in Tokens : logits[r][v] = (h + before + Noise(r)) % Vocab
            \/ ~\E u \in Tokens : logits[r][u] = (h + before + Noise(r)) % Vocab

-----------------------------------------------------------------------------
\* A rank computes its part of a step and enters the collective.
Enter(r, step, p) ==
    /\ pc[r] = step /\ ~waiting[r]
    /\ part' = [part EXCEPT ![r] = p] /\ waiting' = [waiting EXCEPT ![r] = TRUE]
    /\ UNCHANGED <<pc, pass, fed, lay, toks, x, logits, out, draft, draws>>

Embed(r) == Enter(r, "embed", [i \in DOMAIN toks[r] |-> EmbedPart(r, toks[r][i])])
Index(r) == Enter(r, "index", [i \in DOMAIN x[r] |-> HeadPart(r, x[r][i])])
Attend(r) == Enter(r, "attn", [i \in DOMAIN x[r] |-> HeadPart(r, x[r][i])])
Moe(r) == Enter(r, "moe", [i \in DOMAIN x[r] |-> ExpertPart(r, x[r][i])])
BiasEmbed(r) == Enter(r, "bias_embed", <<EmbedPart(r, draft[r][Len(draft[r])])>>)

\* ParallelHead.forward of the last token, of a draft position, of the bias.
LogitShard(r) ==
    /\ pc[r] \in {"head", "bias"}
    /\ Enter(r, pc[r], [k \in 1..(Vocab \div World) |-> {<<"logit", r * (Vocab \div World) + k - 1>>}])

\* Whether MoE.forward reaches its all_reduce.
MoeReducesIfUsed(r) == World > 1 /\ \E i \in DOMAIN x[r] : part[r][i] # {}
MoeReduces(r) == World > 1

Depth(r) == IF pass[r] = "forward" THEN NLayers ELSE Stages
FirstOf(r, L) == IF pass[r] = "forward" /\ L \in Indexed THEN "index" ELSE "attn"

\* Where a rank goes after the step it is at. A prefill of the draft stages only
\* fills their caches.
After(r) ==
    CASE pc[r] = "embed" -> IF pass[r] = "spec" /\ fed[r] = 0 THEN "end" ELSE FirstOf(r, 0)
      [] pc[r] = "index" -> "attn"
      [] pc[r] = "attn" -> "moe"
      [] pc[r] = "moe" -> IF lay[r] + 1 < Depth(r) THEN FirstOf(r, lay[r] + 1) ELSE "head"
      [] pc[r] = "head" -> IF pass[r] = "forward" THEN "sample" ELSE "bias_embed"
      [] pc[r] = "bias_embed" -> "bias"
      [] pc[r] = "bias" -> "sample"

\* What rank r makes of a reduced step. MoE adds the shared expert, which every
\* rank holds whole, to the sum.
Result(r, S, i) ==
    LET h == SumOf(S, i)
    IN  IF pc[r] \in {"embed", "bias_embed"} THEN h
        ELSE IF h = x[r][i] THEN h ELSE Junk

Leave(R, S) ==
    /\ pc' = [r \in Ranks |-> IF r \in R THEN After(r) ELSE pc[r]]
    /\ waiting' = [r \in Ranks |-> IF r \in R THEN FALSE ELSE waiting[r]]
    /\ lay' = [r \in Ranks |-> IF r \in R /\ pc[r] = "moe" THEN (lay[r] + 1) % Depth(r) ELSE lay[r]]
    /\ x' = [r \in Ranks |-> IF r \in R THEN [i \in DOMAIN part[r] |-> Result(r, S, i)] ELSE x[r]]
    /\ UNCHANGED <<pass, fed, toks, part, logits, out, draft, draws>>

\* The ranks whose parts rank r's reduction sums: only its own with one rank, and where
\* the reduction is not reached.
Group(r) == IF World > 1 /\ (pc[r] = "moe" => MoeReduces(r)) THEN Ranks ELSE {r}

\* dist.all_reduce: the ranks' calls match whatever they were made for.
AllReduce ==
    \E r \in Ranks :
        /\ \A s \in Group(r) : waiting[s] /\ pc[s] \in {"embed", "index", "attn", "moe"} /\ Group(s) = Group(r)
        /\ Leave(Group(r), Group(r))

\* The embedding of the token before a draft position: looked up for the bias.
AllReduceBias ==
    /\ \A r \in Ranks : waiting[r] /\ pc[r] = "bias_embed"
    /\ pc' = [r \in Ranks |-> After(r)] /\ waiting' = [r \in Ranks |-> FALSE]
    /\ out' = [r \in Ranks |-> SumOf(Ranks, 1)]
    /\ UNCHANGED <<pass, fed, lay, toks, x, part, logits, draft, draws>>

AllGather ==
    /\ \A r \in Ranks : waiting[r] /\ pc[r] \in {"head", "bias"}
    /\ logits' = [r \in Ranks |-> [v \in Tokens |-> CHOOSE u \in Tokens : GatherAt(r, v) = {<<"logit", u>>}]]
    /\ pc' = [r \in Ranks |-> After(r)] /\ waiting' = [r \in Ranks |-> FALSE]
    /\ draft' = [r \in Ranks |-> IF pass[r] = "spec" /\ pc[r] = "head" THEN <<toks[r][1]>> ELSE draft[r]]
    /\ UNCHANGED <<pass, fed, lay, toks, x, part, out, draws>>

\* sample, of the text's next token or of the next draft.
Sample(r) ==
    /\ pc[r] = "sample"
    /\ draws' = [draws EXCEPT ![r] = @ + 1]
    /\ IF pass[r] = "forward"
       THEN /\ out' = [out EXCEPT ![r] = Sampled(r, x[r][Len(x[r])], 0)]
            /\ pc' = [pc EXCEPT ![r] = "end"] /\ UNCHANGED draft
       ELSE /\ draft' = [draft EXCEPT ![r] = Append(@, Sampled(r, x[r][Len(@)], out[r]))]
            /\ pc' = [pc EXCEPT ![r] = IF Len(draft'[r]) > Block THEN "end" ELSE "bias_embed"]
            /\ UNCHANGED out
    /\ UNCHANGED <<waiting, pass, fed, lay, toks, x, part, logits>>

\* The script: forward_spec of forward's output, then the next token of the text.
Call(r) ==
    /\ pc[r] = "end"
    /\ \/ /\ pass[r] = "forward"
          /\ pass' = [pass EXCEPT ![r] = "spec"] /\ UNCHANGED fed
          /\ toks' = [toks EXCEPT ![r] = [i \in 1..Block |-> IF i = 1 THEN out[r] ELSE NoiseToken]]
       \/ /\ pass[r] = "spec" /\ fed[r] < Len(Text)
          /\ pass' = [pass EXCEPT ![r] = "forward"] /\ fed' = [fed EXCEPT ![r] = @ + 1]
          /\ toks' = [toks EXCEPT ![r] = <<Text[fed'[r]]>>]
    /\ pc' = [pc EXCEPT ![r] = "embed"] /\ x' = [x EXCEPT ![r] = toks'[r]]
    /\ draft' = [draft EXCEPT ![r] = << >>]
    /\ UNCHANGED <<waiting, lay, part, logits, out, draws>>

Over == \A r \in Ranks : pc[r] = "end" /\ pass[r] = "spec" /\ fed[r] = Len(Text)
Exit == Over /\ UNCHANGED vars

RankStep(r) == Embed(r) \/ Index(r) \/ Attend(r) \/ Moe(r) \/ BiasEmbed(r) \/ LogitShard(r)
               \/ Sample(r) \/ Call(r)
Collective == AllReduce \/ AllReduceBias \/ AllGather
Next == (\E r \in Ranks : RankStep(r)) \/ Collective \/ Exit

\* Ranks are processes; a collective that every rank has entered completes.
Spec == Init /\ [][Next]_vars /\ (\A r \in Ranks : WF_vars(RankStep(r))) /\ WF_vars(Collective)

-----------------------------------------------------------------------------
Steps == {"embed", "index", "attn", "moe", "head", "bias_embed", "bias", "sample", "end"}
Parts == ({"row", "logit"} \X Int) \cup ({"head", "expert"} \X Int \X Tokens)
TypeOK ==
    /\ pc \in [Ranks -> Steps] /\ waiting \in [Ranks -> BOOLEAN]
    /\ pass \in [Ranks -> {"forward", "spec"}] /\ fed \in [Ranks -> 0..Len(Text)]
    /\ lay \in [Ranks -> 0..(NLayers + Stages)]
    /\ toks \in [Ranks -> Seq(Tokens)] /\ x \in [Ranks -> Seq(Tokens \cup {Junk})]
    /\ draft \in [Ranks -> Seq(Tokens)] /\ draws \in [Ranks -> Nat]
    /\ part \in [Ranks -> Seq(SUBSET Parts)] /\ out \in [Ranks -> Tokens \cup {Junk}]
    /\ \A r \in Ranks : Len(draft[r]) <= Block + 1 /\ draws[r] <= (Len(Text) + 1) * (Block + 1)

\* Ranks that wait for each other wait in the same operation for the same purpose:
\* the collectives match by order alone (deepseek_v4_ref.py:104, 176, 424, 647, 738).
SameSchedule == \A r, s \in Ranks : waiting[r] /\ waiting[s] =>
    <<pc[r], pass[r], fed[r], lay[r]>> = <<pc[s], pass[s], fed[s], lay[s]>>

\* Every rank has the hidden states and logits one rank with all weights would have:
\* each row, head and chosen expert is counted once, each logit is at its token's index.
SameAsOneRank == \A r \in Ranks :
    /\ \A i \in DOMAIN x[r] : x[r][i] = toks[r][i]
    /\ pc[r] = "sample" => \A v \in Tokens : logits[r][v] = v
    /\ pc[r] = "bias" => out[r] = draft[r][Len(draft[r])]

\* Ranks that have ended the same call sampled the same tokens; every rank feeds its
\* own to the next call.
RanksAgree == \A r, s \in Ranks :
    pc[r] = "end" /\ pc[s] = "end" /\ <<pass[r], fed[r]>> = <<pass[s], fed[s]>> =>
        out[r] = out[s] /\ draft[r] = draft[s]

\* The script ends: no rank waits for a collective another has left out.
Finishes == <>Over

-----------------------------------------------------------------------------
\* The collective a rank waits in, or goes to through steps of its own: the step, the
\* call, the layer and how many tokens are drafted there; or the end of the script.
Meeting(r) ==
    IF pass[r] = "forward"
    THEN IF pc[r] \in {"sample", "end"} THEN <<"embed", "spec", fed[r], 0, 0>>
         ELSE <<pc[r], "forward", fed[r], lay[r], 0>>
    ELSE IF pc[r] = "sample" /\ Len(draft[r]) < Block THEN <<"bias_embed", "spec", fed[r], 0, Len(draft[r]) + 1>>
    ELSE IF pc[r] \in {"sample", "end"}
         THEN IF fed[r] < Len(Text) THEN <<"embed", "forward", fed[r] + 1, 0, 0>> ELSE <<"end", "spec", fed[r], 0, 0>>
    ELSE <<pc[r], "spec", fed[r], lay[r], IF pc[r] \in {"bias_embed", "bias"} THEN Len(draft[r]) ELSE 0>>
SameMeeting == \A r, s \in Ranks : Meeting(r) = Meeting(s)

\* What is due to a rank's place: layers are counted inside a layer only, drafts from
\* the token they continue, and a sample is a token.
Sampling(r) == pass[r] = "spec" /\ pc[r] \in {"bias_embed", "bias", "sample"}
PlaceOK(r) ==
    /\ waiting[r] => pc[r] \notin {"sample", "end"}
    /\ lay[r] < Depth(r) /\ (pc[r] \notin {"index", "attn", "moe"} => lay[r] = 0)
    /\ pc[r] \in {"bias_embed", "bias"} => pass[r] = "spec"
    /\ pass[r] = "spec" => Len(toks[r]) = Block
    /\ Sampling(r) => Len(draft[r]) \in 1..Block
    /\ pass[r] = "forward" /\ pc[r] = "end" => out[r] \in Tokens

\* One draw per token of the text and at most Block per draft.
DrawsOK(r) ==
    LET calls == fed[r] * (Block + 1)
    IN  draws[r] <= IF pass[r] = "forward" THEN IF pc[r] = "end" THEN calls + 1 ELSE calls
                    ELSE IF pc[r] = "end" THEN calls + 1 + Block
                    ELSE IF Sampling(r) THEN calls + Len(draft[r]) ELSE calls + 1

\* One rank alone: what is drawn before f tokens are fed (the draft stages' prefill draws
\* nothing), the token drawn for hidden state h, the tokens of a call of forward and what
\* it samples.
Drawn(f) == IF f = 0 THEN 0 ELSE (f - 1) * (Block + 1) + 1
Pick(h, before, d) == (h + before + (IF Temperature = 0 THEN 0 ELSE Seed + d)) % Vocab
Fed(p, f) == IF f = 0 THEN p ELSE <<Text[f]>>
Following(p, f) == Pick(Fed(p, f)[Len(Fed(p, f))], 0, Drawn(f))

\* The part a waiting rank has brought along.
Contributed(r) ==
    CASE pc[r] = "embed" -> [i \in DOMAIN toks[r] |-> EmbedPart(r, toks[r][i])]
      [] pc[r] \in {"index", "attn"} -> [i \in DOMAIN toks[r] |-> HeadPart(r, toks[r][i])]
      [] pc[r] = "moe" -> [i \in DOMAIN toks[r] |-> ExpertPart(r, toks[r][i])]
      [] pc[r] = "bias_embed" -> <<EmbedPart(r, draft[r][Len(draft[r])])>>
      [] OTHER -> [k \in 1..(Vocab \div World) |-> {<<"logit", r * (Vocab \div World) + k - 1>>}]

\* After prompt p every rank has the tokens one rank would have fed, drawn and drafted.
DataOK(p, r) ==
    /\ x[r] = toks[r] /\ (waiting[r] => part[r] = Contributed(r))
    /\ pc[r] = "sample" => \A v \in Tokens : logits[r][v] = v
    /\ draws[r] = Drawn(fed[r]) +
         (IF pass[r] = "forward" THEN IF pc[r] = "end" THEN 1 ELSE 0
          ELSE IF draft[r] = << >> THEN 1 ELSE Len(draft[r]))
    /\ pass[r] = "forward" =>
         /\ draft[r] = << >> /\ toks[r] = Fed(p, fed[r])
         /\ pc[r] = "end" => out[r] = Following(p, fed[r])
    /\ pass[r] = "spec" =>
         /\ toks[r] = [i \in 1..Block |-> IF i = 1 THEN Following(p, fed[r]) ELSE NoiseToken]
         /\ IF Sampling(r) \/ (pc[r] = "end" /\ fed[r] # 0)
            THEN /\ draft[r] # << >> /\ draft[r][1] = toks[r][1]
                 /\ \A i \in 1..(Len(draft[r]) - 1) :
                      draft[r][i + 1] = Pick(toks[r][i], draft[r][i], Drawn(fed[r]) + i)
            ELSE draft[r] = << >> /\ out[r] = Following(p, fed[r])
         /\ fed[r] = 0 => pc[r] \in {"embed", "end"}
         /\ pc[r] \in {"bias", "sample"} => out[r] = draft[r][Len(draft[r])]
         /\ pc[r] = "end" /\ fed[r] # 0 => Len(draft[r]) = Block + 1 /\ out[r] = draft[r][Block]
SameDrafts == \A r, s \in Ranks : pass[r] = pass[s] /\ fed[r] = fed[s] =>
    \A i \in 1..Len(draft[r]) : i \in 1..Len(draft[s]) => draft[r][i] = draft[s][i]
SameData == SameDrafts /\ \E p \in Prompts : \A r \in Ranks : DataOK(p, r)

\* The ranks' states have their types, all are on their way to the same collective with
\* what one rank would have there, and so none is in one the others enter for another
\* purpose (deepseek_v4_ref.py:104, 176, 424, 647, 738).
ScheduleInv ==
    /\ TypeOK /\ SameSchedule /\ SameMeeting
    /\ \A r \in Ranks : PlaceOK(r) /\ DrawsOK(r)
    /\ SameData

=============================================================================
