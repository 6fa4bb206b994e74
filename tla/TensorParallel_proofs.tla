----------------------- MODULE TensorParallel_proofs -----------------------
(***************************************************************************)
(* ScheduleInv of TensorParallel is inductive, for every number of ranks,  *)
(* layers and stages, every block, prompt and text: the ranks meet in the  *)
(* same collectives in the same order, and what each has is what one rank  *)
(* alone would have. Every part that is due is on one rank, so a sum over  *)
(* all of them has each part once; the generators start alike and have     *)
(* been drawn from equally often, so equal logits give equal tokens.       *)
(***************************************************************************)
EXTENDS TensorParallel, FiniteSetTheorems, SequenceTheorems, TLAPS

-----------------------------------------------------------------------------
(* The constants, and the values the operators of a step have. *)

LEMMA Shards ==
    /\ World \in Nat /\ World >= 1 /\ Block \in Nat /\ Block >= 1
    /\ NLayers \in Nat /\ NLayers >= 1 /\ Stages \in Nat /\ Stages >= 1
    /\ Vocab \in Nat /\ Vocab >= 1 /\ Heads \in Nat
    /\ Ranks = 0..(World - 1) /\ 0 \in Ranks
    /\ Tokens = 0..(Vocab - 1) /\ 0 \in Tokens /\ NoiseToken \in Tokens
    /\ Prompts \subseteq Seq(Tokens) /\ Text \in Seq(Tokens) /\ Len(Text) \in Nat
    /\ Junk \notin Tokens
<1>1. Vocab \in Nat \ {0} /\ Heads \in Nat \ {0}
  BY ShardsAssumption
<1>2. Text \in Seq(Tokens)
  BY ShardsAssumption
<1>3. Len(Text) \in Nat
  BY <1>2, LenProperties
<1> QED
  BY <1>1, <1>2, <1>3, ShardsAssumption DEF Ranks, Tokens

\* A function over an interval is a sequence.
LEMMA FunctionSeq ==
    ASSUME NEW S, NEW n \in Nat, NEW f \in [1..n -> S]
    PROVE  f \in Seq(S) /\ Len(f) = n
<1>1. f \in Seq(S)
  BY SeqDef
<1> QED
  BY <1>1, LenProperties

\* The sum over a group is a token, or Junk.
LEMMA SumOfType ==
    ASSUME NEW S, NEW i
    PROVE  SumOf(S, i) \in Tokens \cup {Junk}
BY DEF SumOf

\* What a rank makes of it is a token, or Junk.
LEMMA ResultType ==
    ASSUME NEW r, NEW S, NEW i
    PROVE  Result(r, S, i) \in Tokens \cup {Junk}
<1>1. SumOf(S, i) \in Tokens \cup {Junk}
  BY SumOfType
<1> QED
  BY <1>1 DEF Result

\* A sample is a token.
LEMMA SampledType ==
    ASSUME NEW r, NEW h, NEW before
    PROVE  Sampled(r, h, before) \in Tokens
<1> DEFINE A(v) == logits[r][v] = (h + before + Noise(r)) % Vocab
<1>1. \E v \in Tokens : A(v) \/ ~\E u \in Tokens : A(u)
  BY Shards
<1>2. (CHOOSE v \in Tokens : A(v) \/ ~\E u \in Tokens : A(u)) \in Tokens
  BY <1>1
<1> QED
  BY <1>2, Shards DEF Sampled

\* The shard of a rank is a set of integers.
LEMMA LocalType ==
    ASSUME NEW n, NEW r
    PROVE  Local(n, r) \subseteq Int
BY DEF Local

\* A rank's parts.
LEMMA PartTypes ==
    ASSUME NEW r, NEW h \in Tokens \cup {Junk}
    PROVE  /\ h \in Tokens => EmbedPart(r, h) \in SUBSET Parts
           /\ HeadPart(r, h) \in SUBSET Parts
           /\ ExpertPart(r, h) \in SUBSET Parts
<1>1. h \in Tokens => EmbedPart(r, h) \in SUBSET Parts
  BY Shards DEF EmbedPart, Parts
<1>2. HeadPart(r, h) \in SUBSET Parts
  BY LocalType DEF HeadPart, Parts
<1>3. ExpertPart(r, h) \in SUBSET Parts
  BY LocalType DEF ExpertPart, Parts
<1> QED
  BY <1>1, <1>2, <1>3

-----------------------------------------------------------------------------
(* Ranks that meet are at the same place of the program. *)

\* Where a rank waits, it is at its meeting.
LEMMA MeetingIsPlace ==
    ASSUME NEW r, pc[r] \notin {"sample", "end"}, pass[r] \in {"forward", "spec"}
    PROVE  Meeting(r) = <<pc[r], pass[r], fed[r], lay[r],
                          IF pass[r] = "spec" /\ pc[r] \in {"bias_embed", "bias"} THEN Len(draft[r]) ELSE 0>>
BY DEF Meeting

\* ScheduleInv without what follows of the rest: which ranks wait together, and the
\* bound on all draws.
Types ==
    /\ pc \in [Ranks -> Steps] /\ waiting \in [Ranks -> BOOLEAN]
    /\ pass \in [Ranks -> {"forward", "spec"}] /\ fed \in [Ranks -> 0..Len(Text)]
    /\ lay \in [Ranks -> 0..(NLayers + Stages)]
    /\ toks \in [Ranks -> Seq(Tokens)] /\ x \in [Ranks -> Seq(Tokens \cup {Junk})]
    /\ draft \in [Ranks -> Seq(Tokens)] /\ draws \in [Ranks -> Nat]
    /\ part \in [Ranks -> Seq(SUBSET Parts)] /\ out \in [Ranks -> Tokens \cup {Junk}]
RankOK(r) == PlaceOK(r) /\ DrawsOK(r) /\ Len(draft[r]) <= Block + 1
Lockstep == Types /\ SameMeeting /\ \A r \in Ranks : RankOK(r)

\* The draws of the calls before, with one more call.
LEMMA Calls ==
    ASSUME NEW f \in 0..Len(Text)
    PROVE  /\ f * (Block + 1) \in Nat
           /\ (f + 1) * (Block + 1) = f * (Block + 1) + Block + 1
           /\ f * (Block + 1) + Block + 1 <= (Len(Text) + 1) * (Block + 1)
           /\ (Len(Text) + 1) * (Block + 1) \in Nat
<1> DEFINE n == Len(Text)
           c == Block + 1
<1>1. f \in Nat /\ n \in Nat /\ f <= n /\ c \in Nat /\ c = Block + 1 /\ Block \in Nat
  BY Shards
<1> HIDE DEF n, c
<1>2. f * c \in Nat /\ (f + 1) * c = f * c + c
  BY <1>1
<1>3. \E d \in Nat : n + 1 = f + 1 + d
  <2>1. n - f \in Nat /\ n + 1 = f + 1 + (n - f)
    BY <1>1
  <2> QED
    BY <2>1
<1>4. PICK d \in Nat : n + 1 = f + 1 + d
  BY <1>3
<1>5. (f + 1 + d) * c = (f + 1) * c + d * c /\ d * c \in Nat /\ (f + 1) * c \in Nat
  BY <1>1
<1>6. (f + 1) * c <= (n + 1) * c /\ (n + 1) * c \in Nat
  BY <1>4, <1>5
<1> QED
  BY <1>1, <1>2, <1>6 DEF n, c

LEMMA LockstepSchedules == Lockstep /\ SameData => ScheduleInv
<1> SUFFICES ASSUME Lockstep, SameData
             PROVE  ScheduleInv
  OBVIOUS
<1>1. ASSUME NEW r \in Ranks, NEW s \in Ranks, waiting[r], waiting[s]
      PROVE  <<pc[r], pass[r], fed[r], lay[r]>> = <<pc[s], pass[s], fed[s], lay[s]>>
  <2>1. pc[r] \notin {"sample", "end"} /\ pc[s] \notin {"sample", "end"}
    BY <1>1 DEF Lockstep, RankOK, PlaceOK
  <2>2. pass[r] \in {"forward", "spec"} /\ pass[s] \in {"forward", "spec"}
    BY DEF Lockstep, Types
  <2>3. Meeting(r) = Meeting(s)
    BY DEF Lockstep, SameMeeting
  <2> QED
    BY <2>1, <2>2, <2>3, MeetingIsPlace
<1>2. ASSUME NEW r \in Ranks
      PROVE  draws[r] <= (Len(Text) + 1) * (Block + 1)
  <2> DEFINE calls == fed[r] * (Block + 1)
             all == (Len(Text) + 1) * (Block + 1)
  <2>1. fed[r] \in 0..Len(Text) /\ draws[r] \in Nat /\ Len(draft[r]) \in Nat
    BY LenProperties DEF Lockstep, Types
  <2>2. calls \in Nat /\ calls + Block + 1 <= all /\ all \in Nat
    BY <2>1, Calls
  <2>3. DrawsOK(r) /\ (Sampling(r) => Len(draft[r]) <= Block)
    BY Shards DEF Lockstep, RankOK, PlaceOK
  <2> HIDE DEF all
  <2>4. Block \in Nat /\ Block >= 1
    BY Shards
  <2>5. draws[r] <= calls + Block + 1
    <3> DEFINE k == fed[r] * (Block + 1)
    <3>1. draws[r] <= IF pass[r] = "forward" THEN IF pc[r] = "end" THEN k + 1 ELSE k
                      ELSE IF pc[r] = "end" THEN k + 1 + Block
                      ELSE IF Sampling(r) THEN k + Len(draft[r]) ELSE k + 1
      BY <2>3 DEF DrawsOK
    <3>2. k \in Nat
      BY <2>2
    <3> HIDE DEF k
    <3>3. draws[r] <= k + Block + 1
      BY <3>1, <3>2, <2>1, <2>3, <2>4
    <3> QED
      BY <3>3 DEF k
  <2>6. draws[r] <= all
    BY <2>1, <2>2, <2>4, <2>5
  <2> QED
    BY <2>6 DEF all
<1>3. TypeOK
  BY <1>2 DEF Lockstep, Types, RankOK, TypeOK
<1> QED
  BY <1>1, <1>3 DEF ScheduleInv, SameSchedule, Lockstep, RankOK

-----------------------------------------------------------------------------
(* The steps of a rank on its own. *)

\* Entering a collective changes neither the place nor the meeting.
LEMMA EnterSteps ==
    ASSUME Lockstep, NEW r \in Ranks, NEW step \in Steps \ {"sample", "end"},
           NEW p \in Seq(SUBSET Parts), Enter(r, step, p)
    PROVE  Lockstep'
<1> USE DEF Lockstep, Types, Enter
<1>1. Types'
  <2>1. waiting' \in [Ranks -> BOOLEAN] /\ part' \in [Ranks -> Seq(SUBSET Parts)]
    OBVIOUS
  <2> QED
    BY <2>1
<1>2. \A s \in Ranks : Meeting(s)' = Meeting(s)
  BY DEF Meeting
<1>3. SameMeeting'
  BY <1>2 DEF SameMeeting
<1>4. \A s \in Ranks : RankOK(s)'
  <2> TAKE s \in Ranks
  <2>1. RankOK(s)
    OBVIOUS
  <2>2. waiting'[s] => pc[s] \notin {"sample", "end"}
    BY <2>1 DEF RankOK, PlaceOK, Steps
  <2>3. PlaceOK(s)'
    BY <2>1, <2>2 DEF RankOK, PlaceOK, Depth, Sampling
  <2>4. DrawsOK(s)'
    BY <2>1 DEF RankOK, DrawsOK, Sampling
  <2> QED
    BY <2>1, <2>3, <2>4 DEF RankOK
<1> QED
  BY <1>1, <1>3, <1>4

\* Every step into a collective is such an entering.
LEMMA EnteringSteps ==
    ASSUME Lockstep, NEW r \in Ranks,
           Embed(r) \/ Index(r) \/ Attend(r) \/ Moe(r) \/ BiasEmbed(r) \/ LogitShard(r)
    PROVE  Lockstep'
<1>1. toks[r] \in Seq(Tokens) /\ x[r] \in Seq(Tokens \cup {Junk}) /\ draft[r] \in Seq(Tokens)
  BY DEF Lockstep, Types
<1>2. Len(toks[r]) \in Nat /\ DOMAIN toks[r] = 1..Len(toks[r]) /\ \A i \in DOMAIN toks[r] : toks[r][i] \in Tokens
  BY <1>1, LenProperties, ElementOfSeq
<1>3. Len(x[r]) \in Nat /\ DOMAIN x[r] = 1..Len(x[r]) /\ \A i \in DOMAIN x[r] : x[r][i] \in Tokens \cup {Junk}
  BY <1>1, LenProperties, ElementOfSeq
<1>4. CASE Embed(r)
  <2> DEFINE p == [i \in DOMAIN toks[r] |-> EmbedPart(r, toks[r][i])]
  <2>1. p \in [1..Len(toks[r]) -> SUBSET Parts]
    BY <1>2, PartTypes
  <2>2. p \in Seq(SUBSET Parts)
    BY <1>2, <2>1, FunctionSeq
  <2>3. Enter(r, "embed", p) /\ "embed" \in Steps \ {"sample", "end"}
    BY <1>4 DEF Embed, Steps
  <2> HIDE DEF p
  <2> QED
    BY <2>2, <2>3, EnterSteps
<1>5. CASE Index(r) \/ Attend(r)
  <2> DEFINE p == [i \in DOMAIN x[r] |-> HeadPart(r, x[r][i])]
  <2>1. p \in [1..Len(x[r]) -> SUBSET Parts]
    BY <1>3, PartTypes
  <2>2. p \in Seq(SUBSET Parts)
    BY <1>3, <2>1, FunctionSeq
  <2>3. Enter(r, "index", p) \/ Enter(r, "attn", p)
    BY <1>5 DEF Index, Attend
  <2>4. "index" \in Steps \ {"sample", "end"} /\ "attn" \in Steps \ {"sample", "end"}
    BY DEF Steps
  <2> HIDE DEF p
  <2> QED
    BY <2>2, <2>3, <2>4, EnterSteps
<1>6. CASE Moe(r)
  <2> DEFINE p == [i \in DOMAIN x[r] |-> ExpertPart(r, x[r][i])]
  <2>1. p \in [1..Len(x[r]) -> SUBSET Parts]
    BY <1>3, PartTypes
  <2>2. p \in Seq(SUBSET Parts)
    BY <1>3, <2>1, FunctionSeq
  <2>3. Enter(r, "moe", p) /\ "moe" \in Steps \ {"sample", "end"}
    BY <1>6 DEF Moe, Steps
  <2> HIDE DEF p
  <2> QED
    BY <2>2, <2>3, EnterSteps
<1>7. CASE BiasEmbed(r)
  <2> DEFINE p == <<EmbedPart(r, draft[r][Len(draft[r])])>>
  <2>1. pc[r] = "bias_embed"
    BY <1>7 DEF BiasEmbed, Enter
  <2>2. Len(draft[r]) \in 1..Block
    BY <2>1 DEF Lockstep, RankOK, PlaceOK, Sampling
  <2>3. draft[r][Len(draft[r])] \in Tokens
    BY <1>1, <2>2, ElementOfSeq
  <2>4. p \in Seq(SUBSET Parts)
    BY <2>3, PartTypes
  <2>5. Enter(r, "bias_embed", p) /\ "bias_embed" \in Steps \ {"sample", "end"}
    BY <1>7 DEF BiasEmbed, Steps
  <2> HIDE DEF p
  <2> QED
    BY <2>4, <2>5, EnterSteps
<1>8. CASE LogitShard(r)
  <2> DEFINE n == Vocab \div World
             p == [k \in 1..n |-> {<<"logit", r * n + k - 1>>}]
  <2>1. n \in Nat /\ r \in Int
    BY Shards
  <2>2. p \in [1..n -> SUBSET Parts]
    BY <2>1 DEF Parts
  <2>3. p \in Seq(SUBSET Parts)
    BY <2>1, <2>2, FunctionSeq
  <2>4. Enter(r, pc[r], p) /\ pc[r] \in Steps \ {"sample", "end"}
    BY <1>8 DEF LogitShard, Steps
  <2> HIDE DEF p
  <2> QED
    BY <2>3, <2>4, EnterSteps
<1> QED
  BY <1>4, <1>5, <1>6, <1>7, <1>8

\* A sample moves to the draft the rank was on its way to.
LEMMA SampleSteps ==
    ASSUME Lockstep, NEW r \in Ranks, Sample(r)
    PROVE  Lockstep'
<1> DEFINE h == x[r][Len(x[r])]
           forward == pass[r] = "forward"
<1>1. /\ pc[r] = "sample" /\ RankOK(r) /\ pass[r] \in {"forward", "spec"} /\ fed[r] \in 0..Len(Text)
      /\ draws[r] \in Nat /\ draft[r] \in Seq(Tokens) /\ Len(draft[r]) \in Nat
  BY LenProperties DEF Sample, Lockstep, Types
<1>2. draws' = [draws EXCEPT ![r] = @ + 1] /\ UNCHANGED <<waiting, pass, fed, lay, toks, x, part, logits>>
  BY DEF Sample
<1>3. draws' \in [Ranks -> Nat]
  BY <1>2 DEF Lockstep, Types
<1>4. \A s \in Ranks \ {r} : pc'[s] = pc[s] /\ out'[s] = out[s] /\ draft'[s] = draft[s] /\ draws'[s] = draws[s]
  BY DEF Sample, Lockstep, Types
<1>5. \A s \in Ranks \ {r} : Meeting(s)' = Meeting(s) /\ RankOK(s)'
  <2> TAKE s \in Ranks \ {r}
  <2>1. RankOK(s)
    BY DEF Lockstep
  <2>2. Meeting(s)' = Meeting(s)
    BY <1>2, <1>4 DEF Meeting
  <2>3. PlaceOK(s)'
    BY <1>2, <1>4, <2>1 DEF RankOK, PlaceOK, Depth, Sampling
  <2>4. DrawsOK(s)'
    BY <1>2, <1>4, <2>1 DEF RankOK, DrawsOK, Sampling
  <2> QED
    BY <1>4, <2>1, <2>2, <2>3, <2>4 DEF RankOK
<1>6. CASE forward
  <2>1. /\ out' = [out EXCEPT ![r] = Sampled(r, h, 0)]
        /\ pc' = [pc EXCEPT ![r] = "end"] /\ draft' = draft
    BY <1>6 DEF Sample
  <2>2. Sampled(r, h, 0) \in Tokens
    BY SampledType
  <2>3. Types'
    <3>1. out' \in [Ranks -> Tokens \cup {Junk}] /\ pc' \in [Ranks -> Steps]
      BY <2>1, <2>2 DEF Lockstep, Types, Steps
    <3> QED
      BY <1>2, <1>3, <2>1, <3>1 DEF Lockstep, Types
  <2>4. pc'[r] = "end" /\ out'[r] \in Tokens /\ draws'[r] = draws[r] + 1
    BY <1>2, <2>1, <2>2 DEF Lockstep, Types
  <2>5. Meeting(r)' = Meeting(r)
    BY <1>1, <1>2, <1>6, <2>1, <2>4 DEF Meeting
  <2>6. PlaceOK(r)'
    BY <1>1, <1>2, <1>6, <2>1, <2>4 DEF RankOK, PlaceOK, Depth, Sampling
  <2>7. DrawsOK(r)'
    <3> DEFINE k == fed[r] * (Block + 1)
    <3>1. draws[r] <= k
      BY <1>1, <1>6 DEF RankOK, DrawsOK
    <3>2. k \in Nat
      BY <1>1, Calls
    <3>3. draws'[r] <= k + 1
      <4> HIDE DEF k
      <4> QED
        BY <1>1, <2>4, <3>1, <3>2
    <3> QED
      BY <1>2, <1>6, <2>4, <3>3 DEF DrawsOK
  <2>8. SameMeeting'
    BY <1>5, <2>5 DEF Lockstep, SameMeeting
  <2> QED
    BY <1>1, <1>5, <2>1, <2>3, <2>6, <2>7, <2>8 DEF Lockstep, RankOK
<1>7. CASE ~forward
  <2> DEFINE d == Sampled(r, x[r][Len(draft[r])], out[r])
  <2>1. /\ draft' = [draft EXCEPT ![r] = Append(@, d)] /\ out' = out
        /\ pc' = [pc EXCEPT ![r] = IF Len(draft'[r]) > Block THEN "end" ELSE "bias_embed"]
    BY <1>7 DEF Sample
  <2>2. d \in Tokens
    BY SampledType
  <2> HIDE DEF d
  <2>3. draft'[r] = Append(draft[r], d)
    BY <2>1 DEF Lockstep, Types
  <2>4. draft'[r] \in Seq(Tokens) /\ Len(draft'[r]) = Len(draft[r]) + 1
    BY <1>1, <2>2, <2>3, AppendProperties
  <2>5. Types'
    <3>1. draft' \in [Ranks -> Seq(Tokens)] /\ pc' \in [Ranks -> Steps]
      BY <2>1, <2>3, <2>4 DEF Lockstep, Types, Steps
    <3> QED
      BY <1>2, <1>3, <2>1, <3>1 DEF Lockstep, Types
  <2>6. Len(draft[r]) \in 1..Block /\ pass[r] = "spec" /\ lay[r] = 0 /\ Block \in Nat
    BY <1>1, <1>7, Shards DEF RankOK, PlaceOK, Sampling
  <2>7. pc'[r] = (IF Len(draft[r]) < Block THEN "bias_embed" ELSE "end") /\ draws'[r] = draws[r] + 1
    BY <1>1, <1>2, <2>1, <2>4, <2>6 DEF Lockstep, Types
  <2>8. Meeting(r)' = Meeting(r)
    BY <1>1, <1>2, <2>4, <2>6, <2>7 DEF Meeting
  <2>9. PlaceOK(r)'
    BY <1>1, <1>2, <2>4, <2>6, <2>7 DEF RankOK, PlaceOK, Depth, Sampling
  <2>10. DrawsOK(r)'
    <3> DEFINE k == fed[r] * (Block + 1)
    <3>1. draws[r] <= k + Len(draft[r])
      BY <1>1, <2>6 DEF RankOK, DrawsOK, Sampling
    <3>2. k \in Nat
      BY <1>1, Calls
    <3>3. /\ draws'[r] <= k + Len(draft'[r])
          /\ pc'[r] = "end" => draws'[r] <= k + 1 + Block
      <4> HIDE DEF k
      <4> QED
        BY <1>1, <2>4, <2>6, <2>7, <3>1, <3>2
    <3> QED
      BY <1>2, <2>6, <2>7, <3>3 DEF DrawsOK, Sampling
  <2>11. SameMeeting'
    BY <1>5, <2>8 DEF Lockstep, SameMeeting
  <2>12. Len(draft'[r]) <= Block + 1
    BY <2>4, <2>6
  <2> QED
    BY <1>5, <2>5, <2>9, <2>10, <2>11, <2>12 DEF Lockstep, RankOK
<1> QED
  BY <1>6, <1>7

\* A call begins on the way to the same embedding, with room for its draws.
LEMMA CallSteps ==
    ASSUME Lockstep, NEW r \in Ranks, Call(r)
    PROVE  Lockstep'
<1> DEFINE k == fed[r] * (Block + 1)
<1>1. /\ pc[r] = "end" /\ RankOK(r) /\ pass[r] \in {"forward", "spec"} /\ fed[r] \in 0..Len(Text)
      /\ draws[r] \in Nat /\ lay[r] = 0
  BY DEF Call, Lockstep, Types, RankOK, PlaceOK
<1>2. /\ pc' = [pc EXCEPT ![r] = "embed"] /\ x' = [x EXCEPT ![r] = toks'[r]]
      /\ draft' = [draft EXCEPT ![r] = << >>] /\ UNCHANGED <<waiting, lay, part, logits, out, draws>>
  BY DEF Call
<1>3. \A s \in Ranks \ {r} : /\ pc'[s] = pc[s] /\ pass'[s] = pass[s] /\ fed'[s] = fed[s]
                             /\ toks'[s] = toks[s] /\ draft'[s] = draft[s]
  BY DEF Call, Lockstep, Types
<1>4. \A s \in Ranks \ {r} : Meeting(s)' = Meeting(s) /\ RankOK(s)'
  <2> TAKE s \in Ranks \ {r}
  <2>1. RankOK(s)
    BY DEF Lockstep
  <2>2. Meeting(s)' = Meeting(s)
    <3>1. lay'[s] = lay[s]
      BY <1>2
    <3> QED
      BY <1>3, <3>1 DEF Meeting
  <2>3. PlaceOK(s)'
    BY <1>2, <1>3, <2>1 DEF RankOK, PlaceOK, Depth, Sampling
  <2>4. DrawsOK(s)'
    BY <1>2, <1>3, <2>1 DEF RankOK, DrawsOK, Sampling
  <2> QED
    BY <1>3, <2>1, <2>2, <2>3, <2>4 DEF RankOK
<1>5. pc'[r] = "embed" /\ draft'[r] = << >> /\ Len(draft'[r]) = 0 /\ waiting'[r] = waiting[r]
  BY <1>2 DEF Lockstep, Types
<1>6. k \in Nat /\ (fed[r] + 1) * (Block + 1) = k + Block + 1
  BY <1>1, Calls
<1>7. CASE pass[r] = "forward"
  <2> DEFINE t == [i \in 1..Block |-> IF i = 1 THEN out[r] ELSE NoiseToken]
  <2>1. pass' = [pass EXCEPT ![r] = "spec"] /\ fed' = fed /\ toks' = [toks EXCEPT ![r] = t]
    BY <1>7 DEF Call
  <2>2. out[r] \in Tokens
    BY <1>1, <1>7 DEF RankOK, PlaceOK
  <2>3. t \in [1..Block -> Tokens] /\ Block \in Nat
    BY <2>2, Shards
  <2>4. t \in Seq(Tokens) /\ Len(t) = Block
    BY <2>3, FunctionSeq
  <2> HIDE DEF t
  <2>5. pass'[r] = "spec" /\ toks'[r] = t
    BY <2>1 DEF Lockstep, Types
  <2>6. Types'
    <3>1. t \in Seq(Tokens \cup {Junk}) /\ << >> \in Seq(Tokens)
      BY <2>4, SeqMonotonic, EmptySeq
    <3>2. /\ toks' \in [Ranks -> Seq(Tokens)] /\ x' \in [Ranks -> Seq(Tokens \cup {Junk})]
          /\ draft' \in [Ranks -> Seq(Tokens)] /\ pc' \in [Ranks -> Steps]
          /\ pass' \in [Ranks -> {"forward", "spec"}]
      BY <1>2, <2>1, <2>4, <2>5, <3>1 DEF Lockstep, Types, Steps
    <3> QED
      BY <1>2, <2>1, <3>2 DEF Lockstep, Types
  <2>7. Meeting(r)' = Meeting(r)
    BY <1>1, <1>2, <1>5, <1>7, <2>1, <2>5 DEF Meeting
  <2>8. PlaceOK(r)'
    BY <1>1, <1>2, <1>5, <2>4, <2>5, Shards DEF RankOK, PlaceOK, Depth, Sampling
  <2>9. DrawsOK(r)'
    BY <1>1, <1>2, <1>5, <1>7, <2>1, <2>5 DEF RankOK, DrawsOK, Sampling
  <2>10. SameMeeting'
    BY <1>4, <2>7 DEF Lockstep, SameMeeting
  <2>11. Len(draft'[r]) <= Block + 1
    BY <1>5, <2>3
  <2> QED
    BY <1>4, <2>6, <2>8, <2>9, <2>10, <2>11 DEF Lockstep, RankOK
<1>8. CASE pass[r] = "spec"
  <2> DEFINE t == <<Text[fed[r] + 1]>>
  <2>1. /\ fed[r] < Len(Text) /\ pass' = [pass EXCEPT ![r] = "forward"]
        /\ fed' = [fed EXCEPT ![r] = @ + 1] /\ toks' = [toks EXCEPT ![r] = <<Text[fed'[r]]>>]
    BY <1>8 DEF Call
  <2>2. fed'[r] = fed[r] + 1 /\ fed[r] + 1 \in 1..Len(Text) /\ fed[r] + 1 \in 0..Len(Text)
    <3>1. fed'[r] = fed[r] + 1
      BY <2>1 DEF Lockstep, Types
    <3>2. fed[r] \in Nat /\ Len(Text) \in Nat
      BY <1>1, Shards
    <3> QED
      BY <2>1, <3>1, <3>2
  <2>3. Text[fed[r] + 1] \in Tokens
    BY <2>2, Shards, ElementOfSeq
  <2>4. t \in Seq(Tokens) /\ t \in Seq(Tokens \cup {Junk})
    BY <2>3
  <2>5. pass'[r] = "forward" /\ toks'[r] = t
    BY <2>1, <2>2 DEF Lockstep, Types
  <2> HIDE DEF t
  <2>6. Types'
    <3>1. << >> \in Seq(Tokens)
      BY EmptySeq
    <3>2. /\ toks' \in [Ranks -> Seq(Tokens)] /\ x' \in [Ranks -> Seq(Tokens \cup {Junk})]
          /\ draft' \in [Ranks -> Seq(Tokens)] /\ pc' \in [Ranks -> Steps]
          /\ pass' \in [Ranks -> {"forward", "spec"}] /\ fed' \in [Ranks -> 0..Len(Text)]
      BY <1>2, <2>1, <2>2, <2>4, <2>5, <3>1 DEF Lockstep, Types, Steps
    <3> QED
      BY <1>2, <3>2 DEF Lockstep, Types
  <2>7. Meeting(r)' = Meeting(r)
    BY <1>1, <1>2, <1>5, <1>8, <2>1, <2>2, <2>5 DEF Meeting
  <2>8. PlaceOK(r)'
    BY <1>1, <1>2, <1>5, <2>5, Shards DEF RankOK, PlaceOK, Depth, Sampling
  <2>9. DrawsOK(r)'
    <3>1. draws[r] <= k + 1 + Block
      BY <1>1, <1>8 DEF RankOK, DrawsOK
    <3>2. draws'[r] <= (fed[r] + 1) * (Block + 1)
      <4> HIDE DEF k
      <4> QED
        BY <1>1, <1>2, <1>6, <3>1, Shards
    <3> QED
      BY <1>5, <2>2, <2>5, <3>2 DEF DrawsOK
  <2>10. SameMeeting'
    BY <1>4, <2>7 DEF Lockstep, SameMeeting
  <2>11. Len(draft'[r]) <= Block + 1
    BY <1>5, Shards
  <2> QED
    BY <1>4, <2>6, <2>8, <2>9, <2>10, <2>11 DEF Lockstep, RankOK
<1> QED
  BY <1>1, <1>7, <1>8

-----------------------------------------------------------------------------
(* The collectives: all ranks wait, so all are at one place and leave for one. *)

LEMMA GroupIsAll ==
    ASSUME NEW r \in Ranks
    PROVE  Group(r) = Ranks
<1>1. CASE World > 1
  BY <1>1 DEF Group, MoeReduces
<1>2. CASE ~(World > 1)
  <2>1. World = 1
    BY <1>2, Shards
  <2>2. Ranks = {0}
    BY <2>1, Shards
  <2> QED
    BY <1>2, <2>2 DEF Group
<1> QED
  BY <1>1, <1>2

\* The remainder that counts layers.
LEMMA NextLayer ==
    ASSUME NEW n \in Nat, NEW k \in Nat, k < n
    PROVE  (k + 1) % n = IF k + 1 < n THEN k + 1 ELSE 0
<1>1. CASE k + 1 < n
  BY <1>1
<1>2. CASE k + 1 = n
  BY <1>2
<1> QED
  BY <1>1, <1>2

\* Waiting ranks are at the same step of the same call, layer and draft.
LEMMA Together ==
    ASSUME Lockstep, \A r \in Ranks : waiting[r], NEW r \in Ranks, NEW s \in Ranks
    PROVE  /\ pc[r] = pc[s] /\ pass[r] = pass[s] /\ fed[r] = fed[s] /\ lay[r] = lay[s]
           /\ Sampling(r) => Len(draft[r]) = Len(draft[s])
<1>1. pc[r] \notin {"sample", "end"} /\ pc[s] \notin {"sample", "end"}
  BY DEF Lockstep, RankOK, PlaceOK
<1>2. pass[r] \in {"forward", "spec"} /\ pass[s] \in {"forward", "spec"}
  BY DEF Lockstep, Types
<1>3. Meeting(r) = Meeting(s)
  BY DEF Lockstep, SameMeeting
<1> QED
  BY <1>1, <1>2, <1>3, MeetingIsPlace DEF Sampling

\* Where an all_reduce of a layer's step, or of the embedding, leads.
LEMMA AllReduceSteps ==
    ASSUME Lockstep, AllReduce
    PROVE  Lockstep'
<1>1. /\ \A r \in Ranks : waiting[r] /\ pc[r] \in {"embed", "index", "attn", "moe"}
      /\ Leave(Ranks, Ranks)
  BY GroupIsAll DEF AllReduce
<1>2. UNCHANGED <<pass, fed, toks, part, logits, out, draft, draws>>
  BY <1>1 DEF Leave
<1>3. \A r \in Ranks :
        /\ pc'[r] = After(r) /\ waiting'[r] = FALSE
        /\ lay'[r] = IF pc[r] = "moe" THEN (lay[r] + 1) % Depth(r) ELSE lay[r]
        /\ x'[r] = [i \in DOMAIN part[r] |-> Result(r, Ranks, i)]
  BY <1>1 DEF Leave
<1>4. \A r \in Ranks :
        /\ RankOK(r) /\ pass[r] \in {"forward", "spec"} /\ fed[r] \in 0..Len(Text) /\ lay[r] \in Nat
        /\ Depth(r) \in Nat /\ Depth(r) >= 1 /\ lay[r] < Depth(r) /\ Depth(r) <= NLayers + Stages
        /\ Depth(r)' = Depth(r)
  BY <1>2, Shards DEF Lockstep, Types, RankOK, PlaceOK, Depth
<1>5. \A r \in Ranks :
        /\ lay'[r] = (IF pc[r] = "moe" THEN IF lay[r] + 1 < Depth(r) THEN lay[r] + 1 ELSE 0 ELSE lay[r])
        /\ lay'[r] \in Nat /\ lay'[r] < Depth(r)
  <2> TAKE r \in Ranks
  <2>1. pc[r] = "moe" => lay'[r] = IF lay[r] + 1 < Depth(r) THEN lay[r] + 1 ELSE 0
    BY <1>3, <1>4, NextLayer
  <2>2. pc[r] # "moe" => lay'[r] = lay[r]
    BY <1>3
  <2> QED
    BY <1>4, <2>1, <2>2
<1>6. \A r \in Ranks :
        /\ pc'[r] \in {"index", "attn", "moe", "head", "end"}
        /\ pc'[r] = "end" => pass[r] = "spec" /\ pc[r] = "embed"
        /\ pc'[r] \in {"head", "end"} => lay'[r] = 0
  <2> TAKE r \in Ranks
  <2>1. pc[r] \in {"embed", "index", "attn", "moe"} /\ pc'[r] = After(r)
    BY <1>1, <1>3
  <2>2. CASE pc[r] = "embed"
    <3>1. lay[r] = 0
      BY <1>4, <2>2 DEF RankOK, PlaceOK
    <3>2. lay'[r] = 0
      BY <1>5, <2>2, <3>1
    <3> QED
      BY <2>1, <2>2, <3>2 DEF After, FirstOf
  <2>3. CASE pc[r] \in {"index", "attn"}
    BY <2>1, <2>3 DEF After
  <2>4. CASE pc[r] = "moe"
    BY <1>5, <2>1, <2>4 DEF After, FirstOf
  <2> QED
    BY <2>1, <2>2, <2>3, <2>4
<1>7. Types'
  <2>1. \A r \in Ranks : x'[r] \in Seq(Tokens \cup {Junk})
    <3> TAKE r \in Ranks
    <3>1. part[r] \in Seq(SUBSET Parts)
      BY DEF Lockstep, Types
    <3>2. Len(part[r]) \in Nat /\ DOMAIN part[r] = 1..Len(part[r])
      BY <3>1, LenProperties
    <3> DEFINE f == [i \in 1..Len(part[r]) |-> Result(r, Ranks, i)]
    <3>3. \A i : Result(r, Ranks, i) \in Tokens \cup {Junk}
      BY ResultType
    <3>4. f \in [1..Len(part[r]) -> Tokens \cup {Junk}]
      BY <3>3
    <3>5. x'[r] = f
      BY <1>3, <3>2
    <3> HIDE DEF f
    <3>6. f \in Seq(Tokens \cup {Junk})
      BY <3>2, <3>4, FunctionSeq
    <3> QED
      BY <3>5, <3>6
  <2>2. x' \in [Ranks -> Seq(Tokens \cup {Junk})]
    BY <1>1, <2>1 DEF Leave
  <2>3. pc' \in [Ranks -> Steps] /\ waiting' \in [Ranks -> BOOLEAN]
    BY <1>1, <1>3, <1>6 DEF Leave, Steps
  <2>4. lay' \in [Ranks -> 0..(NLayers + Stages)]
    <3>1. \A r \in Ranks : lay'[r] \in 0..(NLayers + Stages)
      BY <1>4, <1>5, Shards
    <3> QED
      BY <1>1, <3>1 DEF Leave
  <2> QED
    BY <1>2, <2>2, <2>3, <2>4 DEF Lockstep, Types
<1>8. SameMeeting'
  <2> SUFFICES ASSUME NEW r \in Ranks, NEW s \in Ranks
               PROVE  Meeting(r)' = Meeting(s)'
    BY DEF SameMeeting
  <2>1. pc[r] = pc[s] /\ pass[r] = pass[s] /\ fed[r] = fed[s] /\ lay[r] = lay[s]
    BY <1>1, Together
  <2>2. /\ Depth(r) = Depth(s) /\ FirstOf(r, 0) = FirstOf(s, 0)
        /\ FirstOf(r, lay[r] + 1) = FirstOf(s, lay[s] + 1)
    BY <2>1 DEF Depth, FirstOf
  <2>3. After(r) = After(s)
    <3>1. pc[r] \in {"embed", "index", "attn", "moe"}
      BY <1>1
    <3> QED
      BY <2>1, <2>2, <3>1 DEF After
  <2>4. pc'[r] = pc'[s] /\ lay'[r] = lay'[s] /\ pass'[r] = pass'[s] /\ fed'[r] = fed'[s]
    BY <1>2, <1>3, <2>1, <2>2, <2>3
  <2>5. pc'[r] \notin {"bias_embed", "bias", "sample"}
    BY <1>6
  <2> QED
    BY <2>4, <2>5 DEF Meeting
<1>9. ASSUME NEW r \in Ranks
      PROVE  RankOK(r)'
  <2>1. PlaceOK(r)'
    BY <1>2, <1>3, <1>4, <1>5, <1>6, <1>9 DEF RankOK, PlaceOK, Sampling
  <2>2. DrawsOK(r)'
    <3> DEFINE k == fed[r] * (Block + 1)
    <3>1. k \in Nat /\ Block \in Nat /\ draws[r] \in Nat
      BY <1>4, Calls, Shards DEF Lockstep, Types
    <3>2. draws[r] <= IF pass[r] = "forward" THEN k ELSE k + 1
      BY <1>1, <1>4 DEF RankOK, DrawsOK, Sampling
    <3>3. pass[r] = "forward" => draws[r] <= k
      BY <3>2
    <3>4. pass[r] = "spec" => draws[r] <= k + 1 /\ draws[r] <= k + 1 + Block
      <4> HIDE DEF k
      <4> QED
        BY <3>1, <3>2
    <3>5. pass[r] = "forward" => pc'[r] # "end"
      BY <1>6
    <3> QED
      BY <1>2, <1>4, <1>6, <3>3, <3>4, <3>5 DEF DrawsOK, Sampling
  <2> QED
    BY <1>2, <1>4, <2>1, <2>2 DEF RankOK
<1> QED
  BY <1>7, <1>8, <1>9 DEF Lockstep

\* The embedding of the token before a draft leads to the bias of that draft.
LEMMA BiasSteps ==
    ASSUME Lockstep, AllReduceBias
    PROVE  Lockstep'
<1>1. /\ \A r \in Ranks : waiting[r] /\ pc[r] = "bias_embed"
      /\ pc' = [r \in Ranks |-> After(r)] /\ waiting' = [r \in Ranks |-> FALSE]
      /\ out' = [r \in Ranks |-> SumOf(Ranks, 1)]
      /\ UNCHANGED <<pass, fed, lay, toks, x, part, logits, draft, draws>>
  BY DEF AllReduceBias
<1>2. \A r \in Ranks : /\ pc'[r] = "bias" /\ waiting'[r] = FALSE
                       /\ RankOK(r) /\ pass[r] = "spec"
  BY <1>1 DEF After, Lockstep, RankOK, PlaceOK
<1>3. Types'
  <2>1. pc' \in [Ranks -> Steps] /\ waiting' \in [Ranks -> BOOLEAN]
    BY <1>1, <1>2 DEF Steps
  <2>2. out' \in [Ranks -> Tokens \cup {Junk}]
    BY <1>1, SumOfType
  <2> QED
    BY <1>1, <2>1, <2>2 DEF Lockstep, Types
<1>4. SameMeeting'
  <2> SUFFICES ASSUME NEW r \in Ranks, NEW s \in Ranks
               PROVE  Meeting(r)' = Meeting(s)'
    BY DEF SameMeeting
  <2>1. /\ pass[r] = pass[s] /\ fed[r] = fed[s] /\ lay[r] = lay[s]
        /\ Len(draft[r]) = Len(draft[s])
    BY <1>1, <1>2, Together DEF Sampling
  <2> QED
    BY <1>1, <1>2, <2>1 DEF Meeting
<1>5. ASSUME NEW r \in Ranks
      PROVE  RankOK(r)'
  <2>1. PlaceOK(r)'
    BY <1>1, <1>2 DEF RankOK, PlaceOK, Depth, Sampling
  <2>2. DrawsOK(r)'
    BY <1>1, <1>2 DEF RankOK, DrawsOK, Sampling
  <2> QED
    BY <1>1, <1>2, <2>1, <2>2 DEF RankOK
<1> QED
  BY <1>3, <1>4, <1>5 DEF Lockstep

\* Gathered logits are sampled from, or begin the drafts with the token they continue.
LEMMA GatherSteps ==
    ASSUME Lockstep, AllGather
    PROVE  Lockstep'
<1> DEFINE begins(r) == pass[r] = "spec" /\ pc[r] = "head"
<1>1. /\ \A r \in Ranks : waiting[r] /\ pc[r] \in {"head", "bias"}
      /\ pc' = [r \in Ranks |-> After(r)] /\ waiting' = [r \in Ranks |-> FALSE]
      /\ draft' = [r \in Ranks |-> IF begins(r) THEN <<toks[r][1]>> ELSE draft[r]]
      /\ UNCHANGED <<pass, fed, lay, toks, x, part, out, draws>>
  BY DEF AllGather
<1>2. \A r \in Ranks :
        /\ RankOK(r) /\ pass[r] \in {"forward", "spec"} /\ waiting'[r] = FALSE
        /\ pc[r] = "bias" => pass[r] = "spec" /\ Sampling(r)
        /\ pc'[r] = IF begins(r) THEN "bias_embed" ELSE "sample"
        /\ begins(r) => draft'[r] = <<toks[r][1]>> /\ Len(draft'[r]) = 1
        /\ ~begins(r) => draft'[r] = draft[r]
        /\ lay'[r] = lay[r] /\ lay[r] = 0
  <2> TAKE r \in Ranks
  <2>1. RankOK(r) /\ pass[r] \in {"forward", "spec"} /\ waiting'[r] = FALSE
    BY <1>1 DEF Lockstep, Types
  <2>2. /\ pc[r] = "bias" => pass[r] = "spec" /\ Sampling(r)
        /\ lay'[r] = lay[r] /\ lay[r] = 0
    BY <1>1, <2>1 DEF RankOK, PlaceOK, Sampling
  <2>3. pc'[r] = IF begins(r) THEN "bias_embed" ELSE "sample"
    BY <1>1, <2>1, <2>2 DEF After
  <2>4. /\ begins(r) => draft'[r] = <<toks[r][1]>> /\ Len(draft'[r]) = 1
        /\ ~begins(r) => draft'[r] = draft[r]
    BY <1>1
  <2> QED
    BY <2>1, <2>2, <2>3, <2>4
<1>3. \A r \in Ranks : draft'[r] \in Seq(Tokens)
  <2> TAKE r \in Ranks
  <2>1. CASE begins(r)
    <3>1. toks[r] \in Seq(Tokens) /\ Len(toks[r]) = Block
      BY <1>2, <2>1 DEF Lockstep, Types, RankOK, PlaceOK
    <3>2. 1 \in 1..Len(toks[r])
      BY <3>1, Shards
    <3>3. toks[r][1] \in Tokens
      BY <3>1, <3>2, ElementOfSeq
    <3>4. draft'[r] = <<toks[r][1]>>
      BY <1>2, <2>1
    <3> QED
      BY <3>3, <3>4
  <2>2. CASE ~begins(r)
    BY <1>2, <2>2 DEF Lockstep, Types
  <2> QED
    BY <2>1, <2>2
<1>4. Types'
  <2>1. pc' \in [Ranks -> Steps] /\ waiting' \in [Ranks -> BOOLEAN]
    BY <1>1, <1>2 DEF Steps
  <2>2. draft' \in [Ranks -> Seq(Tokens)]
    BY <1>1, <1>3
  <2> QED
    BY <1>1, <2>1, <2>2 DEF Lockstep, Types
<1>5. SameMeeting'
  <2> SUFFICES ASSUME NEW r \in Ranks, NEW s \in Ranks
               PROVE  Meeting(r)' = Meeting(s)'
    BY DEF SameMeeting
  <2>1. /\ pc[r] = pc[s] /\ pass[r] = pass[s] /\ fed[r] = fed[s] /\ lay[r] = lay[s]
        /\ Sampling(r) => Len(draft[r]) = Len(draft[s])
    BY <1>1, Together
  <2>2. /\ pc'[r] = pc'[s] /\ pass'[r] = pass'[s] /\ fed'[r] = fed'[s] /\ lay'[r] = lay'[s]
        /\ pass'[r] = "spec" => Len(draft'[r]) = Len(draft'[s])
    BY <1>1, <1>2, <2>1
  <2>3. pass'[r] \in {"forward", "spec"} /\ pc'[r] \in {"bias_embed", "sample"}
    BY <1>1, <1>2
  <2> QED
    BY <2>2, <2>3 DEF Meeting
<1>6. ASSUME NEW r \in Ranks
      PROVE  RankOK(r)'
  <2>1. begins(r) => Len(draft'[r]) \in 1..Block
    <3>1. 1 \in 1..Block
      BY Shards
    <3>2. begins(r) => Len(draft'[r]) = 1
      BY <1>2, <1>6
    <3> QED
      BY <3>1, <3>2
  <2>2. ~begins(r) /\ pass[r] = "spec" => Sampling(r) /\ Len(draft[r]) \in 1..Block
    BY <1>1, <1>2 DEF RankOK, PlaceOK, Sampling
  <2>3. PlaceOK(r)'
    BY <1>1, <1>2, <2>1, <2>2 DEF RankOK, PlaceOK, Depth, Sampling
  <2>4. DrawsOK(r)'
    BY <1>1, <1>2, <2>1, <2>2 DEF RankOK, DrawsOK, Sampling
  <2>5. Len(draft'[r]) <= Block + 1
    BY <1>2, <2>1, Shards DEF RankOK
  <2> QED
    BY <2>3, <2>4, <2>5 DEF RankOK
<1> QED
  BY <1>4, <1>5, <1>6 DEF Lockstep

-----------------------------------------------------------------------------
LEMMA InitOK == Init => Lockstep
<1> SUFFICES ASSUME Init
             PROVE  Lockstep
  OBVIOUS
<1>1. PICK p \in Prompts : toks = [r \in Ranks |-> p]
  BY DEF Init
<1>2. p \in Seq(Tokens) /\ p \in Seq(Tokens \cup {Junk})
  <2>1. p \in Seq(Tokens)
    BY Shards
  <2> QED
    BY <2>1, SeqMonotonic
<1>3. << >> \in Seq(Tokens) /\ << >> \in Seq(SUBSET Parts)
  BY EmptySeq
<1>4. Types
  BY <1>1, <1>2, <1>3, Shards DEF Init, Types, Steps
<1>5. SameMeeting
  BY DEF Init, SameMeeting, Meeting
<1>6. ASSUME NEW r \in Ranks
      PROVE  RankOK(r)
  <2>1. /\ pc[r] = "embed" /\ pass[r] = "forward" /\ waiting[r] = FALSE /\ fed[r] = 0 /\ lay[r] = 0
        /\ draft[r] = << >> /\ draws[r] = 0
    BY DEF Init
  <2>2. PlaceOK(r)
    BY <2>1, Shards DEF PlaceOK, Depth, Sampling
  <2>3. 0 * (Block + 1) = 0
    BY Shards
  <2>4. DrawsOK(r)
    BY <2>1, <2>3 DEF DrawsOK
  <2>5. Len(draft[r]) <= Block + 1
    BY <2>1, Shards
  <2> QED
    BY <2>2, <2>4, <2>5 DEF RankOK
<1> QED
  BY <1>4, <1>5, <1>6 DEF Lockstep

LEMMA LockstepNext == Lockstep /\ [Next]_vars => Lockstep'
<1> SUFFICES ASSUME Lockstep, [Next]_vars
             PROVE  Lockstep'
  OBVIOUS
<1>1. ASSUME NEW r \in Ranks, RankStep(r)
      PROVE  Lockstep'
  <2>1. CASE Embed(r) \/ Index(r) \/ Attend(r) \/ Moe(r) \/ BiasEmbed(r) \/ LogitShard(r)
    BY <2>1, EnteringSteps
  <2>2. CASE Sample(r)
    BY <2>2, SampleSteps
  <2>3. CASE Call(r)
    BY <2>3, CallSteps
  <2> QED
    BY <1>1, <2>1, <2>2, <2>3 DEF RankStep
<1>2. CASE AllReduce
  BY <1>2, AllReduceSteps
<1>3. CASE AllReduceBias
  BY <1>3, BiasSteps
<1>4. CASE AllGather
  BY <1>4, GatherSteps
<1>5. CASE UNCHANGED vars
  <2> USE <1>5 DEF vars, place, data
  <2>1. Types'
    BY DEF Lockstep, Types
  <2>2. \A r \in Ranks : Meeting(r)' = Meeting(r)
    BY DEF Meeting
  <2>3. SameMeeting'
    BY <2>2 DEF Lockstep, SameMeeting
  <2>4. \A r \in Ranks : RankOK(r)'
    BY DEF Lockstep, RankOK, PlaceOK, DrawsOK, Depth, Sampling
  <2> QED
    BY <2>1, <2>3, <2>4 DEF Lockstep
<1> QED
  BY <1>1, <1>2, <1>3, <1>4, <1>5 DEF Next, Collective, Exit

-----------------------------------------------------------------------------
(* The data: what the ranks' parts add up to. *)

LEMMA Values ==
    /\ Experts \in Nat /\ Experts >= 1 /\ Heads >= 1 /\ Seed \in Nat /\ Temperature \in {0, 1}
    /\ Vocab % World = 0 /\ Heads % World = 0 /\ Experts % World = 0
    /\ \A t \in Tokens : Route[t] \subseteq 0..(Experts - 1) /\ Route[t] # {}
    /\ Tokens \subseteq Int
<1>1. Vocab \in Nat \ {0} /\ Heads \in Nat \ {0} /\ Experts \in Nat \ {0}
  BY ShardsAssumption
<1>2. Vocab % World = 0 /\ Heads % World = 0 /\ Experts % World = 0
  BY ShardsAssumption
<1>3. \A t \in Tokens : Route[t] \in (SUBSET (0..(Experts - 1))) \ {{}}
  BY ShardsAssumption
<1>4. Seed \in Nat /\ Temperature \in {0, 1}
  BY ShardsAssumption
<1>5. Tokens \subseteq Int
  BY <1>1 DEF Tokens
<1>6. Experts \in Nat /\ Experts >= 1 /\ Heads >= 1
  BY <1>1
<1>7. \A t \in Tokens : Route[t] \subseteq 0..(Experts - 1) /\ Route[t] # {}
  BY <1>3
<1> QED
  BY <1>2, <1>4, <1>5, <1>6, <1>7

LEMMA Shares ==
    ASSUME NEW n \in Nat, n >= 1, n % World = 0
    PROVE  /\ n \div World \in Nat /\ n \div World >= 1 /\ (n \div World) * World = n
<1>1. World \in Nat /\ World >= 1
  BY Shards
<1>2. PICK w \in Nat : w = World
  BY <1>1
<1>3. n \div w \in Nat
  BY <1>1, <1>2
<1>4. PICK q \in Nat : q = n \div w
  BY <1>3
<1>5. n = w * q
  <2>1. w >= 1 /\ n % w = 0
    BY <1>1, <1>2
  <2>2. n = w * (n \div w)
    BY <2>1
  <2> QED
    BY <1>4, <2>2
<1>6. q # 0
  BY <1>5
<1>7. q * w = n
  BY <1>5
<1> QED
  BY <1>2, <1>4, <1>6, <1>7

\* Everything is in the share of exactly one rank, at its place there.
LEMMA Owner ==
    ASSUME NEW n \in Nat, n >= 1, n % World = 0, NEW k \in 0..(n - 1)
    PROVE  \E q \in Nat : \E r \in Ranks, m \in 0..(q - 1) :
             /\ q = n \div World /\ r = k \div q /\ m = k % q /\ r * q + m = k
             /\ \A s \in Ranks : k \in Local(n, s) <=> s = r
<1>1. PICK q : q = n \div World
  OBVIOUS
<1>2. q \in Nat /\ q >= 1 /\ q * World = n
  BY <1>1, Shares
<1>3. World \in Nat /\ World >= 1 /\ Ranks = 0..(World - 1)
  BY Shards
<1>4. PICK r, m : r = k \div q /\ m = k % q
  OBVIOUS
<1>5. r \in Nat /\ m \in 0..(q - 1) /\ k = q * r + m /\ k \in Nat
  BY <1>2, <1>4
<1>6. r * q = q * r
  BY <1>2, <1>5
<1>7. r < World
  <2> SUFFICES ASSUME r >= World
               PROVE  FALSE
    BY <1>3, <1>5
  <2>1. q * r >= q * World
    <3>1. PICK d \in Nat : r = World + d
      <4>1. r - World \in Nat /\ r = World + (r - World)
        BY <1>3, <1>5
      <4> QED
        BY <4>1
    <3>2. q * r = q * World + q * d /\ q * d \in Nat /\ q * World \in Nat
      BY <1>2, <1>3, <3>1
    <3> QED
      BY <3>2
  <2> QED
    BY <1>2, <1>5, <2>1
<1>8. \A s \in Nat : k \in (s * q)..((s + 1) * q - 1) <=> s = r
  <2> SUFFICES ASSUME NEW s \in Nat
               PROVE  k \in (s * q)..((s + 1) * q - 1) <=> s = r
    OBVIOUS
  <2>1. (s + 1) * q = s * q + q /\ s * q \in Nat /\ r * q \in Nat
    BY <1>2, <1>5
  <2>2. CASE s = r
    BY <1>2, <1>5, <1>6, <2>1, <2>2
  <2>3. CASE s < r
    <3>1. PICK d \in Nat : r = s + 1 + d
      <4>1. r - s - 1 \in Nat /\ r = s + 1 + (r - s - 1)
        BY <1>5, <2>3
      <4> QED
        BY <4>1
    <3>2. r * q = (s + 1) * q + d * q /\ d * q \in Nat
      BY <1>2, <3>1
    <3> QED
      BY <1>2, <1>5, <1>6, <2>1, <2>3, <3>2
  <2>4. CASE s > r
    <3>1. PICK d \in Nat : s = r + 1 + d
      <4>1. s - r - 1 \in Nat /\ s = r + 1 + (s - r - 1)
        BY <1>5, <2>4
      <4> QED
        BY <4>1
    <3>2. s * q = r * q + q + d * q /\ d * q \in Nat
      BY <1>2, <1>5, <3>1
    <3> QED
      BY <1>2, <1>5, <1>6, <2>1, <2>4, <3>2
  <2> QED
    BY <1>5, <2>2, <2>3, <2>4
<1>9. \A s \in Ranks : s \in Nat
  BY <1>3
<1>10. r \in Ranks
  BY <1>3, <1>5, <1>7
<1>11. \A s \in Ranks : k \in Local(n, s) <=> s = r
  BY <1>1, <1>8, <1>9 DEF Local
<1>12. r * q + m = k
  BY <1>5, <1>6
<1> QED
  BY <1>1, <1>2, <1>4, <1>5, <1>10, <1>11, <1>12

LEMMA LocalInside ==
    ASSUME NEW n \in Nat, n >= 1, n % World = 0, NEW s \in Ranks
    PROVE  Local(n, s) \subseteq 0..(n - 1)
<1>1. PICK q : q = n \div World
  OBVIOUS
<1>2. q \in Nat /\ q >= 1 /\ q * World = n
  BY <1>1, Shares
<1>3. World \in Nat /\ s \in Nat /\ s + 1 <= World
  BY Shards
<1>4. PICK d \in Nat : World = s + 1 + d
  <2>1. World - s - 1 \in Nat /\ World = s + 1 + (World - s - 1)
    BY <1>3
  <2> QED
    BY <2>1
<1>5. q * World = (s + 1) * q + d * q /\ d * q \in Nat /\ s * q \in Nat
  BY <1>2, <1>3, <1>4
<1>6. (s + 1) * q \in Nat /\ (s + 1) * q <= n
  BY <1>2, <1>3, <1>5
<1>7. (s * q)..((s + 1) * q - 1) \subseteq 0..(n - 1)
  BY <1>5, <1>6
<1> QED
  BY <1>1, <1>7 DEF Local

\* The ranks' parts add up to token t if what is due for it is there, each from one
\* rank, and nothing else is.
LEMMA SumIs ==
    ASSUME NEW i, NEW t \in Tokens,
           \A s \in Ranks : part[s][i] \subseteq Due(t),
           \A a \in Due(t) : \E r \in Ranks : a \in part[r][i] /\ \A s \in Ranks : a \in part[s][i] => s = r,
           \A u \in Tokens : u # t => \E a \in Due(t) : a \notin Due(u)
    PROVE  SumOf(Ranks, i) = t
<1> DEFINE whole(u) == \A a \in Due(u) \cup UNION {part[r][i] : r \in Ranks} :
                           Cardinality({r \in Ranks : a \in part[r][i]}) = IF a \in Due(u) THEN 1 ELSE 0
<1>1. ASSUME NEW a \in Due(t)
      PROVE  Cardinality({r \in Ranks : a \in part[r][i]}) = 1
  <2>1. PICK r \in Ranks : a \in part[r][i] /\ \A s \in Ranks : a \in part[s][i] => s = r
    OBVIOUS
  <2>2. {s \in Ranks : a \in part[s][i]} = {r}
    BY <2>1
  <2> QED
    BY <2>2, FS_Singleton
<1>2. UNION {part[r][i] : r \in Ranks} \subseteq Due(t)
  OBVIOUS
<1>3. whole(t)
  BY <1>1, <1>2
<1>4. ASSUME NEW u \in Tokens, u # t
      PROVE  ~whole(u)
  <2>1. PICK a \in Due(t) : a \notin Due(u)
    BY <1>4
  <2>2. a \in UNION {part[r][i] : r \in Ranks}
    OBVIOUS
  <2>3. Cardinality({r \in Ranks : a \in part[r][i]}) = 1
    BY <1>1
  <2> QED
    BY <2>1, <2>2, <2>3
<1>5. SumOf(Ranks, i) = IF \E u \in Tokens : whole(u) THEN CHOOSE u \in Tokens : whole(u) ELSE Junk
  BY DEF SumOf
<1> HIDE DEF whole
<1> QED
  BY <1>3, <1>4, <1>5

\* The parts of one step at one token add up to that token.
LEMMA PartsAddUp ==
    ASSUME NEW i, NEW t \in Tokens,
           \/ pc[0] \in {"embed", "bias_embed"} /\ \A s \in Ranks : part[s][i] = EmbedPart(s, t)
           \/ pc[0] \in {"index", "attn"} /\ \A s \in Ranks : part[s][i] = HeadPart(s, t)
           \/ pc[0] = "moe" /\ \A s \in Ranks : part[s][i] = ExpertPart(s, t)
    PROVE  SumOf(Ranks, i) = t
<1>1. \A u \in Tokens : u # Junk
  BY Shards
<1>2. CASE pc[0] \in {"embed", "bias_embed"} /\ \A s \in Ranks : part[s][i] = EmbedPart(s, t)
  <2>1. \A u : Due(u) = {<<"row", u>>}
    BY <1>2 DEF Due
  <2>2. \E r \in Ranks : t \in Local(Vocab, r) /\ \A s \in Ranks : t \in Local(Vocab, s) => s = r
    <3>1. t \in 0..(Vocab - 1) /\ Vocab \in Nat /\ Vocab >= 1 /\ Vocab % World = 0
      BY Values, Shards
    <3> QED
      BY <3>1, Owner
  <2>3. \A s \in Ranks : part[s][i] \subseteq Due(t)
    BY <1>2, <2>1 DEF EmbedPart
  <2>4. \A a \in Due(t) : \E r \in Ranks : a \in part[r][i] /\ \A s \in Ranks : a \in part[s][i] => s = r
    BY <1>2, <2>1, <2>2 DEF EmbedPart
  <2>5. \A u \in Tokens : u # t => \E a \in Due(t) : a \notin Due(u)
    BY <2>1
  <2> QED
    BY <2>3, <2>4, <2>5, SumIs
<1>3. CASE pc[0] \in {"index", "attn"} /\ \A s \in Ranks : part[s][i] = HeadPart(s, t)
  <2>1. \A u : Due(u) = {<<"head", k, u>> : k \in 0..(Heads - 1)}
    BY <1>3 DEF Due
  <2>2. \A k \in 0..(Heads - 1) : \E r \in Ranks : k \in Local(Heads, r) /\ \A s \in Ranks : k \in Local(Heads, s) => s = r
    <3>1. Heads \in Nat /\ Heads >= 1 /\ Heads % World = 0
      BY Values, Shards
    <3> QED
      BY <3>1, Owner
  <2>3. \A s \in Ranks : part[s][i] = {<<"head", k, t>> : k \in Local(Heads, s)}
    BY <1>1, <1>3 DEF HeadPart
  <2>4. \A s \in Ranks : part[s][i] \subseteq Due(t)
    BY <2>1, <2>3, LocalInside, Values, Shards
  <2>5. \A a \in Due(t) : \E r \in Ranks : a \in part[r][i] /\ \A s \in Ranks : a \in part[s][i] => s = r
    BY <2>1, <2>2, <2>3
  <2>6. \A u \in Tokens : u # t => \E a \in Due(t) : a \notin Due(u)
    <3>1. 0 \in 0..(Heads - 1)
      BY Values, Shards
    <3>2. <<"head", 0, t>> \in Due(t) /\ \A u \in Tokens : u # t => <<"head", 0, t>> \notin Due(u)
      BY <2>1, <3>1
    <3> QED
      BY <3>2
  <2> QED
    BY <2>4, <2>5, <2>6, SumIs
<1>4. CASE pc[0] = "moe" /\ \A s \in Ranks : part[s][i] = ExpertPart(s, t)
  <2>1. \A u : Due(u) = {<<"expert", e, u>> : e \in Route[u]}
    BY <1>4 DEF Due
  <2>2. \A e \in Route[t] : \E r \in Ranks : e \in Local(Experts, r) /\ \A s \in Ranks : e \in Local(Experts, s) => s = r
    <3>1. Experts \in Nat /\ Experts >= 1 /\ Experts % World = 0 /\ Route[t] \subseteq 0..(Experts - 1)
      BY Values
    <3> QED
      BY <3>1, Owner
  <2>3. \A s \in Ranks : part[s][i] = {<<"expert", e, t>> : e \in Route[t] \cap Local(Experts, s)}
    BY <1>1, <1>4 DEF ExpertPart
  <2>4. \A s \in Ranks : part[s][i] \subseteq Due(t)
    BY <2>1, <2>3
  <2>5. \A a \in Due(t) : \E r \in Ranks : a \in part[r][i] /\ \A s \in Ranks : a \in part[s][i] => s = r
    BY <2>1, <2>2, <2>3
  <2>6. \A u \in Tokens : u # t => \E a \in Due(t) : a \notin Due(u)
    <3>1. PICK e : e \in Route[t]
      BY Values
    <3>2. <<"expert", e, t>> \in Due(t) /\ \A u \in Tokens : u # t => <<"expert", e, t>> \notin Due(u)
      BY <2>1, <3>1
    <3> QED
      BY <3>2
  <2> QED
    BY <2>4, <2>5, <2>6, SumIs
<1> QED
  BY <1>2, <1>3, <1>4

-----------------------------------------------------------------------------
(* Every rank computes what one rank would. *)

\* What is drawn is a token.
LEMMA PickType ==
    ASSUME NEW h \in Tokens, NEW before \in Tokens, NEW d \in Nat
    PROVE  Pick(h, before, d) \in Tokens
<1>1. Vocab \in Nat /\ Vocab >= 1 /\ Tokens = 0..(Vocab - 1) /\ Seed \in Nat
  BY Shards, Values
<1>2. h + before + (IF Temperature = 0 THEN 0 ELSE Seed + d) \in Int
  BY <1>1
<1> QED
  BY <1>1, <1>2 DEF Pick

LEMMA TextTypes ==
    ASSUME NEW p \in Prompts, NEW f \in 0..Len(Text)
    PROVE  /\ Fed(p, f) \in Seq(Tokens) /\ Fed(p, f)[Len(Fed(p, f))] \in Tokens
           /\ Following(p, f) \in Tokens /\ Drawn(f) \in Nat
<1>1. Fed(p, f) \in Seq(Tokens) /\ Fed(p, f) # << >>
  <2>1. p \in Seq(Tokens) /\ p # << >>
    BY ShardsAssumption
  <2>2. f # 0 => f \in 1..Len(Text)
    BY Shards
  <2>3. f # 0 => Text[f] \in Tokens
    BY <2>2, Shards, ElementOfSeq
  <2>4. f # 0 => <<Text[f]>> \in Seq(Tokens)
    BY <2>3
  <2> QED
    BY <2>1, <2>4 DEF Fed
<1>2. PICK w : w = Fed(p, f)
  OBVIOUS
<1>3. Len(w) \in Nat /\ Len(w) # 0
  BY <1>1, <1>2, EmptySeq, LenProperties
<1>4. Len(w) \in 1..Len(w)
  BY <1>3
<1>5. w[Len(w)] \in Tokens
  BY <1>1, <1>2, <1>4, ElementOfSeq
<1>6. Drawn(f) \in Nat
  <2>1. f # 0 => f - 1 \in Nat
    BY Shards
  <2>2. PICK b : b = Block + 1
    OBVIOUS
  <2>3. b \in Nat
    BY <2>2, Shards
  <2>4. f # 0 => (f - 1) * b \in Nat
    BY <2>1, <2>3
  <2>5. f # 0 => (f - 1) * b + 1 \in Nat
    BY <2>4
  <2> QED
    BY <2>2, <2>5 DEF Drawn
<1>7. Following(p, f) \in Tokens
  BY <1>2, <1>5, <1>6, PickType, Shards DEF Following
<1> QED
  BY <1>1, <1>2, <1>5, <1>6, <1>7

\* From logits that stand at their tokens' indices the sample is the one rank's.
LEMMA SampledIs ==
    ASSUME NEW r, NEW h \in Tokens, NEW before \in Tokens, draws[r] \in Nat,
           \A v \in Tokens : logits[r][v] = v
    PROVE  Sampled(r, h, before) = Pick(h, before, draws[r])
<1>1. PICK w : w = Pick(h, before, draws[r])
  OBVIOUS
<1>2. w \in Tokens
  BY <1>1, PickType
<1>3. w = (h + before + Noise(r)) % Vocab
  BY <1>1 DEF Pick, Noise
<1>4. h # Junk /\ before # Junk
  BY Shards
<1>5. Sampled(r, h, before) = CHOOSE v \in Tokens : logits[r][v] = w \/ ~\E u \in Tokens : logits[r][u] = w
  BY <1>3, <1>4 DEF Sampled
<1>6. \A v \in Tokens : (logits[r][v] = w \/ ~\E u \in Tokens : logits[r][u] = w) <=> v = w
  BY <1>2
<1>7. (CHOOSE v \in Tokens : logits[r][v] = w \/ ~\E u \in Tokens : logits[r][u] = w) = w
  BY <1>2, <1>6
<1> QED
  BY <1>1, <1>5, <1>7

\* The data of all ranks after prompt p.
Told(p) == SameDrafts /\ \A r \in Ranks : DataOK(p, r)

\* Ranks in the same call have the same tokens.
LEMMA SameTokens ==
    ASSUME Lockstep, NEW p, Told(p), NEW r \in Ranks, NEW s \in Ranks, pass[r] = pass[s], fed[r] = fed[s]
    PROVE  toks[r] = toks[s]
<1>1. pass[r] \in {"forward", "spec"}
  BY DEF Lockstep, Types
<1>2. DataOK(p, r) /\ DataOK(p, s)
  BY DEF Told
<1>3. CASE pass[r] = "forward"
  <2>1. toks[r] = Fed(p, fed[r]) /\ toks[s] = Fed(p, fed[s])
    BY <1>2, <1>3 DEF DataOK
  <2> QED
    BY <2>1
<1>4. CASE pass[r] = "spec"
  <2>1. /\ toks[r] = [i \in 1..Block |-> IF i = 1 THEN Following(p, fed[r]) ELSE NoiseToken]
        /\ toks[s] = [i \in 1..Block |-> IF i = 1 THEN Following(p, fed[s]) ELSE NoiseToken]
    BY <1>2, <1>4 DEF DataOK
  <2> QED
    BY <2>1
<1> QED
  BY <1>1, <1>3, <1>4

\* A rank nothing changes for.
LEMMA DataStays ==
    ASSUME NEW p, NEW s, DataOK(p, s),
           pc'[s] = pc[s], waiting'[s] = waiting[s], pass'[s] = pass[s], fed'[s] = fed[s], toks'[s] = toks[s],
           x'[s] = x[s], part'[s] = part[s], logits'[s] = logits[s], out'[s] = out[s], draft'[s] = draft[s],
           draws'[s] = draws[s]
    PROVE  DataOK(p, s)'
<1>1. Contributed(s)' = Contributed(s)
  BY DEF Contributed
<1>2. Sampling(s)' <=> Sampling(s)
  BY DEF Sampling
<1> QED
  BY <1>1, <1>2 DEF DataOK

LEMMA EnterData ==
    ASSUME Lockstep, NEW p, Told(p), NEW r \in Ranks,
           Embed(r) \/ Index(r) \/ Attend(r) \/ Moe(r) \/ BiasEmbed(r) \/ LogitShard(r)
    PROVE  Told(p)'
<1>1. DataOK(p, r) /\ x[r] = toks[r]
  BY DEF Told, DataOK
<1>2. Enter(r, pc[r], Contributed(r))
  <2>1. CASE Embed(r)
    <3>1. pc[r] = "embed"
      BY <2>1 DEF Embed, Enter
    <3> QED
      BY <2>1, <3>1 DEF Embed, Contributed
  <2>2. CASE Index(r) \/ Attend(r)
    <3>1. pc[r] \in {"index", "attn"}
      BY <2>2 DEF Index, Attend, Enter
    <3>2. Contributed(r) = [i \in DOMAIN toks[r] |-> HeadPart(r, toks[r][i])]
      BY <3>1 DEF Contributed
    <3> QED
      BY <1>1, <2>2, <3>2 DEF Index, Attend, Enter
  <2>3. CASE Moe(r)
    <3>1. pc[r] = "moe"
      BY <2>3 DEF Moe, Enter
    <3> QED
      BY <1>1, <2>3, <3>1 DEF Moe, Contributed
  <2>4. CASE BiasEmbed(r)
    <3>1. pc[r] = "bias_embed"
      BY <2>4 DEF BiasEmbed, Enter
    <3> QED
      BY <2>4, <3>1 DEF BiasEmbed, Contributed
  <2>5. CASE LogitShard(r)
    <3>1. pc[r] \in {"head", "bias"}
      BY <2>5 DEF LogitShard
    <3> QED
      BY <2>5, <3>1 DEF LogitShard, Contributed
  <2> QED
    BY <2>1, <2>2, <2>3, <2>4, <2>5
<1>3. /\ part' = [part EXCEPT ![r] = Contributed(r)] /\ waiting' = [waiting EXCEPT ![r] = TRUE]
      /\ UNCHANGED <<pc, pass, fed, lay, toks, x, logits, out, draft, draws>>
  BY <1>2 DEF Enter
<1>4. part'[r] = Contributed(r)
  BY <1>3 DEF Lockstep, Types
<1>5. Contributed(r)' = Contributed(r)
  BY <1>3 DEF Contributed
<1>6. DataOK(p, r)'
  BY <1>1, <1>3, <1>4, <1>5 DEF DataOK, Sampling
<1>7. ASSUME NEW s \in Ranks, s # r
      PROVE  DataOK(p, s)'
  <2>1. part'[s] = part[s] /\ waiting'[s] = waiting[s]
    BY <1>3, <1>7 DEF Lockstep, Types
  <2> QED
    BY <1>3, <2>1, DataStays DEF Told
<1>8. SameDrafts'
  BY <1>3 DEF Told, SameDrafts
<1> QED
  BY <1>6, <1>7, <1>8 DEF Told

LEMMA AllReduceData ==
    ASSUME Lockstep, NEW p, Told(p), AllReduce
    PROVE  Told(p)'
<1>1. /\ \A r \in Ranks : waiting[r] /\ pc[r] \in {"embed", "index", "attn", "moe"}
      /\ Leave(Ranks, Ranks)
  BY GroupIsAll DEF AllReduce
<1>2. UNCHANGED <<pass, fed, toks, part, logits, out, draft, draws>>
  BY <1>1 DEF Leave
<1>3. \A r \in Ranks :
        /\ pc'[r] = After(r) /\ waiting'[r] = FALSE
        /\ x'[r] = [i \in DOMAIN part[r] |-> Result(r, Ranks, i)]
  BY <1>1 DEF Leave
<1>4. SameDrafts'
  BY <1>2 DEF Told, SameDrafts
<1>5. ASSUME NEW r \in Ranks
      PROVE  x'[r] = toks[r]
  <2>1. /\ x[r] = toks[r] /\ part[r] = Contributed(r) /\ toks[r] \in Seq(Tokens)
        /\ pc[r] \in {"embed", "index", "attn", "moe"}
    BY <1>1 DEF Told, DataOK, Lockstep, Types
  <2>2. DOMAIN part[r] = DOMAIN toks[r]
    BY <2>1 DEF Contributed
  <2>3. ASSUME NEW i \in DOMAIN toks[r]
        PROVE  Result(r, Ranks, i) = toks[r][i]
    <3>1. PICK t : t = toks[r][i]
      OBVIOUS
    <3>2. t \in Tokens
      BY <2>1, <2>3, <3>1, LenProperties, ElementOfSeq
    <3>3. \A s \in Ranks : pc[s] = pc[r] /\ pc[0] = pc[r] /\ toks[s] = toks[r]
      <4>1. \A s \in Ranks : pc[s] = pc[r] /\ pass[s] = pass[r] /\ fed[s] = fed[r]
        BY <1>1, Together
      <4> QED
        BY <4>1, SameTokens, Shards
    <3>4. \A s \in Ranks : part[s] = Contributed(s)
      BY <1>1 DEF Told, DataOK
    <3>5. \/ pc[0] = "embed" /\ \A s \in Ranks : part[s][i] = EmbedPart(s, t)
          \/ pc[0] \in {"index", "attn"} /\ \A s \in Ranks : part[s][i] = HeadPart(s, t)
          \/ pc[0] = "moe" /\ \A s \in Ranks : part[s][i] = ExpertPart(s, t)
      <4>1. CASE pc[r] = "embed"
        <5>1. \A s \in Ranks : part[s] = [j \in DOMAIN toks[r] |-> EmbedPart(s, toks[r][j])]
          BY <3>3, <3>4, <4>1 DEF Contributed
        <5> QED
          BY <2>3, <3>1, <3>3, <4>1, <5>1, Shards
      <4>2. CASE pc[r] \in {"index", "attn"}
        <5>1. \A s \in Ranks : part[s] = [j \in DOMAIN toks[r] |-> HeadPart(s, toks[r][j])]
          <6> SUFFICES ASSUME NEW s \in Ranks
                       PROVE  part[s] = [j \in DOMAIN toks[r] |-> HeadPart(s, toks[r][j])]
            OBVIOUS
          <6>1. pc[s] \in {"index", "attn"} /\ toks[s] = toks[r] /\ part[s] = Contributed(s)
            BY <3>3, <3>4, <4>2
          <6>2. Contributed(s) = [j \in DOMAIN toks[s] |-> HeadPart(s, toks[s][j])]
            BY <6>1 DEF Contributed
          <6> QED
            BY <6>1, <6>2
        <5> QED
          BY <2>3, <3>1, <3>3, <4>2, <5>1, Shards
      <4>3. CASE pc[r] = "moe"
        <5>1. \A s \in Ranks : part[s] = [j \in DOMAIN toks[r] |-> ExpertPart(s, toks[r][j])]
          BY <3>3, <3>4, <4>3 DEF Contributed
        <5> QED
          BY <2>3, <3>1, <3>3, <4>3, <5>1, Shards
      <4> QED
        BY <2>1, <4>1, <4>2, <4>3
    <3>6. SumOf(Ranks, i) = t
      BY <3>2, <3>5, PartsAddUp
    <3> QED
      BY <2>1, <3>1, <3>6 DEF Result
  <2>4. toks[r] = [i \in DOMAIN toks[r] |-> toks[r][i]]
    BY <2>1, LenProperties
  <2> QED
    BY <1>3, <2>2, <2>3, <2>4
<1>6. ASSUME NEW r \in Ranks
      PROVE  DataOK(p, r)'
  <2>1. /\ DataOK(p, r) /\ pass[r] \in {"forward", "spec"} /\ pc[r] \in {"embed", "index", "attn", "moe"}
        /\ pc'[r] = After(r) /\ waiting'[r] = FALSE /\ x'[r] = toks[r]
    BY <1>1, <1>3, <1>5 DEF Told, Lockstep, Types
  <2>2. /\ pc'[r] \in {"index", "attn", "moe", "head", "end"}
        /\ pc'[r] = "end" => pass[r] = "spec" /\ fed[r] = 0
        /\ pass[r] = "spec" /\ fed[r] = 0 => pc'[r] = "end"
    BY <2>1 DEF After, FirstOf, DataOK
  <2>3. ~Sampling(r) /\ ~Sampling(r)' /\ pc[r] # "end"
    BY <1>2, <2>1, <2>2 DEF Sampling
  <2> QED
    BY <1>2, <2>1, <2>2, <2>3 DEF DataOK
<1> QED
  BY <1>4, <1>6 DEF Told

LEMMA BiasData ==
    ASSUME Lockstep, NEW p, Told(p), AllReduceBias
    PROVE  Told(p)'
<1>1. /\ \A r \in Ranks : waiting[r] /\ pc[r] = "bias_embed"
      /\ pc' = [r \in Ranks |-> After(r)] /\ waiting' = [r \in Ranks |-> FALSE]
      /\ out' = [r \in Ranks |-> SumOf(Ranks, 1)]
      /\ UNCHANGED <<pass, fed, lay, toks, x, part, logits, draft, draws>>
  BY DEF AllReduceBias
<1>2. \A r \in Ranks : /\ pc'[r] = "bias" /\ waiting'[r] = FALSE /\ pass[r] = "spec"
                       /\ Len(draft[r]) \in 1..Block /\ draft[r] \in Seq(Tokens)
  BY <1>1 DEF After, Lockstep, Types, RankOK, PlaceOK, Sampling
<1>3. SameDrafts'
  BY <1>1 DEF Told, SameDrafts
<1>4. ASSUME NEW r \in Ranks
      PROVE  SumOf(Ranks, 1) = draft[r][Len(draft[r])]
  <2>1. PICK t : t = draft[r][Len(draft[r])]
    OBVIOUS
  <2>2. PICK n : n = Len(draft[r])
    OBVIOUS
  <2>3. n \in 1..n /\ n \in 1..Block
    BY <1>2, <2>2, Shards
  <2>4. t \in Tokens
    BY <1>2, <2>1, <2>2, <2>3, ElementOfSeq
  <2>5. \A s \in Ranks : pass[s] = pass[r] /\ fed[s] = fed[r] /\ Len(draft[s]) = n
    BY <1>1, <1>2, <2>2, Together DEF Sampling
  <2>6. \A s \in Ranks : draft[s][n] = draft[r][n]
    BY <2>2, <2>3, <2>5 DEF Told, SameDrafts
  <2>7. \A s \in Ranks : part[s] = <<EmbedPart(s, t)>>
    <3>1. \A s \in Ranks : part[s] = Contributed(s)
      BY <1>1 DEF Told, DataOK
    <3>2. \A s \in Ranks : Contributed(s) = <<EmbedPart(s, draft[s][Len(draft[s])])>>
      BY <1>1 DEF Contributed
    <3>3. \A s \in Ranks : draft[s][Len(draft[s])] = t
      BY <2>1, <2>2, <2>5, <2>6
    <3> QED
      BY <3>1, <3>2, <3>3
  <2>8. pc[0] = "bias_embed"
    BY <1>1, Shards
  <2>9. \A s \in Ranks : part[s][1] = EmbedPart(s, t)
    BY <2>7
  <2> QED
    BY <2>1, <2>4, <2>8, <2>9, PartsAddUp
<1>5. ASSUME NEW r \in Ranks
      PROVE  DataOK(p, r)'
  <2>1. DataOK(p, r) /\ out'[r] = draft[r][Len(draft[r])] /\ pc'[r] = "bias" /\ waiting'[r] = FALSE
    BY <1>1, <1>2, <1>4 DEF Told
  <2>2. Sampling(r) /\ Sampling(r)'
    BY <1>1, <1>2 DEF Sampling
  <2> QED
    BY <1>1, <1>2, <2>1, <2>2 DEF DataOK
<1> QED
  BY <1>3, <1>5 DEF Told

LEMMA GatherData ==
    ASSUME Lockstep, NEW p, Told(p), AllGather
    PROVE  Told(p)'
<1> DEFINE begins(r) == pass[r] = "spec" /\ pc[r] = "head"
<1>1. /\ \A r \in Ranks : waiting[r] /\ pc[r] \in {"head", "bias"}
      /\ logits' = [r \in Ranks |-> [v \in Tokens |-> CHOOSE u \in Tokens : GatherAt(r, v) = {<<"logit", u>>}]]
      /\ pc' = [r \in Ranks |-> After(r)] /\ waiting' = [r \in Ranks |-> FALSE]
      /\ draft' = [r \in Ranks |-> IF begins(r) THEN <<toks[r][1]>> ELSE draft[r]]
      /\ UNCHANGED <<pass, fed, lay, toks, x, part, out, draws>>
  BY DEF AllGather
<1>2. \A r \in Ranks :
        /\ DataOK(p, r) /\ RankOK(r) /\ pass[r] \in {"forward", "spec"} /\ waiting'[r] = FALSE
        /\ pc[r] = "bias" => pass[r] = "spec"
        /\ pc'[r] = IF begins(r) THEN "bias_embed" ELSE "sample"
        /\ begins(r) => draft'[r] = <<toks[r][1]>> /\ Len(draft'[r]) = 1
        /\ ~begins(r) => draft'[r] = draft[r]
  <2> TAKE r \in Ranks
  <2>1. DataOK(p, r) /\ RankOK(r) /\ pass[r] \in {"forward", "spec"} /\ waiting'[r] = FALSE
    BY <1>1 DEF Lockstep, Types, Told
  <2>2. pc[r] = "bias" => pass[r] = "spec"
    BY <2>1 DEF RankOK, PlaceOK
  <2>3. pc'[r] = IF begins(r) THEN "bias_embed" ELSE "sample"
    BY <1>1, <2>1, <2>2 DEF After
  <2>4. /\ begins(r) => draft'[r] = <<toks[r][1]>> /\ Len(draft'[r]) = 1
        /\ ~begins(r) => draft'[r] = draft[r]
    BY <1>1
  <2> QED
    BY <2>1, <2>2, <2>3, <2>4
<1>3. ASSUME NEW r \in Ranks, NEW v \in Tokens
      PROVE  logits'[r][v] = v
  <2>1. Vocab \in Nat /\ Vocab >= 1 /\ Vocab % World = 0 /\ v \in 0..(Vocab - 1)
    BY Shards, Values
  <2>2. PICK q \in Nat : \E o \in Ranks, m \in 0..(q - 1) :
          q = Vocab \div World /\ o = v \div q /\ m = v % q /\ o * q + m = v
    BY <2>1, Owner
  <2>3. PICK o \in Ranks, m \in 0..(q - 1) :
          q = Vocab \div World /\ o = v \div q /\ m = v % q /\ o * q + m = v
    BY <2>2
  <2>4. part[o] = [k \in 1..q |-> {<<"logit", o * q + k - 1>>}]
    <3>1. part[o] = Contributed(o)
      BY <1>1, <2>3 DEF Told, DataOK
    <3>2. pc[o] \in {"head", "bias"}
      BY <1>1, <2>3
    <3> QED
      BY <2>3, <3>1, <3>2 DEF Contributed
  <2>5. m + 1 \in 1..q /\ o * q + (m + 1) - 1 = v
    <3>1. PICK n : n = o * q
      OBVIOUS
    <3>2. o \in Nat /\ q \in Nat /\ m \in 0..(q - 1) /\ n + m = v
      BY <2>2, <2>3, <3>1, Shards
    <3>3. n \in Int
      BY <3>1, <3>2
    <3> QED
      BY <3>1, <3>2, <3>3
  <2>6. part[o][m + 1] = {<<"logit", v>>}
    BY <2>4, <2>5
  <2>7. GatherAt(r, v) = part[o][m + 1]
    BY <2>3 DEF GatherAt
  <2>8. logits'[r][v] = CHOOSE u \in Tokens : GatherAt(r, v) = {<<"logit", u>>}
    BY <1>1, <1>3
  <2>9. \A u \in Tokens : GatherAt(r, v) = {<<"logit", u>>} <=> u = v
    <3> SUFFICES ASSUME NEW u \in Tokens
                 PROVE  {<<"logit", v>>} = {<<"logit", u>>} <=> u = v
      BY <2>6, <2>7
    <3>1. <<"logit", v>> = <<"logit", u>> <=> u = v
      OBVIOUS
    <3> QED
      BY <3>1
  <2> QED
    BY <2>8, <2>9
<1>4. ASSUME NEW r \in Ranks
      PROVE  DataOK(p, r)'
  <2>1. DataOK(p, r) /\ x'[r] = toks'[r] /\ waiting'[r] = FALSE /\ \A v \in Tokens : logits'[r][v] = v
    BY <1>1, <1>2, <1>3 DEF DataOK
  <2>2. CASE begins(r)
    <3>1. draft[r] = << >>
      BY <2>1, <2>2 DEF DataOK, Sampling
    <3>2. pc'[r] = "bias_embed" /\ draft'[r] = <<toks[r][1]>> /\ draft'[r] # << >>
      BY <1>2, <2>2, EmptySeq
    <3>3. Sampling(r)' /\ Len(draft'[r]) = 1 /\ draft'[r][1] = toks[r][1]
      BY <1>1, <2>2, <3>2 DEF Sampling
    <3>4. fed[r] # 0
      BY <2>1, <2>2 DEF DataOK
    <3>5. \A i \in 1..(Len(draft'[r]) - 1) : FALSE
      BY <3>3
    <3> QED
      BY <1>1, <2>1, <2>2, <3>1, <3>2, <3>3, <3>4, <3>5 DEF DataOK
  <2>3. CASE ~begins(r) /\ pass[r] = "spec"
    <3>1. pc[r] = "bias" /\ pc'[r] = "sample" /\ draft'[r] = draft[r]
      BY <1>1, <1>2, <2>3
    <3>2. Sampling(r) /\ Sampling(r)'
      BY <1>1, <2>3, <3>1 DEF Sampling
    <3> QED
      BY <1>1, <2>1, <2>3, <3>1, <3>2 DEF DataOK
  <2>4. CASE pass[r] = "forward"
    <3>1. pc'[r] = "sample" /\ draft'[r] = draft[r] /\ pc[r] # "end"
      BY <1>1, <1>2, <2>4
    <3> QED
      BY <1>1, <2>1, <2>4, <3>1 DEF DataOK
  <2> QED
    BY <1>2, <2>2, <2>3, <2>4
<1>5. SameDrafts'
  <2> SUFFICES ASSUME NEW r \in Ranks, NEW s \in Ranks, pass[r] = pass[s], fed[r] = fed[s]
               PROVE  \A i \in 1..Len(draft'[r]) : i \in 1..Len(draft'[s]) => draft'[r][i] = draft'[s][i]
    BY <1>1 DEF SameDrafts
  <2>1. pc[r] = pc[s] /\ toks[r] = toks[s] /\ (begins(r) <=> begins(s))
    BY <1>1, Together, SameTokens
  <2>2. CASE begins(r)
    BY <1>2, <2>1, <2>2
  <2>3. CASE ~begins(r)
    <3>1. draft'[r] = draft[r] /\ draft'[s] = draft[s]
      BY <1>2, <2>1, <2>3
    <3> QED
      BY <3>1 DEF Told, SameDrafts
  <2> QED
    BY <2>2, <2>3
<1> QED
  BY <1>4, <1>5 DEF Told

LEMMA SampleData ==
    ASSUME Lockstep, NEW p \in Prompts, Told(p), NEW r \in Ranks, Sample(r)
    PROVE  Told(p)'
<1>1. /\ pc[r] = "sample" /\ RankOK(r) /\ DataOK(p, r) /\ pass[r] \in {"forward", "spec"} /\ fed[r] \in 0..Len(Text)
      /\ draws[r] \in Nat /\ draft[r] \in Seq(Tokens) /\ Len(draft[r]) \in Nat /\ toks[r] \in Seq(Tokens)
  BY LenProperties DEF Sample, Lockstep, Types, Told
<1>2. draws' = [draws EXCEPT ![r] = @ + 1] /\ UNCHANGED <<waiting, pass, fed, lay, toks, x, part, logits>>
  BY DEF Sample
<1>3. /\ x[r] = toks[r] /\ ~waiting[r] /\ \A v \in Tokens : logits[r][v] = v
      /\ draws'[r] = draws[r] + 1 /\ Drawn(fed[r]) \in Nat
  BY <1>1, <1>2, TextTypes DEF DataOK, RankOK, PlaceOK, Lockstep, Types
<1>4. \A s \in Ranks \ {r} : pc'[s] = pc[s] /\ out'[s] = out[s] /\ draft'[s] = draft[s] /\ draws'[s] = draws[s]
  BY DEF Sample, Lockstep, Types
<1>5. \A s \in Ranks \ {r} : DataOK(p, s)'
  BY <1>2, <1>4, DataStays DEF Told
<1>6. CASE pass[r] = "forward"
  <2> DEFINE h == x[r][Len(x[r])]
  <2>1. /\ out' = [out EXCEPT ![r] = Sampled(r, h, 0)]
        /\ pc' = [pc EXCEPT ![r] = "end"] /\ draft' = draft
    BY <1>6 DEF Sample
  <2>2. h = Fed(p, fed[r])[Len(Fed(p, fed[r]))] /\ h \in Tokens
    BY <1>1, <1>3, <1>6, TextTypes DEF DataOK
  <2>3. draws[r] = Drawn(fed[r])
    BY <1>1, <1>3, <1>6 DEF DataOK
  <2> HIDE DEF h
  <2>4. Sampled(r, h, 0) = Following(p, fed[r])
    <3>1. Sampled(r, h, 0) = Pick(h, 0, draws[r])
      BY <1>1, <1>3, <2>2, SampledIs, Shards
    <3> QED
      BY <2>2, <2>3, <3>1 DEF Following
  <2>5. pc'[r] = "end" /\ out'[r] = Following(p, fed[r])
    BY <2>1, <2>4 DEF Lockstep, Types
  <2>6. DataOK(p, r)'
    <3>1. draws'[r] = Drawn(fed[r]) + 1
      BY <1>3, <2>3
    <3> QED
      BY <1>1, <1>2, <1>3, <1>6, <2>1, <2>5, <3>1 DEF DataOK
  <2>7. SameDrafts'
    BY <1>2, <2>1 DEF Told, SameDrafts
  <2> QED
    BY <1>5, <2>6, <2>7 DEF Told
<1>7. CASE pass[r] = "spec"
  <2>1. PICK n : n = Len(draft[r])
    OBVIOUS
  <2> DEFINE d == Sampled(r, x[r][Len(draft[r])], out[r])
  <2>2. /\ draft' = [draft EXCEPT ![r] = Append(@, d)] /\ out' = out
        /\ pc' = [pc EXCEPT ![r] = IF Len(draft'[r]) > Block THEN "end" ELSE "bias_embed"]
    BY <1>7 DEF Sample
  <2>3. /\ Sampling(r) /\ n \in 1..Block /\ n \in 1..n /\ n \in Nat /\ Block \in Nat
        /\ Len(toks[r]) = Block /\ out[r] = draft[r][n]
        /\ draft[r] # << >> /\ draft[r][1] = toks[r][1] /\ fed[r] # 0
        /\ \A i \in 1..(n - 1) : draft[r][i + 1] = Pick(toks[r][i], draft[r][i], Drawn(fed[r]) + i)
        /\ draws[r] = Drawn(fed[r]) + n
    <3>1. Sampling(r)
      BY <1>1, <1>7 DEF Sampling
    <3>2. n \in 1..Block /\ Len(toks[r]) = Block
      BY <1>1, <1>7, <2>1, <3>1 DEF RankOK, PlaceOK
    <3>3. n \in 1..n /\ n \in Nat /\ Block \in Nat
      BY <3>2, Shards
    <3> QED
      BY <1>1, <1>7, <2>1, <3>1, <3>2, <3>3 DEF DataOK
  <2>4. toks[r][n] \in Tokens /\ draft[r][n] \in Tokens
    BY <1>1, <2>1, <2>3, ElementOfSeq
  <2>5. d = Pick(toks[r][n], draft[r][n], Drawn(fed[r]) + n) /\ d \in Tokens
    <3>1. d = Sampled(r, toks[r][n], draft[r][n])
      BY <1>3, <2>1, <2>3
    <3>2. d = Pick(toks[r][n], draft[r][n], draws[r])
      BY <1>1, <1>3, <2>4, <3>1, SampledIs
    <3>3. d \in Tokens
      BY SampledType
    <3> QED
      BY <2>3, <3>2, <3>3
  <2> HIDE DEF d
  <2>6. draft'[r] = Append(draft[r], d)
    BY <2>2 DEF Lockstep, Types
  <2>7. /\ draft'[r] # << >> /\ Len(draft'[r]) = n + 1 /\ draft'[r][n + 1] = d
        /\ \A i \in 1..n : draft'[r][i] = draft[r][i]
    BY <1>1, <2>1, <2>5, <2>6, AppendProperties
  <2>8. pc'[r] = IF n = Block THEN "end" ELSE "bias_embed"
    <3>1. pc'[r] = IF n + 1 > Block THEN "end" ELSE "bias_embed"
      BY <2>2, <2>7 DEF Lockstep, Types
    <3>2. n + 1 > Block <=> n = Block
      BY <2>3
    <3> QED
      BY <3>1, <3>2
  <2>9. \A i \in 1..n : draft'[r][i + 1] = Pick(toks[r][i], draft'[r][i], Drawn(fed[r]) + i)
    <3> SUFFICES ASSUME NEW i \in 1..n
                 PROVE  draft'[r][i + 1] = Pick(toks[r][i], draft'[r][i], Drawn(fed[r]) + i)
      OBVIOUS
    <3>1. CASE i = n
      <4>1. draft'[r][n] = draft[r][n]
        BY <2>3, <2>7
      <4> QED
        BY <2>5, <2>7, <3>1, <4>1
    <3>2. CASE i # n
      <4>1. i \in 1..(n - 1) /\ i + 1 \in 1..n
        BY <2>3, <3>2
      <4> QED
        BY <2>3, <2>7, <4>1
    <3> QED
      BY <3>1, <3>2
  <2>10. DataOK(p, r)'
    <3>1. Len(draft'[r]) - 1 = n
      BY <2>3, <2>7
    <3>2. draws'[r] = Drawn(fed[r]) + Len(draft'[r])
      BY <1>3, <2>3, <2>7
    <3>3. draft'[r][1] = toks[r][1] /\ (n = Block => out'[r] = draft'[r][Block])
      <4>1. 1 \in 1..n
        BY <2>3
      <4> QED
        BY <2>2, <2>3, <2>7, <4>1
    <3>4. n = Block => Len(draft'[r]) = Block + 1
      BY <2>7
    <3>5. pc'[r] \in {"end", "bias_embed"} /\ (Sampling(r)' \/ pc'[r] = "end") /\ pass'[r] = "spec"
      BY <1>2, <1>7, <2>8 DEF Sampling
    <3>6. pc'[r] = "end" => n = Block
      BY <2>8
    <3>7. toks[r] = [i \in 1..Block |-> IF i = 1 THEN Following(p, fed[r]) ELSE NoiseToken]
      BY <1>1, <1>7 DEF DataOK
    <3>8. x'[r] = toks'[r] /\ waiting'[r] = FALSE
      BY <1>1, <1>2, <1>3 DEF Lockstep, Types
    <3>9. \A i \in 1..(Len(draft'[r]) - 1) :
            draft'[r][i + 1] = Pick(toks'[r][i], draft'[r][i], Drawn(fed'[r]) + i)
      BY <1>2, <2>9, <3>1
    <3> QED
      BY <1>2, <1>3, <2>3, <2>7, <3>2, <3>3, <3>4, <3>5, <3>6, <3>7, <3>8, <3>9 DEF DataOK
  <2>11. ASSUME NEW s \in Ranks \ {r}, pass[s] = pass[r], fed[s] = fed[r], NEW i \in 1..(n + 1),
                i \in 1..Len(draft[s])
         PROVE  draft'[r][i] = draft[s][i]
    <3>1. CASE i \in 1..n
      <4>1. draft[r][i] = draft[s][i]
        BY <2>1, <2>11, <3>1 DEF Told, SameDrafts
      <4> QED
        BY <2>7, <3>1, <4>1
    <3>2. CASE i \notin 1..n
      <4>1. i = n + 1 /\ n \in 1..(Len(draft[s]) - 1) /\ n \in 1..Len(draft[s]) /\ Len(draft[s]) # 0
        <5>1. Len(draft[s]) \in Nat
          BY LenProperties DEF Lockstep, Types
        <5> QED
          BY <2>3, <2>11, <3>2, <5>1
      <4>2. draft[s] # << >>
        BY <4>1, EmptySeq
      <4>3. draft[s][n + 1] = Pick(toks[s][n], draft[s][n], Drawn(fed[s]) + n)
        <5>1. \A j \in 1..(Len(draft[s]) - 1) : draft[s][j + 1] = Pick(toks[s][j], draft[s][j], Drawn(fed[s]) + j)
          BY <1>7, <2>11, <4>2 DEF Told, DataOK
        <5> QED
          BY <4>1, <5>1
      <4>4. toks[s] = toks[r] /\ draft[s][n] = draft[r][n]
        <5>1. toks[s] = toks[r]
          BY <2>11, SameTokens
        <5>2. draft[s][n] = draft[r][n]
          BY <2>1, <2>3, <2>11, <4>1 DEF Told, SameDrafts
        <5> QED
          BY <5>1, <5>2
      <4> QED
        BY <2>5, <2>7, <2>11, <4>1, <4>3, <4>4
    <3> QED
      BY <3>1, <3>2
  <2>12. SameDrafts'
    <3> SUFFICES ASSUME NEW a \in Ranks, NEW b \in Ranks, pass[a] = pass[b], fed[a] = fed[b],
                        NEW i \in 1..Len(draft'[a]), i \in 1..Len(draft'[b])
                 PROVE  draft'[a][i] = draft'[b][i]
      BY <1>2 DEF SameDrafts
    <3>1. CASE a = r /\ b = r
      BY <3>1
    <3>2. CASE a = r /\ b # r
      <4>1. draft'[b] = draft[b] /\ i \in 1..(n + 1)
        BY <1>4, <2>7, <3>2
      <4> QED
        BY <2>11, <3>2, <4>1
    <3>3. CASE a # r /\ b = r
      <4>1. draft'[a] = draft[a] /\ i \in 1..(n + 1)
        BY <1>4, <2>7, <3>3
      <4> QED
        BY <2>11, <3>3, <4>1
    <3>4. CASE a # r /\ b # r
      <4>1. draft'[a] = draft[a] /\ draft'[b] = draft[b]
        BY <1>4, <3>4
      <4> QED
        BY <4>1 DEF Told, SameDrafts
    <3> QED
      BY <3>1, <3>2, <3>3, <3>4
  <2> QED
    BY <1>5, <2>10, <2>12 DEF Told
<1> QED
  BY <1>1, <1>6, <1>7

LEMMA CallData ==
    ASSUME Lockstep, NEW p \in Prompts, Told(p), NEW r \in Ranks, Call(r)
    PROVE  Told(p)'
<1>1. /\ pc[r] = "end" /\ RankOK(r) /\ DataOK(p, r) /\ pass[r] \in {"forward", "spec"} /\ fed[r] \in 0..Len(Text)
      /\ Drawn(fed[r]) \in Nat /\ Block \in Nat
  BY TextTypes, Shards DEF Call, Lockstep, Types, Told
<1>2. /\ pc' = [pc EXCEPT ![r] = "embed"] /\ x' = [x EXCEPT ![r] = toks'[r]]
      /\ draft' = [draft EXCEPT ![r] = << >>] /\ UNCHANGED <<waiting, lay, part, logits, out, draws>>
  BY DEF Call
<1>3. \A s \in Ranks \ {r} : /\ pc'[s] = pc[s] /\ pass'[s] = pass[s] /\ fed'[s] = fed[s] /\ x'[s] = x[s]
                             /\ toks'[s] = toks[s] /\ draft'[s] = draft[s]
  BY DEF Call, Lockstep, Types
<1>4. \A s \in Ranks \ {r} : DataOK(p, s)'
  BY <1>2, <1>3, DataStays DEF Told
<1>5. pc'[r] = "embed" /\ x'[r] = toks'[r] /\ draft'[r] = << >> /\ ~waiting[r]
  BY <1>1, <1>2 DEF Lockstep, Types, RankOK, PlaceOK
<1>6. SameDrafts'
  <2> SUFFICES ASSUME NEW a \in Ranks, NEW b \in Ranks, pass'[a] = pass'[b], fed'[a] = fed'[b],
                      NEW i \in 1..Len(draft'[a]), i \in 1..Len(draft'[b])
               PROVE  draft'[a][i] = draft'[b][i]
    BY DEF SameDrafts
  <2>1. a # r /\ b # r
    BY <1>5, EmptySeq
  <2> QED
    BY <1>3, <2>1 DEF Told, SameDrafts
<1>7. CASE pass[r] = "forward"
  <2>1. /\ pass' = [pass EXCEPT ![r] = "spec"] /\ fed' = fed
        /\ toks' = [toks EXCEPT ![r] = [i \in 1..Block |-> IF i = 1 THEN out[r] ELSE NoiseToken]]
    BY <1>7 DEF Call
  <2>2. /\ pass'[r] = "spec" /\ out[r] = Following(p, fed[r])
        /\ toks'[r] = [i \in 1..Block |-> IF i = 1 THEN Following(p, fed[r]) ELSE NoiseToken]
        /\ draws[r] = Drawn(fed[r]) + 1
    BY <1>1, <1>7, <2>1 DEF DataOK, Lockstep, Types
  <2>3. DataOK(p, r)'
    BY <1>2, <1>5, <2>1, <2>2 DEF DataOK, Sampling
  <2> QED
    BY <1>4, <1>6, <2>3 DEF Told
<1>8. CASE pass[r] = "spec"
  <2>1. /\ pass' = [pass EXCEPT ![r] = "forward"] /\ fed' = [fed EXCEPT ![r] = @ + 1]
        /\ toks' = [toks EXCEPT ![r] = <<Text[fed'[r]]>>] /\ fed[r] < Len(Text)
    BY <1>8 DEF Call
  <2>2. pass'[r] = "forward" /\ fed'[r] = fed[r] + 1 /\ toks'[r] = <<Text[fed[r] + 1]>>
    BY <2>1 DEF Lockstep, Types
  <2>3. draws[r] = Drawn(fed[r] + 1)
    <3>1. PICK f : f = fed[r]
      OBVIOUS
    <3>2. f \in Nat /\ f + 1 # 0
      BY <1>1, <3>1, Shards
    <3>3. Drawn(f + 1) = f * (Block + 1) + 1
      BY <3>2 DEF Drawn
    <3>4. CASE f = 0
      BY <1>1, <1>8, <3>1, <3>3, <3>4 DEF DataOK, Sampling, Drawn
    <3>5. CASE f # 0
      <4>1. draws[r] = Drawn(f) + (Block + 1)
        BY <1>1, <1>8, <3>1, <3>5 DEF DataOK
      <4>2. PICK g \in Nat : f = g + 1
        <5>1. f - 1 \in Nat /\ f = (f - 1) + 1
          BY <3>2, <3>5
        <5> QED
          BY <5>1
      <4>3. Drawn(f) = g * (Block + 1) + 1
        BY <3>5, <4>2 DEF Drawn
      <4>4. (g + 1) * (Block + 1) = g * (Block + 1) + (Block + 1) /\ g * (Block + 1) \in Nat
        BY <1>1, <4>2
      <4> QED
        BY <1>1, <3>1, <3>3, <4>1, <4>2, <4>3, <4>4
    <3> QED
      BY <3>4, <3>5
  <2>4. toks'[r] = Fed(p, fed'[r])
    <3>1. fed[r] + 1 # 0
      BY <1>1, Shards
    <3> QED
      BY <2>2, <3>1 DEF Fed
  <2>5. Drawn(fed[r] + 1) + 0 = Drawn(fed[r] + 1)
    <3>1. fed[r] + 1 \in 0..Len(Text)
      BY <1>1, <2>1, Shards
    <3> QED
      BY <3>1, TextTypes
  <2>6. draws'[r] = Drawn(fed'[r]) + 0
    BY <1>2, <2>2, <2>3, <2>5
  <2>7. DataOK(p, r)'
    BY <1>2, <1>5, <2>2, <2>4, <2>6 DEF DataOK
  <2> QED
    BY <1>4, <1>6, <2>7 DEF Told
<1> QED
  BY <1>1, <1>7, <1>8

LEMMA InitData == Init => SameData
<1> SUFFICES ASSUME Init
             PROVE  SameData
  OBVIOUS
<1>1. PICK p \in Prompts : toks = [r \in Ranks |-> p]
  BY DEF Init
<1>2. \A r \in Ranks : /\ pc[r] = "embed" /\ pass[r] = "forward" /\ waiting[r] = FALSE /\ fed[r] = 0
                       /\ draft[r] = << >> /\ draws[r] = 0 /\ x[r] = p /\ toks[r] = p
  BY <1>1 DEF Init
<1>3. SameDrafts
  BY <1>2, EmptySeq DEF SameDrafts
<1>4. \A r \in Ranks : DataOK(p, r)
  BY <1>2 DEF DataOK, Fed, Drawn
<1> QED
  BY <1>3, <1>4 DEF SameData

LEMMA DataNext == Lockstep /\ SameData /\ [Next]_vars => SameData'
<1> SUFFICES ASSUME Lockstep, SameData, [Next]_vars
             PROVE  SameData'
  OBVIOUS
<1>1. PICK p \in Prompts : Told(p)
  BY DEF SameData, Told
<1> SUFFICES Told(p)'
  BY DEF SameData, Told
<1>2. ASSUME NEW r \in Ranks, RankStep(r)
      PROVE  Told(p)'
  BY <1>1, <1>2, EnterData, SampleData, CallData DEF RankStep
<1>3. CASE AllReduce
  BY <1>1, <1>3, AllReduceData
<1>4. CASE AllReduceBias
  BY <1>1, <1>4, BiasData
<1>5. CASE AllGather
  BY <1>1, <1>5, GatherData
<1>6. CASE UNCHANGED vars
  <2>1. UNCHANGED <<pc, waiting, pass, fed, toks, x, part, logits, out, draft, draws>>
    BY <1>6 DEF vars, place, data
  <2>2. \A s \in Ranks : DataOK(p, s)'
    BY <1>1, <2>1, DataStays DEF Told
  <2>3. SameDrafts'
    BY <1>1, <2>1 DEF Told, SameDrafts
  <2> QED
    BY <2>2, <2>3 DEF Told
<1> QED
  BY <1>2, <1>3, <1>4, <1>5, <1>6 DEF Next, Collective, Exit

-----------------------------------------------------------------------------
\* The ranks' states have their types, all are always on their way to the same
\* collective with what one rank would have there, and ranks that wait for each other
\* wait in the same operation, of the same call, layer and draft, for any number of
\* ranks (deepseek_v4_ref.py:104, 176, 424, 647, 738).
THEOREM ScheduleHolds == Spec => []ScheduleInv
<1>1. Lockstep /\ SameData => ScheduleInv
  BY LockstepSchedules
<1>2. Init => Lockstep /\ SameData
  BY InitOK, InitData
<1>3. Lockstep /\ SameData /\ [Next]_vars => (Lockstep /\ SameData)'
  BY LockstepNext, DataNext
<1> QED
  BY <1>1, <1>2, <1>3, PTL DEF Spec

\* Every rank has the hidden states and logits one rank with all weights would have
\* (deepseek_v4_ref.py:104, 176, 424, 647, 738).
THEOREM SameAsOneRankHolds == Spec => []SameAsOneRank
<1>1. ScheduleInv => SameAsOneRank
  <2> SUFFICES ASSUME ScheduleInv, NEW r \in Ranks
               PROVE  /\ \A i \in DOMAIN x[r] : x[r][i] = toks[r][i]
                      /\ pc[r] = "sample" => \A v \in Tokens : logits[r][v] = v
                      /\ pc[r] = "bias" => out[r] = draft[r][Len(draft[r])]
    BY DEF SameAsOneRank
  <2>1. PICK p : DataOK(p, r)
    BY DEF ScheduleInv, SameData
  <2>2. pc[r] = "bias" => pass[r] = "spec"
    BY DEF ScheduleInv, PlaceOK
  <2> QED
    BY <2>1, <2>2 DEF DataOK
<1> QED
  BY <1>1, ScheduleHolds, PTL

\* Ranks that have ended the same call sampled the same tokens; every rank feeds its
\* own to the next call (deepseek_v4_ref.py:946).
THEOREM RanksAgreeHolds == Spec => []RanksAgree
<1>1. ScheduleInv => RanksAgree
  <2> SUFFICES ASSUME ScheduleInv, NEW r \in Ranks, NEW s \in Ranks,
                      pc[r] = "end", pc[s] = "end", pass[r] = pass[s], fed[r] = fed[s]
               PROVE  out[r] = out[s] /\ draft[r] = draft[s]
    BY DEF RanksAgree
  <2>1. PICK p \in Prompts : DataOK(p, r) /\ DataOK(p, s)
    BY DEF ScheduleInv, SameData
  <2>2. /\ pass[r] \in {"forward", "spec"} /\ draft[r] \in Seq(Tokens) /\ draft[s] \in Seq(Tokens)
    BY DEF ScheduleInv, TypeOK
  <2>3. CASE pass[r] = "forward"
    BY <2>1, <2>3 DEF DataOK
  <2>4. CASE pass[r] = "spec" /\ fed[r] = 0
    BY <2>1, <2>4 DEF DataOK, Sampling
  <2>5. CASE pass[r] = "spec" /\ fed[r] # 0
    <3>1. /\ Len(draft[r]) = Block + 1 /\ Len(draft[s]) = Block + 1
          /\ out[r] = draft[r][Block] /\ out[s] = draft[s][Block]
      BY <2>1, <2>5 DEF DataOK
    <3>2. \A i \in 1..(Block + 1) : draft[r][i] = draft[s][i]
      BY <3>1 DEF ScheduleInv, SameData, SameDrafts
    <3>3. Block \in 1..(Block + 1)
      BY Shards
    <3>4. draft[r] = draft[s]
      <4>1. PICK a, b : a = draft[r] /\ b = draft[s]
        OBVIOUS
      <4>2. /\ a \in Seq(Tokens) /\ b \in Seq(Tokens) /\ Len(a) = Block + 1 /\ Len(b) = Block + 1
            /\ \A i \in 1..(Block + 1) : a[i] = b[i]
        BY <2>2, <3>1, <3>2, <4>1
      <4>3. a \in [1..(Block + 1) -> Tokens] /\ b \in [1..(Block + 1) -> Tokens]
        BY <4>2, LenProperties
      <4>4. a = b
        BY <4>2, <4>3
      <4> QED
        BY <4>1, <4>4
    <3> QED
      BY <3>1, <3>4
  <2> QED
    BY <2>2, <2>3, <2>4, <2>5
<1> QED
  BY <1>1, ScheduleHolds, PTL

=============================================================================
