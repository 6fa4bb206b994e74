---------------------------- MODULE MCGenGolden ----------------------------
(***************************************************************************)
(* GenGolden on three layers, ratios 0, 2 (overlapping, indexed) and 3;    *)
(* texts that part after the first token or the third; checkpoints of one  *)
(* shard, of weights and scales apart, and of an index that names tensors  *)
(* its shard lacks.                                                        *)
(***************************************************************************)
EXTENDS GenGolden, TLC

MCRatio == [L \in 0..2 |-> IF L = 0 THEN 0 ELSE L + 1]
MCTexts == {[p \in 0..8 |-> 0], [p \in 0..8 |-> IF p < 3 THEN 0 ELSE 1], [p \in 0..8 |-> p % 2]}

Names == UNION {{Tensor(of, part) : part \in Parts(of) \cup IF of = "attn.wo_a" THEN {"scale"} ELSE {}} :
                    of \in UNION {BlockOf(L) : L \in Layers}}
Scales == {n \in Names : n.part = "scale"}
MCCheckpoints ==
    {[index |-> [n \in Names |-> "a"], shards |-> "a" :> Names],
     [index |-> [n \in Names |-> IF n \in Scales THEN "b" ELSE "a"], shards |-> "a" :> (Names \ Scales) @@ "b" :> Scales],
     [index |-> [n \in Names |-> IF n \in Scales THEN "b" ELSE "a"], shards |-> "a" :> (Names \ Scales) @@ "b" :> {}]}

=============================================================================
