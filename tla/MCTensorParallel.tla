-------------------------- MODULE MCTensorParallel --------------------------
(***************************************************************************)
(* Two ranks, four tokens whose experts live on one rank, on both, or on   *)
(* none but the other; two layers, the second with an indexer.             *)
(***************************************************************************)
EXTENDS TensorParallel
MCRoute == [t \in 0..3 |-> CASE t = 0 -> {0, 1} [] t = 1 -> {1, 2} [] t = 2 -> {2, 3} [] OTHER -> {0, 3}]
MCPrompts == {<<a, b>> : a \in 0..3, b \in 0..3}
MCText == <<0, 3>>
=============================================================================
