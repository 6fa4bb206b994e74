------------------------------- MODULE Gemma -------------------------------
(***************************************************************************)
(* The two engines the repository keeps the Gemma 4 sources of, on one     *)
(* configuration of the text model: GemmaHf generates with                 *)
(* modeling_gemma4.py, GemmaVllm serves with vllm_gemma4.py. A behaviour   *)
(* is one of either, as the engines share nothing but the configuration;   *)
(* SameLayer relates what their layers compute.                            *)
(***************************************************************************)
EXTENDS GemmaHf, GemmaVllm

VARIABLE engine
vars == <<engine, hfVars, vllmVars>>

\* The engine that is not run stays at the initial state of some input.
NoAsk == CHOOSE i \in Inputs : TRUE
NoSetup == CHOOSE c \in Setups : TRUE
Init ==
    \/ engine = "hf" /\ HfInit
       /\ setup = NoSetup /\ unread = << >> /\ slots = [k \in 0..1 |-> << >>] /\ VllmRest
    \/ engine = "vllm" /\ VllmInit /\ ask = NoAsk /\ kinds = NoAsk.prompt /\ HfRest
Next ==
    \/ engine = "hf" /\ HfNext /\ UNCHANGED <<engine, vllmVars>>
    \/ engine = "vllm" /\ VllmNext /\ UNCHANGED <<engine, hfVars>>
Spec == Init /\ [][Next]_vars

-----------------------------------------------------------------------------
TypeOK == HfTypeOK /\ engine \in {"hf", "vllm"} /\ DOMAIN slots = 0..1

\* The vLLM model's weights are where its layers look for them.
WeightsRight == engine = "vllm" => LoadedRight

\* Its logits come of right rows, and its caches hold right rows only.
ServedRight == CachedRowsRight /\ LogitRowsRight

\* A decoder layer of vllm_gemma4.py computes what the layer of modeling_gemma4.py does,
\* with the router on the unnormed residual, the same norms around every branch and the
\* key-value states of the same layer, unless router_uses_prenormed_input is set, which
\* modeling_gemma4.py does not know: then, where there are experts, it does not. For the
\* layers ref_forward.py knows so does its own (vllm 634-638, 701-762, hf 1409-1456,
\* numpy 182-229).
SameLayer ==
    LET h == <<"hidden_states">>
        e == <<"per_layer_input">>
    IN  \A L \in Layers :
          /\ (HfLayer(setup, L, h, e) = VllmLayer(setup, L, h, e)) <=> ~(setup.moe /\ setup.prenormed)
          /\ setup.moe /\ setup.keqv /\ ~setup.ple /\ ~IsShared(L) => NumpyLayer(L, h) = HfLayer(setup, L, h, e)

\* Both engines' states have their types: caches of sliding layers forget, shared layers
\* have none; and a served layer has its own weights in the slots its forward reads
\* (modeling_gemma4.py:1249-1271, vllm_gemma4.py:1367-1506, 1621-1724).
GemmaInv == TypeOK /\ WeightsRight

=============================================================================
