----------------------------- MODULE GemmaText -----------------------------
(***************************************************************************)
(* The Gemma 4 text stack as its three readings in the repository have it: *)
(* src/reference/transformers_src/modeling_gemma4.py (hf), vllm_gemma4.py  *)
(* (vllm) in the same directory, and src/scripts/ref_forward.py (numpy).   *)
(*                                                                         *)
(* This module holds the configuration, the sharing of key-value states    *)
(* between layers, and what a decoder layer computes as a term over its    *)
(* inputs: which weight and which norm is applied to what, in what order.  *)
(***************************************************************************)
EXTENDS Integers, Sequences, FiniteSets

CONSTANTS
    NLayers,    \* num_hidden_layers
    Full,       \* layers of layer_types "full_attention"; the others slide
    NShared,    \* num_kv_shared_layers
    Window,     \* sliding_window
    Junk

Layers == 0..(NLayers - 1)
TypeOf(L) == IF L \in Full THEN "full" ELSE "sliding"
FirstShared == NLayers - NShared
IsShared(L) == L >= FirstShared

ASSUME GemmaAssumption ==
    /\ NLayers \in Nat \ {0} /\ Window \in Nat \ {0} /\ Full \subseteq Layers
    /\ NShared \in 0..(NLayers - 1)
    /\ \A L \in Layers : \E K \in 0..(FirstShared - 1) : TypeOf(K) = TypeOf(L)

\* The layers before the shared ones that have L's type; the last of them keeps the
\* key-value states the shared layers use.
Peers(L) == {K \in 0..(FirstShared - 1) : TypeOf(K) = TypeOf(L)}
FirstPeer(L) == CHOOSE K \in Peers(L) : \A J \in Peers(L) : K <= J
HfTarget(L) == CHOOSE K \in Peers(L) : \A J \in Peers(L) : J <= K
VllmTarget(L) == CHOOSE K \in Peers(L) : \A J \in (K + 1)..(FirstShared - 1) : TypeOf(J) # TypeOf(L)

\* The layer whose keys and values layer L is due to use.
KeyLayer(L) == IF IsShared(L) THEN HfTarget(L) ELSE L

\* The rows of the text before p that a query at p reads.
InReach(L, p, q) == q <= p /\ (L \in Full \/ p - q < Window)

-----------------------------------------------------------------------------
\* Terms: a node and its arguments. Sums and products do not depend on their order.
Weight(w) == <<"weight", w>>
Sum(a, b) == <<"sum", {a, b}>>
Product(s) == <<"product", s>>
Norm(w, t) == <<"norm", w, t>>
PlainNorm(t) == Norm("", t)
Linear(w, t) == <<"linear", w, t>>
Rope(t) == <<"rope", t>>
Softmax(t) == <<"softmax", t>>
Attention(q, k, v) == <<"attention", q, k, v>>
Gated(g, u) == Product({<<"gelu", g>>, u})
Mlp(t) == Linear("down_proj", Gated(Linear("gate_proj", t), Linear("up_proj", t)))

\* The experts a router picks: a softmax keeps the order of the scores.
TopOf(t) == <<"top", IF t[1] = "softmax" THEN t[2] ELSE t>>
Chosen(p, top) == <<"chosen", p, top>>
Normalised(c) == <<"normalised", c>>
PerExpert(w, top) == Product({w, <<"per_expert_scale", top>>})
Experts(t, w) == <<"experts", t, w>>

\* A configuration: moe (enable_moe_block), ple (hidden_size_per_layer_input # 0),
\* keqv (attention_k_eq_v), and prenormed (router_uses_prenormed_input), which only vllm
\* reads. The inputs of a layer are h and its per-layer input e.

\* hf: Gemma4TextAttention, Gemma4TextRouter, Gemma4TextDecoderLayer.
HfKey(L, t) == Rope(Norm("k_norm", Linear("k_proj", t)))
HfValue(c, L, t) == PlainNorm(Linear(IF c.keqv /\ L \in Full THEN "k_proj" ELSE "v_proj", t))
HfAttention(c, L, t) ==
    LET q == Rope(Norm("q_norm", Linear("q_proj", t)))
    IN  Linear("o_proj", IF IsShared(L) THEN Attention(q, <<"key", HfTarget(L)>>, <<"value", HfTarget(L)>>)
                         ELSE Attention(q, HfKey(L, t), HfValue(c, L, t)))
HfRoute(t) ==
    LET p == Softmax(Linear("router", Product({PlainNorm(t), Weight("scale"), Weight("root")})))
    IN  PerExpert(Normalised(Chosen(p, TopOf(p))), TopOf(p))
HfLayer(c, L, h, e) ==
    LET a == Sum(h, Norm("post_attention", HfAttention(c, L, Norm("input", h))))
        m == Mlp(Norm("pre_feedforward", a))
        both == Sum(Norm("post_feedforward_1", m),
                    Norm("post_feedforward_2", Experts(Norm("pre_feedforward_2", a), HfRoute(a))))
        b == Sum(a, Norm("post_feedforward", IF c.moe THEN both ELSE m))
        gate == <<"gelu", Linear("per_layer_input_gate", b)>>
    IN  Product({Weight("layer_scalar"),
                 IF c.ple THEN Sum(b, Norm("post_per_layer_input", Linear("per_layer_projection", Product({gate, e}))))
                 ELSE b})

\* vllm: Gemma4Attention, Gemma4Router, gemma4_routing_function_torch,
\* Gemma4DecoderLayer. The weights are the slots of the stacked parameters.
VllmAttention(c, L, t) ==
    LET q == Rope(Norm("q_norm", Linear("q_proj", t)))
        v == Linear(IF c.keqv /\ L \in Full THEN "k_proj" ELSE "v_proj", t)
    IN  Linear("o_proj", IF IsShared(L) THEN Attention(q, <<"key", VllmTarget(L)>>, <<"value", VllmTarget(L)>>)
                         ELSE Attention(q, Rope(Norm("k_norm", Linear("k_proj", t))), PlainNorm(v)))
VllmRouterLogits(t) == Linear("router", Product({PlainNorm(t), Weight("root"), Weight("scale")}))
VllmRoute(g) == PerExpert(Normalised(Chosen(Softmax(g), TopOf(g))), TopOf(g))
RouterInputPrenormed(c, residual, normed) == normed
RouterInput(c, residual, normed) == IF c.prenormed THEN normed ELSE residual
VllmLayer(c, L, h, e) ==
    LET a == Sum(Norm("post_attention", VllmAttention(c, L, Norm("input", h))), h)
        m == Mlp(Norm("pre_feedforward", a))
        pre == Norm("pre_feedforward_2", a)
        routed == Experts(pre, VllmRoute(VllmRouterLogits(RouterInput(c, a, pre))))
        f == IF c.moe THEN Sum(Norm("post_feedforward_1", m), Norm("post_feedforward_2", routed)) ELSE m
        b == Sum(Norm("post_feedforward", f), a)
        gated == Product({<<"gelu", Linear("per_layer_input_gate", b)>>, e})
    IN  Product({IF c.ple THEN Sum(b, Norm("post_per_layer_input", Linear("per_layer_projection", gated))) ELSE b,
                 Weight("layer_scalar")})

\* numpy: attention, dense_mlp, router, experts, decoder_layer of the 26B model,
\* which has experts, no per-layer inputs, no shared layers and keys as values in
\* its full layers.
NumpyAttention(L, t) ==
    LET q == Norm("q_norm", Linear("q_proj", t))
        kp == Linear("k_proj", t)
        v == PlainNorm(IF L \in Full THEN kp ELSE Linear("v_proj", t))
    IN  Linear("o_proj", Attention(Rope(q), Rope(Norm("k_norm", kp)), v))
NumpyRouter(t) ==
    LET probs == Softmax(Linear("router", Product({PlainNorm(t), Weight("scale"), Weight("root")})))
    IN  PerExpert(Normalised(Chosen(probs, TopOf(probs))), TopOf(probs))
NumpyLayer(L, h) ==
    LET a == Sum(h, Norm("post_attention", NumpyAttention(L, Norm("input", h))))
        hs1 == Norm("post_feedforward_1", Mlp(Norm("pre_feedforward", a)))
        hs2 == Norm("post_feedforward_2", Experts(Norm("pre_feedforward_2", a), NumpyRouter(a)))
    IN  Product({Sum(a, Norm("post_feedforward", Sum(hs1, hs2))), Weight("layer_scalar")})

=============================================================================
