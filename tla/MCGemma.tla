------------------------------ MODULE MCGemma ------------------------------
(***************************************************************************)
(* Gemma on eight layers, two of them shared, whose targets are on the     *)
(* second of two ranks; a window of two.                                   *)
(***************************************************************************)
EXTENDS Gemma, FiniteSetsExt

MCFull == {1, 5, 7}
MCReqs == {"r1", "r2"}

\* An image of w by h patches and a clip of v mel frames, padded to n.
Image(w, h, n) == [i \in 1..n |-> IF i <= w * h THEN <<(i - 1) % w, (i - 1) \div w>> ELSE PaddingPatch]
Mel(v, n) == [t \in 1..n |-> t <= v]

\* Texts that begin and end with an image, that are longer than the window, that have
\* two images side by side or apart, frames of video, and clips of audio of which one
\* takes three chunks; images padded to what cannot be pooled.
T == "text"
I == "image"
A == "audio"
V == "video"
Clips(i, a) == [m \in Media |-> CASE m = I -> i [] m = A -> a [] m = V -> << >>]
Asks ==
    {<<<<T, T>>, Clips(<< >>, << >>)>>,
     <<<<T, T, T, T>>, Clips(<< >>, << >>)>>,
     <<<<I, I, T, I>>, Clips(<<Image(4, 2, 8), Image(2, 2, 8)>>, << >>)>>,
     <<<<T, I, I, I, T>>, Clips(<<Image(2, 6, 12)>>, << >>)>>,
     <<<<I, I, I, I, T>>, Clips(<<Image(4, 4, 16)>>, << >>)>>,
     <<<<I, T, A, A, I>>, Clips(<<Image(2, 2, 8), Image(2, 2, 8)>>, <<Mel(7, 8)>>)>>,
     <<<<A, T, A>>, Clips(<< >>, <<Mel(3, 8), Mel(1, 8)>>)>>,
     <<<<T, A, A, A, A, A, T>>, Clips(<< >>, <<Mel(18, 24)>>)>>,
     <<<<V, T, V>>, [Clips(<< >>, << >>) EXCEPT ![V] = <<Image(2, 2, 4), Image(2, 2, 4)>>]>>,
     <<<<T, I>>, Clips(<<Image(4, 2, 8)>>, << >>)>>,
     <<<<T, I, I>>, Clips(<<Image(2, 2, 8)>>, << >>)>>,
     <<<<T, I>>, Clips(<<Image(2, 2, 6)>>, << >>)>>,
     <<<<T, I, I>>, Clips(<<Image(2, 2, 10), Image(2, 2, 10)>>, << >>)>>,
     <<<<V, T>>, [Clips(<< >>, << >>) EXCEPT ![V] = <<Image(2, 2, 7)>>]>>,
     <<<<T, I, T>>, Clips(<< >>, << >>)>>}
MCInputs ==
    {[prompt |-> a[1], clips |-> a[2], bidirectional |-> b, ple |-> p, byEmbeds |-> e, padIsZero |-> z] :
        a \in Asks, b \in BOOLEAN, p \in BOOLEAN, e \in BOOLEAN, z \in BOOLEAN}

\* Every configuration on one rank, also with fast prefill, and those without per-layer
\* inputs on two.
Configs(ple, fast, ranks) ==
    {[moe |-> m, ple |-> ple, keqv |-> k, packed |-> m /\ p, prenormed |-> m /\ n, fast |-> fast, ranks |-> ranks] :
        m \in BOOLEAN, k \in BOOLEAN, p \in BOOLEAN, n \in BOOLEAN}
MCSetups ==
    Configs(FALSE, FALSE, 1) \cup Configs(TRUE, FALSE, 1) \cup Configs(TRUE, TRUE, 1) \cup Configs(FALSE, FALSE, 2)
PipelineSetups == Configs(TRUE, FALSE, 2)

\* The checkpoint's tensors in one order and its reverse.
Listed(S) == FoldSet(LAMBDA n, names : Append(names, n), << >>, S)
MCOrders == {[c \in Setups |-> Listed(Checkpoint(c))], [c \in Setups |-> Reverse(Listed(Checkpoint(c)))]}

=============================================================================
