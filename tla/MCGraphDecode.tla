--------------------------- MODULE MCGraphDecode ---------------------------
(***************************************************************************)
(* Instances of GraphDecode for TLC: a sliding, an overlap (ratio 2) and a *)
(* strided layer of a two-token vocabulary.                                *)
(***************************************************************************)
EXTENDS GraphDecode

MCRatio == [L \in 0..2 |-> <<0, 2, 3>>[L + 1]]
WideRatio == [L \in 0..2 |-> <<0, 2, 5>>[L + 1]]

RECURSIVE Mix(_, _)
Mix(h, n) == IF n < 0 THEN 1 ELSE (3 * Mix(h, n - 1) + 2 * h[n] + n) % 7
MCTarget(h) ==
    LET n == CHOOSE m \in 0..40 : DOMAIN h = 0..m IN Mix(h, n) % 2

=============================================================================
