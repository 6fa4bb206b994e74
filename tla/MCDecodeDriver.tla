--------------------------- MODULE MCDecodeDriver ---------------------------
(***************************************************************************)
(* Instances of DecodeDriver for TLC: a sliding layer, an overlap layer    *)
(* (ratio 2) and a strided one (ratio 3) of a two-token vocabulary.        *)
(***************************************************************************)
EXTENDS DecodeDriver

MCRatio == [L \in 0..2 |-> <<0, 2, 3>>[L + 1]]

\* A target whose choice depends on the whole history.
RECURSIVE Mix(_, _)
Mix(h, n) == IF n < 0 THEN 1 ELSE (3 * Mix(h, n - 1) + 2 * h[n] + n) % 7
MCTarget(h) ==
    LET n == CHOOSE m \in 0..40 : DOMAIN h = 0..m IN Mix(h, n) % 2

=============================================================================
