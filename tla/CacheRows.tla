----------------------------- MODULE CacheRows -----------------------------
(***************************************************************************)
(* The contents of one layer's KV caches, by provenance.                   *)
(*                                                                         *)
(* A cached row is a vector of floats. What decides whether a decode is    *)
(* right is which tokens the row was computed from, so a row of win_kv or  *)
(* xin (and a hidden state on its way through the layers) is represented   *)
(* by the token history it depends on: position p, computed from the       *)
(* tokens at 0..p, is the function [0..p -> Token]. A compressed row is    *)
(* the function from the positions its group pools to their xin rows.      *)
(* Junk stands for memory never written and for a value computed from rows *)
(* of another history.                                                     *)
(***************************************************************************)
EXTENDS Integers, FiniteSets

CONSTANTS
    Token,          \* the vocabulary
    Junk,           \* see above
    Window,         \* WINDOW: width of the sliding window
    OverlapRatio    \* the compress ratio whose groups pool the previous group too (4)

ASSUME WindowAssumption == Window \in Nat \ {0}

\* The history of position q inside the history (or token buffer) h.
Prefix(h, q) == [r \in 0..q |-> h[r]]

\* Window keys of the query at position p: [max(0, p-W+1) .. p].
WinReads(p) == (IF p < Window THEN 0 ELSE p - Window + 1) .. p

\* Positions pooled into compressed row g of a layer of ratio R.
GroupToks(R, g) ==
    (IF R = OverlapRatio /\ g >= 1 THEN (g - 1) * R ELSE g * R) .. (g * R + R - 1)

\* Positions of lo..hi whose token completes a group.
Completing(lo, hi, R) == {j \in lo..hi : (j + 1) % R = 0}

\* The compressed row of group g, pooled from the attention inputs src.
GroupRow(src, R, g) == [q \in GroupToks(R, g) |-> src[q]]

\* The compressed rows c after the groups that complete in lo..hi have been
\* emitted one after the other, the first at row T: the row index advances with
\* each emit, the group index is j / ratio.
EmitRowsInPlace(c, T, src, lo, hi, R) ==
    LET last == {j \in Completing(lo, hi, R) : Completing(j + 1, hi, R) = {}}
    IN  [t \in DOMAIN c |->
            IF t = T /\ last # {} THEN GroupRow(src, R, (CHOOSE j \in last : TRUE) \div R)
            ELSE c[t]]
EmitRows(c, T, src, lo, hi, R) ==
    LET Writes(t, j) == t = T + Cardinality(Completing(lo, j - 1, R))
    IN  [t \in DOMAIN c |->
            IF \E j \in Completing(lo, hi, R) : Writes(t, j)
            THEN GroupRow(src, R, (CHOOSE j \in Completing(lo, hi, R) : Writes(t, j)) \div R)
            ELSE c[t]]

\* What compressed row g of the history h is.
DueRow(h, R, g) == [q \in GroupToks(R, g) |-> Prefix(h, q)]

\* The compressed rows a query at position p must see: the complete groups at or
\* before it (prefill's causal mask). None in a sliding layer (R = 0).
DueRows(R, p) == IF R = 0 THEN {} ELSE 0 .. ((p + 1) \div R - 1)

\* A query at position p with history h attends to the window rows w and to the
\* compressed rows ts of c: it gets what prefill would have given it iff ts is
\* the due set and every row belongs to its own history.
ReadsAgree(h, p, w, c, ts, R) ==
    /\ ts = DueRows(R, p)
    /\ \A q \in WinReads(p) : w[q] = Prefix(h, q)
    /\ \A t \in ts : c[t] = DueRow(h, R, t)

=============================================================================
