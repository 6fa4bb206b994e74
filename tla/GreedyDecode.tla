---------------------------- MODULE GreedyDecode ----------------------------
(***************************************************************************)
(* What decoding promises: from the prompt, the output grows only by the   *)
(* target model's own greedy continuation, whatever was drafted, and       *)
(* stops once at least NGen tokens have been produced. One step may emit   *)
(* several tokens (a speculative round emits 1 to Block).                  *)
(***************************************************************************)
EXTENDS Integers, Sequences

CONSTANTS
    Token,
    Target(_),      \* the model's argmax token after a history [0..n -> Token]
    PS,             \* position of the last prompt token
    NGen,           \* tokens asked for
    Block           \* most tokens one step emits

VARIABLES
    prompt,         \* [0..PS -> Token]
    out,            \* the tokens generated
    stopped

greedyVars == <<prompt, out, stopped>>

\* The history the n-th output token (n \in 1..) is predicted from.
HistoryBefore(pr, o, n) ==
    [q \in 0..(PS + n - 1) |-> IF q <= PS THEN pr[q] ELSE o[q - PS]]

\* o continues the prompt pr greedily.
IsGreedy(pr, o) == \A n \in 1..Len(o) : o[n] = Target(HistoryBefore(pr, o, n))

GreedyInit ==
    /\ prompt \in [0..PS -> Token]
    /\ out = << >>
    /\ stopped = FALSE

Emit ==
    /\ ~stopped
    /\ Len(out) < NGen
    /\ \E n \in 1..Block : \E ext \in [1..n -> Token] :
         /\ out' = out \o ext
         /\ IsGreedy(prompt, out')
    /\ UNCHANGED <<prompt, stopped>>

Stop ==
    /\ ~stopped
    /\ Len(out) >= NGen
    /\ stopped' = TRUE
    /\ UNCHANGED <<prompt, out>>

GreedyNext == Emit \/ Stop

GreedySpec == GreedyInit /\ [][GreedyNext]_greedyVars

=============================================================================
