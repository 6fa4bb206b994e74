---------------------------- MODULE MCChatServer ----------------------------
(***************************************************************************)
(* Instances of ChatServer for TLC: prompts of 1 to 3 tokens, some sharing *)
(* a prefix, over three tokens and a target that depends on the whole      *)
(* history.                                                                *)
(***************************************************************************)
EXTENDS ChatServer, TLC

MCPrompts == {(0 :> 0) @@ (1 :> 1), (0 :> 0) @@ (1 :> 0) @@ (2 :> 1), (0 :> 1)}

RECURSIVE Mix(_, _)
Mix(h, n) == IF n < 0 THEN 1 ELSE (3 * Mix(h, n - 1) + 2 * h[n] + n) % 7
MCTarget(h) == Mix(h, Size(h) - 1) % 3

=============================================================================
