---------------------------- MODULE MCMoeForward ----------------------------
(***************************************************************************)
(* Modes of MoeForward for TLC: those of a process that repacks in place   *)
(* and those of one that keeps the original layout.                        *)
(***************************************************************************)
EXTENDS MoeForward

M(group, gemm) == [group |-> group, gemm |-> gemm]
AllModes == {M("grouped", "mma"), M("token", "pp"), M("device", "pp"),
             M("host", "fp4"), M("device", "fp4"), M("token", "fp4"),
             M("token", "tc"), M("host", "tc"), M("grouped", "gemv")}

=============================================================================
