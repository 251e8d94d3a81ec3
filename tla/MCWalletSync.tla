---------------------------- MODULE MCWalletSync ----------------------------
(* Instances of WalletSync for TLC. *)
EXTENDS WalletSync, TLC

CONSTANTS c1, c2, t1, t2

TaskSymmetry == Permutations(Task)
=============================================================================
