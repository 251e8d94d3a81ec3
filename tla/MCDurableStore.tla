--------------------------- MODULE MCDurableStore ---------------------------
(* Instances of DurableStore for TLC. *)
EXTENDS DurableStore, TLC

CONSTANTS c1, c2

CoinSymmetry == Permutations(Coin)
=============================================================================
