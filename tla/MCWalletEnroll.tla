--------------------------- MODULE MCWalletEnroll ---------------------------
(* Instances of WalletEnroll for TLC: two runs of the wallet on an account  *)
(* with enough for one enrollment, for its lock only, or for two locks.     *)
(* The runs are interchangeable.                                            *)
EXTENDS WalletEnroll, TLC

RunSymmetry == Permutations(Run)
=============================================================================
