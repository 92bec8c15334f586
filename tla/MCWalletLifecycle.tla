-------------------------- MODULE MCWalletLifecycle --------------------------
(* Small instances of WalletLifecycle for TLC. *)
EXTENDS WalletLifecycle, TLC

CONSTANTS w1, w2, w3, c1

\* Instances and the signers named after them are interchangeable.
Instances == Permutations({w1, w2, w3})
=============================================================================
