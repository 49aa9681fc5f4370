----------------------------- MODULE MCAccounts -----------------------------
(* Instance of Accounts for TLC: calls are interchangeable. *)
EXTENDS Accounts, TLC

CallSymmetry == Permutations(Txns)
=============================================================================
