----------------------------- MODULE MCAccounts -----------------------------
(* Requests are interchangeable: any of them may be of any kind.             *)
EXTENDS Accounts, TLC

RequestSymmetry == Permutations(Requests)
=============================================================================
