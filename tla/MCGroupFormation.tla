-------------------------- MODULE MCGroupFormation --------------------------
(* Five users, a batch of three and three neighbours: leftover groups of     *)
(* every size, full and starved batches, and torn indexes all occur.         *)
EXTENDS GroupFormation, TLC

UserSymmetry == Permutations(Users)
=============================================================================
