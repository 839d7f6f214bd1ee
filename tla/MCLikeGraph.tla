---------------------------- MODULE MCLikeGraph ----------------------------
(* Requests are interchangeable: any of them may be a like or an unlike.     *)
EXTENDS LikeGraph, TLC

RequestSymmetry == Permutations(Requests)
=============================================================================
