---------------------------- MODULE MCAnnoyIndex ----------------------------
(* Three users, who have the ids of the dummy likes: likes may come to name  *)
(* a third one, and may be deleted down to two or none.                      *)
EXTENDS AnnoyIndex
=============================================================================
