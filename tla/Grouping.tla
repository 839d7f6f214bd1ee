------------------------------ MODULE Grouping ------------------------------
(***************************************************************************)
(* What one matching run promises about the users it was given: rooms are  *)
(* filled one after the other, each from users who still wait, nobody is   *)
(* placed twice, no room holds more than four, and a room of fewer than    *)
(* three can only be the last one formed.                                  *)
(* GroupFormation implements this specification.                           *)
(***************************************************************************)
EXTENDS RoomSizes

CONSTANT Users

VARIABLES waiting,   \* users who can still be placed
          formed     \* the set of groups formed so far

vars == <<waiting, formed>>

Init == /\ waiting \in SUBSET Users
        /\ formed = {}

Form(g) == /\ g # {}
           /\ Cardinality(g) <= MaxRoom
           /\ \A h \in formed : Cardinality(h) >= MinRoom
           /\ waiting' = waiting \ g
           /\ formed' = formed \cup {g}

Next == \E g \in SUBSET waiting : Form(g)

Spec == Init /\ [][Next]_vars
=============================================================================
