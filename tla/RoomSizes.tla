----------------------------- MODULE RoomSizes -----------------------------
(***************************************************************************)
(* The groups one matching run can return (run_batch_matching in            *)
(* matching/matching.py), as a set of sets of users: what GroupFormation    *)
(* shows of a run and MatchingService takes a run to do.                   *)
(***************************************************************************)
EXTENDS Integers, FiniteSets

MinRoom == 3
MaxRoom == 4

\* The ways to place all users of S: rooms of at most four, nobody twice, at
\* most one room of fewer than three.
Outcomes(S) ==
  {P \in SUBSET {g \in SUBSET S : Cardinality(g) \in 1..MaxRoom} :
      /\ UNION P = S
      /\ \A g, h \in P : g # h => g \cap h = {}
      /\ \A g, h \in P : g # h => \/ Cardinality(g) >= MinRoom
                                  \/ Cardinality(h) >= MinRoom}

\* Whom of the users S a run with an index can place: everybody, or at least as
\* many as a whole batch.
Placeable(S, batch) == {T \in SUBSET S : T = S \/ Cardinality(T) >= batch}
=============================================================================
