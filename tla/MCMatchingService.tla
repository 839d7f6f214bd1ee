------------------------- MODULE MCMatchingService -------------------------
(* The sockets of the runs, and the symmetry of users and workers and the    *)
(* view of the state where no liveness is checked.                           *)
EXTENDS MatchingService, TLC

CONSTANTS u1, u2

OneSocketEach == {<<u, 1>> : u \in Users}
TwoTabsForOne == {<<u1, 2>>} \cup OneSocketEach

ServiceSymmetry == Permutations(Users) \cup Permutations(Workers)
TabsSymmetry    == Permutations(Users \ {u1}) \cup Permutations(Workers)

\* Without missed and shared: no step reads them, nor an invariant of the run that
\* takes this view.
ServiceView == <<queue, lock, lastRoomId, indexReady, connVars, workerVars, faults,
                 rooms, dropped>>
=============================================================================
