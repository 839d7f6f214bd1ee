SPECIFICATION Spec
CONSTANTS
  u1 = u1  u2 = u2   w1 = w1  w2 = w2  NoOne = NoOne
  Users = {u1,u2}
  Workers = {w1, w2}
  Conns <- OneSocketEach
  BatchSize = 1
  MaxFaults = 1
  RunsOutliveTtl = TRUE
SYMMETRY ServiceSymmetry
VIEW ServiceView
INVARIANTS
  RoomsAreUnique
  RoomsHoldTheirGroup
  NoGhostInQueue
