SPECIFICATION Spec
CONSTANTS
  u1 = u1  u2 = u2  u3 = u3 w1 = w1  w2 = w2  NoOne = NoOne
  Users = {u1,u2,u3}
  Workers = {w1, w2}
  Conns <- TwoTabsForOne
  BatchSize = 50
  MaxFaults = 0
  RunsOutliveTtl = FALSE
SYMMETRY TabsSymmetry
INVARIANTS
  NoGhostInQueue
  OneRoomPerSocket
  OnlyRacesStrand
