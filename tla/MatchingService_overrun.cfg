SPECIFICATION FairSpec
CONSTANTS
  u1 = u1  u2 = u2   w1 = w1  w2 = w2  NoOne = NoOne
  Users = {u1,u2}
  Workers = {w1, w2}
  Conns <- OneSocketEach
  BatchSize = 50
  MaxFaults = 0
  RunsOutliveTtl = TRUE
INVARIANT OneRunAtATime
