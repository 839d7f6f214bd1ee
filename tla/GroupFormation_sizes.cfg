SPECIFICATION FairSpec
CONSTANTS
  u1 = u1  u2 = u2  u3 = u3  u4 = u4  u5 = u5
  Users = {u1, u2, u3, u4, u5}
  BatchSize = 5
  TopK = 5
  Torn = FALSE
INVARIANT
  EveryRoomHasThreeOrFour
