SPECIFICATION FairSpec
CONSTANTS
  u1 = u1  u2 = u2  u3 = u3  u4 = u4  u5 = u5
  Users = {u1, u2, u3, u4, u5}
  BatchSize = 3
  TopK = 2
  Torn = TRUE
INVARIANTS
  TypeOK
  NobodyTwice
  NewUsersOnlyInLeftover
  ResultIsAnOutcome
PROPERTIES
  NobodyLost
  ImplementsGrouping
  Termination
