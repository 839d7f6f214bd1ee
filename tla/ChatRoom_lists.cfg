SPECIFICATION FairSpec
CONSTANTS
  u1 = u1  u2 = u2  NoOne = NoOne
  Users = {u1, u2}
  Conns <- OneComesBack
  MaxFaults = 1
CHECK_DEADLOCK FALSE
INVARIANTS
  TypeOK
  OneSectionAtATime
  QuietRoomIsAccurate
PROPERTIES
  OnlyLeaversAreDropped
  ImplementsMemberList
  LockIsReached
  TheySeeEachOther
