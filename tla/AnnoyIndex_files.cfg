SPECIFICATION FairSpec
CONSTANTS
  Users = {1, 2, 3}
  MaxCrashes = 1
INVARIANTS
  TypeOK
  SettledFilesAgree
  CalmRunsReadOneIndex
  MappedUsersHaveItems
PROPERTIES
  LikedUsersGetIndexed
