SPECIFICATION Spec
CONSTANTS
  NoOne = NoOne
  Requests = {r1, r2, r3, r4, r5}
  Countries = {fr}
  MaxFaults = 1
SYMMETRY RequestSymmetry
CHECK_DEADLOCK FALSE
INVARIANTS
  TypeOK
  SavesAreKept
  VerificationIsKept
  LinkSetsOnePassword
  FlagIsRight
