SPECIFICATION Spec
CONSTANTS
  NoOne = NoOne
  Users = {1, 2, 3}
  Requests = {r1, r2, r3, r4}
SYMMETRY RequestSymmetry
INVARIANTS
  TypeOK
  NoMoreThanLiked
  ExactUnlessOverlapped
  GraphMatchesRows
