CONSTANTS
  u1 = u1
  u2 = u2
  e1 = e1
  e2 = e2
  Users = {u1, u2}
  Entries = {e1, e2}
  Listed = {e1}
  SingleChoice = TRUE
  PriorityChoice = FALSE
  OpenForOwnEntries = TRUE
SPECIFICATION Spec
INVARIANT TypeOK
INVARIANT CountersExact
INVARIANT OneYesPerUser
INVARIANT RecastIsNoop
INVARIANT CastsCommute
PROPERTY FrozenAfterEnd
SYMMETRY UserSymmetry
