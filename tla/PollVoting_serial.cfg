CONSTANTS
  u1 = u1
  u2 = u2
  e1 = e1
  e2 = e2
  t1 = t1
  t2 = t2
  Users = {u1, u2}
  Entries = {e1, e2}
  Threads = {t1}
  Creator = u1
  Members = {u2}
  SingleChoice = FALSE
  PriorityChoice = TRUE
  OpenForOwnEntries = FALSE
  Open = FALSE
  Events = {}
  MaxRequests = 3
SPECIFICATION Spec
INVARIANT TypeOK
INVARIANT ShownIsStored
PROPERTY BallotBoxSpec
