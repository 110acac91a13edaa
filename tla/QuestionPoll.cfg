CONSTANTS
  u1 = u1
  u2 = u2
  e1 = e1
  e2 = e2
  f1 = f1
  bad = bad
  g1 = g1
  gone = gone
  Users = {u1, u2}
  Entries = {e1, e2, f1, bad}
  BadEntries = {bad}
  Titles <- MCTitles
  TitleOf <- MCTitleOf
  Groups = {g1, gone}
  Known = {g1}
SPECIFICATION Spec
INVARIANT TypeOK
INVARIANT PollIsSound
INVARIANT OneBallotPerUser
INVARIANT SavedAsCast
PROPERTY FirstBallotStands
SYMMETRY UserSymmetry
