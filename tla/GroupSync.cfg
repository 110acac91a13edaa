CONSTANTS
  u1 = u1
  anon = anon
  g1 = g1
  g2 = g2
  Users = {u1, anon}
  Nameless = {anon}
  Groups = {g1, g2}
  MaxStatus = 3
  MaxFailures = 2
SPECIFICATION FairSpec
INVARIANT TypeOK
INVARIANT NoChangeMissed
INVARIANT StoredAsPublished
PROPERTY ValidGroupsArrive
