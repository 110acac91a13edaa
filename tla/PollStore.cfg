CONSTANTS
  u1 = u1
  u2 = u2
  l1 = l1
  l2 = l2
  e1 = e1
  e2 = e2
  g1 = g1
  i1 = i1
  i2 = i2
  i3 = i3
  Users = {u1, u2}
  Links = {l1, l2}
  Slots = {e1, e2}
  Dtos <- MCDtos
  Groups = {g1}
  NewIds = {i1, i2, i3}
SPECIFICATION Spec
INVARIANT TypeOK
INVARIANT PollAsConfirmed
INVARIANT AccessAsPublished
SYMMETRY MCSymmetry
