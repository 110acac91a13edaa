CONSTANTS
  none = none
  t = t
  g1 = g1
  g2 = g2
  pad = pad
  both = both
  e1 = e1
  e2 = e2
  Texts <- AllTexts
  None = none
  Trim <- TrimText
  Squeeze <- TrimText
  Pieces <- PiecesOf
  Offers <- OfferedFor
  Known = {g1, g2}
  Uploads <- Uploaded
  Entries = {e1, e2}
  PriorityChoice = TRUE
SPECIFICATION Spec
INVARIANT PageTypeOK
INVARIANT ShownIsSubmitted
INVARIANT MenuIsCurrent
INVARIANT SectionsFollow
PROPERTY TagsAsSeen
PROPERTY GroupsSurvive
