CONSTANTS
  s1 = s1
  bad = bad
  a1 = a1
  a2 = a2
  empty = empty
  g1 = g1
  gone = gone
  blank = blank
  Slots = {s1, bad}
  BadSlots = {bad}
  Tags = {g1, gone, blank}
  Blank = blank
  Known = {g1}
  Answers = {a1, a2, empty}
  BadAnswers = {empty}
SPECIFICATION WebSpec
INVARIANT TypeOK
INVARIANT SavedIsValid
INVARIANT WizardConfirmsValid
INVARIANT QuestionTypeOK
INVARIANT QuestionConfirmsValid
