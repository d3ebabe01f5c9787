SPECIFICATION Spec
CONSTANTS
  s = s
  m = m
  v = v
  Runs = {s, m, v}
  Mode <- MCMode
  a = a
  b = b
  broken = broken
  Texts <- MCTexts
  Broken <- MCBroken
  MaxVersions = 2
SYMMETRY MCSymmetry
INVARIANTS RunsSource WholeFiles AnswerIsCurrent
