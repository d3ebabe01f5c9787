\* The same: whose answer does a call return?
SPECIFICATION Spec
CONSTANTS
  main = main
  task = task
  c1 = c1
  c2 = c2
  c3 = c3
  Thread <- ProgramAndTask
  Request <- ThreeCalls
  MaxSignals = 2
CHECK_DEADLOCK FALSE
INVARIANT AnswersMatch
