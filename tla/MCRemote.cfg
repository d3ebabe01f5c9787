\* A program and a task call, and so do callbacks; the child may stop.
SPECIFICATION FairSpec
CONSTANTS
  main = main
  task = task
  c1 = c1
  c2 = c2
  c3 = c3
  Thread <- ProgramAndTask
  Request <- ThreeCalls
  MaxSignals = 2
\* All calls are made and answered, or the child has ended.
CHECK_DEADLOCK FALSE
INVARIANTS SoleAnswersMatch SignalsFirst OneAnswerEach
PROPERTY CallsReturn
