\* A client that resumes the program only when it has seen it stop.
SPECIFICATION FairSpec
CONSTANTS
  Line <- OneLine
  NoLine = 0
  MaxDepth = 2
  MaxQueue = 2
\* The session ends: the client disconnects and the IO thread leaves its loop.
CHECK_DEADLOCK FALSE
INVARIANTS StopIsReal BlocksWhenPaused
PROPERTIES StepKept PauseHonoured
