\* Every import graph; each may be compiled, p::q may be missing.
SPECIFICATION FairSpec
CONSTANTS
  p = p
  pq = pq
  q = q
  init = init
  NoMod = NoMod
  Mod <- Modules
  Parent <- InPackage
  Packages <- OnTheWay
  Name <- Names
  Wants <- OthersOf
  Finds <- SomeFiles
  MaxCalls = 6
INVARIANTS StackIsRunning NoFalseCycle Registered
PROPERTIES RunOnce NeverHalfRun ImportEnds
