\* Coroutines that end in any order.
SPECIFICATION Spec
CONSTANTS
  a = a
  b = b
  c = c
  Co <- ThreeCo
  Main = Main
  Default = 1000
  CoLimit = 20000
  MaxFrames = 2
SYMMETRY CoSymmetry
\* The program may have ended.
CHECK_DEADLOCK FALSE
INVARIANTS StackCounts CeilingNests
