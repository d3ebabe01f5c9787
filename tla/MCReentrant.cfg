\* Three interchangeable coroutines, None as the only value, programs that may
\* resume an active coroutine: such a program does stop, for ever.
SPECIFICATION Spec
CONSTANTS
  a = a
  b = b
  c3 = c3
  v = v
  Main = Main
  Nil = Nil
  NoCo = NoCo
  Nobody = Nobody
  Co <- ThreeCo
  Value <- NoValue
  Reentrant = TRUE
INVARIANTS LostOnlyByReentry
SYMMETRY CoSymmetry
CHECK_DEADLOCK FALSE
