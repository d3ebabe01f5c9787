SPECIFICATION Spec
CONSTANTS
  Wraps = {0, 1, 2, 3}
  Programs <- MCPrograms
INVARIANTS
  Verified
  InsideBody
PROPERTY Agrees
