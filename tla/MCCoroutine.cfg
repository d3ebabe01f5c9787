\* Two coroutines, one value and None, programs that never resume an active
\* coroutine.
SPECIFICATION FairSpec
CONSTANTS
  a = a
  b = b
  c3 = c3
  v = v
  Main = Main
  Nil = Nil
  NoCo = NoCo
  Nobody = Nobody
  Co <- TwoCo
  Value <- OneValue
  Reentrant = FALSE
INVARIANTS TypeOK OneOwner ControlKept SignalsMatch DelegationRelays
PROPERTIES AbsSpec FinishedForEver HandOversArrive
