SPECIFICATION Spec
CONSTANTS
  Programs <- TwoLevels
  MaxDriver = 2
INVARIANTS FramesMatch AsIfNative
