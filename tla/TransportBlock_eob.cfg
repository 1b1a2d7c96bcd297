SPECIFICATION Spec
CONSTANTS
  Bws = {1, 3}
  Mcss = {0, 28, 31}
  MaxNof = 3
  PssLen = 62
INVARIANTS
  SameSubframeNumber
CHECK_DEADLOCK FALSE
