SPECIFICATION Spec
CONSTANTS
  Bws <- MCBws
  Mcss <- MCMcss
  MaxNof = 3
  PssLen = 62
INVARIANTS
  TypeOK
  Delivered
  PiecesMatch
CHECK_DEADLOCK FALSE
