SPECIFICATION Spec
CONSTANTS
  Bws = {1, 3}
  Mcss = {0, 28, 31}
  Lens = {1, 2, 3, 5, 6, 8, 9, 10}
  Dsts = {0, 1}
  TbSize <- MCTbSize
  MaxTbs = 3
  InitialSf = 5
  EobPss = TRUE
  Filtering = TRUE
  Lbt = TRUE
  MaxDropped = 2
INVARIANTS
  TypeOK
  SignalMatchesBurst
  AllocationMatches
  DataCovered
CHECK_DEADLOCK FALSE
