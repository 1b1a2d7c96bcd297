SPECIFICATION Spec
CONSTANTS
  Bws = {1}
  Mcss = {0, 28}
  Lens = {1, 2, 3, 4}
  Dsts = {0}
  TbSize <- MCTbSize
  MaxTbs = 3
  InitialSf = 5
  EobPss = TRUE
  Filtering = TRUE
  Lbt = FALSE
  MaxDropped = 2
PROPERTY SuccessTransmitted
CHECK_DEADLOCK FALSE
