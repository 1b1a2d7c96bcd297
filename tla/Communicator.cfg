SPECIFICATION FairSpec
CONSTANTS
  Targets <- MCTargets
  Mac = "MAC"
  Env = "ENV"
  Hwm = 1
  Trials = 2
  Quotas <- MCQuotas
INVARIANTS
  TypeOK
  MessagesInOrder
  EnvPrompt
  EnvCurrent
PROPERTIES
  MessagesLeave
  ShutdownEnds
CHECK_DEADLOCK FALSE
