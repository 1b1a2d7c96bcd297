SPECIFICATION Spec
CONSTANTS
  CompFreqs = {0, 1, 2}
  CompBws = {10, 20}
  Chans = {1}
  BwIdxs = {1, 2}
  Gains = {1, 2}
  Failures = {"err", "off", "front", "bw"}
INVARIANT EnvNotForgotten
CHECK_DEADLOCK FALSE
