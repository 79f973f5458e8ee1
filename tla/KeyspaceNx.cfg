SPECIFICATION Spec
CONSTANTS
  Keys = {k1}
  Values = {v1}
  NoValue = NoValue
  DbNum = 1
  Second = 2
  Times = {0, 1, 3}
  Options = {"nx"}
  MaxArgs = 2
  MaxTime = 3
  Drift = 1
  MaxInt = 100
CHECK_DEADLOCK FALSE
PROPERTIES
  NxKeepsExpiry
