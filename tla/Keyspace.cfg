SPECIFICATION Spec
CONSTANTS
  Keys = {k1, k2}
  Values = {v1, v2}
  NoValue = NoValue
  DbNum = 2
  Second = 2
  Times = {1, 4}
  Options = {"nx", "xx", "gt", "lt"}
  MaxArgs = 2
  MaxTime = 2
  Drift = 1
  MaxInt = 4
SYMMETRY Symmetry
VIEW WithoutReply
CONSTRAINT FewObjects
CHECK_DEADLOCK FALSE
INVARIANTS
  TypeOK
PROPERTIES
  KeepsPromise
