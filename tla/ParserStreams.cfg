SPECIFICATION Spec
CONSTANTS
  Star = Star
  Dollar = Dollar
  CR = CR
  LF = LF
  Radix = 2
  MaxStrs = 2
  MaxStrLen = 2
  MaxBytes = 22
CHECK_DEADLOCK FALSE
INVARIANTS
  TypeOK
  HandledWithinLimits
  ParsesAsAWhole
  RefusesOnlyBadStreams
