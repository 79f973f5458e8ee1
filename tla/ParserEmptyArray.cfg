SPECIFICATION Spec
CONSTANTS
  Star = Star
  Dollar = Dollar
  CR = CR
  LF = LF
  Radix = 2
  MaxStrs = 1
  MaxStrLen = 2
  MaxBytes = 20
CHECK_DEADLOCK FALSE
INVARIANTS
  RequestWithinLimit
