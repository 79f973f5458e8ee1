SPECIFICATION Spec
CONSTANTS
  Radix = 2
  MaxInt = 3
  Keys = {k1, k2}
  DbNum = 2
  MaxIndex = 1
  Inputs <- MCInputs
  Indexes <- MCIndexes
  Pairs <- MCPairs
  MaxText = 3
  MaxArgs = 2
SYMMETRY Symmetry
VIEW WithoutReply
CONSTRAINT FewObjects
CHECK_DEADLOCK FALSE
INVARIANTS TypeOK
PROPERTIES
  EncodingIsInvisible
  RepliesAreWhole
  SizesAgree
  DownOnlyByStrayRead
