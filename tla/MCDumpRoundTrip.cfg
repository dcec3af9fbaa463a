SPECIFICATION DumpSpec
CONSTANTS
  Key = {a, b}
  NoKey = NoKey
  MaxDepth = 3
  FastParts = 1
  MaxNodes = 5
INVARIANTS DocumentSound OpenPath SameDocument
PROPERTIES LoadEnds
CHECK_DEADLOCK FALSE
