SPECIFICATION TripSpec
CONSTANTS
  Key = {a, b}
  NoKey = NoKey
  MaxDepth = 3
  FastParts = 2
  MaxPath = 3
  MaxNodes = 5
SYMMETRY Symmetry
INVARIANTS TreeSound DottedStaysHome FastFalseIsPure OpenIsDetached SameDocument
PROPERTIES SealedStaysClosed DefinedIsFinal VerdictIsToml
CHECK_DEADLOCK FALSE
