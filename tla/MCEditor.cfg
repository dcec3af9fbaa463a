SPECIFICATION Spec
CONSTANTS
  a = a
  b = b
  Name = {a, b}
  LinePath <- Lines
  TargetPath <- Targets
  MaxLines = 4
  MaxText = 5
  k = k
  Replacements <- Probes
  ValuePieces <- Pieces
  MaxValue = 6
SYMMETRY Symmetry
INVARIANTS EditsTheKey SpanIsValue
CHECK_DEADLOCK FALSE
