SPECIFICATION WriteSpec
CONSTANTS
  Key = {a, b}
  NoKey = NoKey
  PathFrames = 4
  MaxNodes = 5
  MaxDepth = 2
  FastParts = 2
INVARIANTS TextIsDocument TextIsWellFormed
PROPERTY LinesInPlace
CHECK_DEADLOCK FALSE
