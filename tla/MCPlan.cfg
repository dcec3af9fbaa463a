SPECIFICATION PlanSpec
CONSTANTS
  Name = {"a", "b"}
  PlanCount = 3
  MaxRows = 3
  MaxDepth = 1
  Node <- Docs
  Height <- Heights
  MaxHeight = 3
INVARIANTS GateIsDepth RowsAreDocument
CHECK_DEADLOCK FALSE
