SPECIFICATION Spec
CONSTANTS
  Size = 3
  MaxRefs = 1
  MaxDoc = 2
  PathCap = 1
  SPathCap = 3
  RefCap = 2
CHECK_DEADLOCK FALSE
INVARIANTS TargetUnlessLeft PathUnlessCut RecursionBounded
