SPECIFICATION Spec
CONSTANTS
  Size = 3
  Keyword = {"none", "bad", "anchor", "dep", "ref", "dynref"}
  DepCap0 = 4
INVARIANTS NoReentry VerdictUnlessLost ScopeExact
PROPERTIES Ends
CHECK_DEADLOCK FALSE
