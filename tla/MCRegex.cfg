SPECIFICATION LangSpec
CONSTANTS
  MaxStates = 14
  MaxGen = 2147483647
  Terms <- MCTerms
  Texts <- MCTexts
INVARIANTS SearchIsLanguage StampsAreFresh
CHECK_DEADLOCK FALSE
