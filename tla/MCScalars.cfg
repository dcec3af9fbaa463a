SPECIFICATION Spec
CONSTANTS
  Width = 8
  FastDigits = 2
  ExactDigits = 2
  ExactPower = 2
  MaxExp = 5
  RyuDigits = 2
  RyuExp = 2
  FracRoom = 3
  ExpRoom = 5
  RunMax = 5
  FixedDigits = 4
  FixedZeros = 2
  FracDigits = 3
  IntegerChars = {"0", "1", "2", "5", "8", "_", "-", "x", "b"}
  FloatChars = {"0", "1", "2", ".", "e", "_", "-", "+", "inf"}
  TextChars <- Characters
  MaxInteger = 5
  MaxFloat = 6
  MaxText = 4
  MomentParts <- Parts
INVARIANTS  ShortCutsAgree EmittedReads MultiLineReads
CHECK_DEADLOCK FALSE
