SPECIFICATION FairSpec
CONSTANTS
  Key <- MCKey
  Value = {v1}
  KeyHash <- MCKeyHash
  IdxCap0 = 4
  EntCap0 = 2
INVARIANTS IInv WalkEnds FindIsLookup
PROPERTIES ImplementsMap InsertReturns
CHECK_DEADLOCK FALSE
