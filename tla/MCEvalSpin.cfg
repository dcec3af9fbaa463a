SPECIFICATION Spec
CONSTANTS
  Key = {a, b, c, d, e}
  NoKey = NoKey
  Hash <- SameHash
  Cap0 = 4
  FrameCap0 = 16
  MaxApps = 6
  MaxPings = 0
SYMMETRY Symmetry
INVARIANTS NeverSpins
CHECK_DEADLOCK FALSE
