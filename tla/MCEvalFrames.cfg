SPECIFICATION Spec
CONSTANTS
  Key = {a, b}
  NoKey = NoKey
  Hash <- SameHash
  Cap0 = 4
  FrameCap0 = 16
  MaxApps = 6
  MaxPings = 2
SYMMETRY Symmetry
INVARIANTS VerdictIsPrivate ListIsSound SeenUnlessCut
CHECK_DEADLOCK FALSE
