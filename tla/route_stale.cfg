CONSTANTS
  Asks = {a1, a2}
  Entries <- ThreeEntries
  Score <- ThreeScores
  Actives <- AnyActive
  MaxProbe = 2
  MaxCand = 2
  MinProbes = 1
  KeepWithin = 1
SPECIFICATION Spec
INVARIANTS ShrinkJustified
