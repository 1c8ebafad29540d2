\* Counters over two and three positions, for every length of the best plan.
CONSTANTS
  Ops <- OpNames
  Layers <- SmallLayers
  DirectLimit = 1
SPECIFICATION Spec
INVARIANTS
  TypeOK
  WindowFits
  BoundsExact
  ProbeExact
