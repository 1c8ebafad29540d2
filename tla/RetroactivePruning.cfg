\* Hierarchies of four layers over small domains, all orders of the worklists.
CONSTANTS
  LayerBound = 3
  Domains <- AllDomains
  Blank = "blank"
  Goal = "goal"
SPECIFICATION FairSpec
INVARIANTS
  TypeOK
  MapsAgree
  PruneAssertions
  UnitsExact
  PruneExact
PROPERTIES
  LayersGetBuilt
  IsAtomicPruning
