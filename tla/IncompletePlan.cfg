\* -el=-1: primitiveness assumptions of the transient optimizer.
CONSTANTS
  LayerBound = 3
  MaxLen = 2
  NoPlan = NoPlan
  Instances <- MCInstances
  MCParams <- AnytimeSearch
SPECIFICATION Spec
INVARIANT
  KeptPlanIsComplete
