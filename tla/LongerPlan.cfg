\* -el=-1: the bound improvePlan compares with.
CONSTANTS
  LayerBound = 3
  MaxLen = 2
  NoPlan = NoPlan
  Instances <- MCInstances
  MCParams <- AnytimeSearch
SPECIFICATION Spec
PROPERTY
  KeptPlanNeverLonger
