\* Every command line of SafetyParams on every problem that fits.
CONSTANTS
  LayerBound = 3
  MaxLen = 2
  NoPlan = NoPlan
  Instances <- MCInstances
  MCParams <- SafetyParams
SPECIFICATION Spec
INVARIANTS
  TypeOK
  ExtractRequiresSatWithoutLimit
  FailedRequiresUnsatWithoutLimit
  KeptPlanIsCompletePermanent
  ShorterPlanIsShorterSat
  ProbeInRange
  NoStaleAssumptions
  UnsolvableIsTrue
  NoSolutionIsTrue
  KeptPlanIsPrinted
PROPERTY
  IsAnytimePlanner
