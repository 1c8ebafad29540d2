\* Termination requests, and the end of a search that answers.
CONSTANTS
  LayerBound = 3
  MaxLen = 2
  NoPlan = NoPlan
  Instances <- MCInstances
  MCParams <- LivenessParams
SPECIFICATION ResponsiveSpec
PROPERTIES
  StopsOnRequest
  EventuallyStops
