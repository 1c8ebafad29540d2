CONSTANTS
  LayerBound = 3
  Domains <- MergingDomain
  Blank = "blank"
  Goal = "goal"
SPECIFICATION Spec
INVARIANT PrunedIsGone
