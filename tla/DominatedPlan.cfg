SPECIFICATION Spec
CONSTANTS
    Problems <- DominatedProblems
    Options <- DefaultOptions
    MaxLayer = 2
INVARIANT PlanValid
CHECK_DEADLOCK FALSE
