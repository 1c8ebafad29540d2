SPECIFICATION Spec
CONSTANTS
    Problems <- CrossedProblems
    Options <- DefaultOptions
    MaxLayer = 2
INVARIANT NoSolutionLost
CHECK_DEADLOCK FALSE
