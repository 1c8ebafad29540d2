SPECIFICATION Spec
CONSTANTS
    Problems <- MinedProblems
    Options <- DefaultOptions
    MaxLayer = 2
INVARIANT NoSolutionLost
CHECK_DEADLOCK FALSE
