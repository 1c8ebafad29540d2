SPECIFICATION Spec
CONSTANTS
    Problems <- SomeProblems
    Options <- SomeOptions
    MaxLayer = 3
INVARIANTS
    TypeOK
    NumbersUnambiguous
    TermsDistinct
    PlanValid
    NoSolutionLost
    StatesAgree
PROPERTIES
    PlansPersist
CHECK_DEADLOCK FALSE
