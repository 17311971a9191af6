SPECIFICATION Spec
CONSTANTS
    Eligible = {1, 2, 3, 5, 6, 7}
    TopN = 0
    NewerThan = 0
    Rules <- TwoRules
    MaxSnap = 7
    MaxTime = 4
    MaxBack = 1
    MaxFaults = 1
INVARIANTS
    TypeOK
    WalkKeepsNewestPerBucket
    WindowFreezes
    InterruptedRunContinues
PROPERTY NewestSurvives
