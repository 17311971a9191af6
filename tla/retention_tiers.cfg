SPECIFICATION Spec
CONSTANTS
    Eligible = {1, 2, 3, 4, 5, 6, 7}
    TopN = 1
    NewerThan = 1
    Rules <- Tiered
    MaxSnap = 7
    MaxTime = 6
    MaxBack = 0
    MaxFaults = 0
INVARIANT RuleCovers
