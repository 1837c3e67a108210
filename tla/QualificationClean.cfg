CHECK_DEADLOCK FALSE
SPECIFICATION QualSpec
CONSTANTS
    Target = 1
    MaxIterations = 1
    MaxIoFaults = 1
INVARIANTS
    CompleteIsClean
