\* One final repair.
SPECIFICATION Spec
CONSTANTS
    MaxRounds = 1
    Plan <- MCPlan
    Setup <- MCSetup
    Health <- MCHealth
    MaxRevisions = 0
    Slices <- MCSlices
    AttemptLimit = 1
    RepairLimit = 1
    CommandCount = 1
    MaxVersion = 2
INVARIANTS
    ValidatedIsClean
CHECK_DEADLOCK FALSE
