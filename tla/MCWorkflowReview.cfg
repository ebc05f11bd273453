\* Two tasks, and a reviewer whose answers may be invalid.
SPECIFICATION Spec
CONSTANTS
    MaxRounds = 1
    Plan <- MCPlan
    Setup <- MCSetup
    Health <- MCHealth
    MaxRevisions = 0
    Slices <- MCSlices
    AttemptLimit = 1
    RepairLimit = 0
    CommandCount = 1
    MaxVersion = 2
INVARIANTS
    CommitIsReviewed
CHECK_DEADLOCK FALSE
