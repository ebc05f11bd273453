\* The EnvironmentSpec is revised once.
SPECIFICATION Spec
CONSTANTS
    MaxRounds = 1
    Plan <- MCPlan
    Setup <- MCSetup
    Health <- MCHealth
    MaxRevisions = 1
    Slices <- MCSlices
    AttemptLimit = 1
    RepairLimit = 0
    CommandCount = 1
    MaxVersion = 2
INVARIANTS
    ExecutableIsSetUp
CHECK_DEADLOCK FALSE
