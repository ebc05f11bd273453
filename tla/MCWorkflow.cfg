\* The whole workflow, interrupted anywhere.
SPECIFICATION Spec
CONSTANTS
    MaxRounds = 2
    Plan <- MCPlan
    Setup <- MCSetup
    Health <- MCHealth
    MaxRevisions = 1
    Slices <- MCSlices
    AttemptLimit = 2
    RepairLimit = 1
    CommandCount = 2
    MaxVersion = 6
INVARIANTS
    WorkflowTypeOK
    CommitIsVerified
    ImplementedIsCommitted
    AttemptsBounded
    PublishedIsValidated
    SetUpUnlessRevised
PROPERTIES
    FreshRequest
    ValidatedAsItIs
CHECK_DEADLOCK FALSE
