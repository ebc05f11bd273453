\* One process that never dies; calls fail, the operator answers or cancels.
SPECIFICATION Spec
CONSTANTS
    TheRun = r
    LastStep = 2
    ContainerSteps = {2}
    MaxOrdinal = 2
    Operator = {"submit-answers", "cancel-run"}
    Tag = {1}
    RoleOf <- OneRole
    Fault = {"start", "worktree", "agent", "deadline", "schema", "command", "artifact",
             "destroy", "answer"}
    Owner = {o1}
    NoOwner = NoOwner
INVARIANTS
    EngineTypeOK
PROPERTIES
    ImplementsRunLife
    RunSettles
    CancellationLands
CHECK_DEADLOCK FALSE
