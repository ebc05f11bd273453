\* A cancellation next to the main loop.
SPECIFICATION Spec
CONSTANTS
    TheRun = r
    LastStep = 2
    ContainerSteps = {2}
    MaxOrdinal = 2
    Operator = {"cancel-run"}
    Tag = {1}
    RoleOf <- OneRole
    Fault = {}
    Owner = {o1}
    NoOwner = NoOwner
PROPERTIES
    CancelledForGood
CHECK_DEADLOCK FALSE
