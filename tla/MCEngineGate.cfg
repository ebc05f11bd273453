\* A crash between the two statements of persist.
SPECIFICATION Spec
CONSTANTS
    TheRun = r
    LastStep = 1
    ContainerSteps = {1}
    MaxOrdinal = 2
    Operator = {"submit-answers"}
    Tag = {1}
    RoleOf <- OneRole
    Fault = {}
    Owner = {o1, o2}
    NoOwner = NoOwner
INVARIANTS
    AwaitingHasGate
CHECK_DEADLOCK FALSE
