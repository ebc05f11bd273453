\* One crash, anywhere, and a restart; the operator answers and retries.
SPECIFICATION Spec
CONSTANTS
    TheRun = r
    LastStep = 2
    ContainerSteps = {2}
    MaxOrdinal = 2
    Operator = {"submit-answers", "retry-turn"}
    Tag = {1}
    RoleOf <- OneRole
    Fault = {"recovery"}
    Owner = {o1, o2}
    NoOwner = NoOwner
INVARIANTS
    FreshContinue
    CapturedIsCurrent
    OpenGateIsCurrent
    StepsInOrder
    NeverRepeated
    NoSilentStop
PROPERTIES
    ImplementsRunLife
CHECK_DEADLOCK FALSE
