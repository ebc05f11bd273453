SPECIFICATION Spec
INVARIANTS
    NameIsFree
    OnlyLateOnesStay
CHECK_DEADLOCK FALSE
