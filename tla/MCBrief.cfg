\* Every answer of the reflector, and three edits of the form. A griller's turn ends it.
SPECIFICATION Spec
CONSTANTS
    Word = {"a", "b", "c", "x", "y", "yes"}
    Absent = Absent
    ListFields = {"inScope"}
    Answer <- Answers
    Typed <- Texts
    MaxEdits = 3
INVARIANTS
    BriefTypeOK
    NeverFails
    UntouchedKept
    ConfirmedAsShown
CHECK_DEADLOCK FALSE
