\* Sessions of work in each part of the page, and of work that touches two.
SPECIFICATION MCSpec
CONSTANTS
    r1 = r1
    r2 = r2
    n1 = n1
    P1 = P1
    P2 = P2
    NoRun = NoRun
    Runs = {r1, r2, n1}
    NewRuns = {n1}
    Script <- Gates3
    MaxCalls = 2
    MaxProbes = 2
    Projects = {P1, P2}
    Branches <- Branches2
    Roles = {role1, role2}
    Texts = {"x", "y"}
    Given = "x"
    Sessions <- AllSessions
INVARIANTS
    DashboardTypeOK
    SettledPage
    AnswerOfItsRun
    TypedStays
    OneBuild
    SettledSetup
    BranchOfProject
    SavesTakeEffect
    GuidanceForItsRole
PROPERTIES
    BuildIsSeenToEnd
CHECK_DEADLOCK FALSE
