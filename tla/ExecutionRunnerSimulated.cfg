CONSTANTS
    Node <- Steps
    None = None
    DependsOn <- Dependencies
    Position <- PlanOrder
    Selected = {"design", "build", "verify"}
    Live = {}
    Breakpoint = {"build"}
    ReviewRequired = {"verify"}
    SimulatedPlan = TRUE
    MaxAttempts = 2
    MaxEvents = 9
SPECIFICATION Spec
INVARIANTS
    StartedOnce
\* A terminal execution has nothing left to do.
CHECK_DEADLOCK FALSE
