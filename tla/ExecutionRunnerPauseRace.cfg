CONSTANTS
    Node <- Steps
    None = None
    DependsOn <- Dependencies
    Position <- PlanOrder
    Selected = {"design", "build", "verify"}
    Live = {"build", "verify"}
    Breakpoint = {"build"}
    ReviewRequired = {"verify"}
    SimulatedPlan = FALSE
    MaxAttempts = 2
    MaxEvents = 6
SPECIFICATION Spec
PROPERTIES
    PauseNeverFails
\* A terminal execution has nothing left to do.
CHECK_DEADLOCK FALSE
