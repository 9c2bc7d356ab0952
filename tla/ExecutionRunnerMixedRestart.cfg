CONSTANTS
    Node <- Steps
    None = None
    DependsOn <- Dependencies
    Position <- PlanOrder
    Selected = {"design", "build", "verify"}
    Live = {"build"}
    Breakpoint = {}
    ReviewRequired = {"verify"}
    SimulatedPlan = TRUE
    MaxAttempts = 2
    MaxEvents = 6
SPECIFICATION Spec
PROPERTIES
    InterruptedLiveNodeFailsClosed
\* A terminal execution has nothing left to do.
CHECK_DEADLOCK FALSE
