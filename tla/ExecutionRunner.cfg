CONSTANTS
    Node <- Steps
    None = None
    DependsOn <- Dependencies
    Position <- PlanOrder
    Selected = {"design", "build", "verify"}
    Live = {"build", "verify"}
    Breakpoint = {"build"}
    ReviewRequired = {"verify"}
    SimulatedPlan = FALSE
    MaxAttempts = 2
    MaxEvents = 8
SPECIFICATION Spec
INVARIANTS
    IInv
    InFlight
    CheckpointClosed
    PauseFlag
    RunnerPerExecution
    CodexIsAdmitted
    BreakpointPausesFirst
PROPERTIES
    TerminalIsFinal
    InterruptedLiveNodeFailsClosed
    ImplementsLifecycle
\* A terminal execution has nothing left to do.
CHECK_DEADLOCK FALSE
