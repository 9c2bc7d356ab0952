CONSTANTS
    Components = {"baseline", "csv", "chunks", "sheets", "search", "skill files", "skill package", "proposal", "intents", "reuse", "two folders", "events", "explorer", "window", "patient user", "hasty user", "display", "late display"}
    None = None
    NotRead = NotRead
    Unborn = Unborn
    Edits <- Changes
    IsRepository = TRUE
    MaxEdits = 2
    x1 = x1
    x2 = x2
    x3 = x3
SPECIFICATION SideSpec
INVARIANTS
    ApprovedIsUnchanged
    PlansAreComputed
    EvidenceIsRead
    WindowShowsWhatIs
PROPERTIES
    ShownStays
\* What is computed is left as it is; events and edits are bounded.
CHECK_DEADLOCK FALSE
