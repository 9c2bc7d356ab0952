CONSTANTS
    Plan = {p1, p2}
    Execution = {e1, e2}
    Client = {c1, c2}
    Folder = {"here", "there"}
    \* PATCH requests ask for one folder: two that ask for opposite ones race, see
    \* PlanApprovalRebind.cfg.
    Requested = {"there"}
    None = None
    MaxDraft = 2
    MaxChanges = 1
SPECIFICATION Spec
SYMMETRY Symmetry
INVARIANTS
    TypeOK
    PendingPlanStands
PROPERTIES
    AdmittedAtLatestDraft
    AdmittedToBoundFolder
    FolderStableWhileActive
\* Every draft revision, plan and execution may be used up.
CHECK_DEADLOCK FALSE
