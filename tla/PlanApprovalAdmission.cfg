CONSTANTS
    Plan = {p1, p2}
    Execution = {e1, e2}
    Client = {c1, c2}
    Folder = {"here"}
    Requested = {}
    None = None
    MaxDraft = 1
    MaxChanges = 0
SPECIFICATION Spec
SYMMETRY Symmetry
PROPERTIES
    AdmittedPlanIsApproved
\* Every draft revision, plan and execution may be used up.
CHECK_DEADLOCK FALSE
