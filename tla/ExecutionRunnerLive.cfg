CONSTANTS
    Components = {"shutdown", "runner", "simulated runner", "chat", "harness", "autodetect", "sources", "codex", "review", "owner", "client", "import", "events", "window", "workspaces"}
    Execution = {e1, e2}
    Request = {r1, r2}
    MaxRequests = 2
    MaxStreams = 2
    None = None
    p1 = p1
    p2 = p2
    c1 = c1
    c2 = c2
    m1 = m1
    m2 = m2
    openai = openai
    codex = codex
SPECIFICATION SideSpec
INVARIANTS
    NobodyCutOff
PROPERTIES
    EveryRunSettles
    CancelEndsRunner
    
    WindowFollows
\* What has ended stays as it is; requests, edits and crashes are bounded.
CHECK_DEADLOCK FALSE
