CONSTANTS
    Components = {"terminals", "shells", "chat", "harness", "harness-cache", "memory", "hosted-provider", "hosted-provider-alone", "command", "autodetect", "autodetect-twice", "catalog", "agents", "one-build", "objects", "sources", "sources-of-every-kind", "traces", "two-traces", "skills", "codex", "receipt", "review", "owner", "owners", "client", "import"}
    None = None
    g1 = g1
    Graph = {g1, g2}
    here = here
    Folder = {here, there}
    Session = {q1, q2}
    Client = {p1, p2}
    MaxSessions = 1
    p1 = p1
    p2 = p2
    q1 = q1
    q2 = q2
    c1 = c1
    c2 = c2
    m1 = m1
    m2 = m2
    openai = openai
    anthropic = anthropic
    ollama = ollama
    codex = codex
SPECIFICATION SideSpec
SYMMETRY Interchangeable
INVARIANTS
    Exclusive
    ConversationsAreWhole
    SettingsAreVerified
    StoredIsWhole
    ProcessesAreOwned
    DirectoryIsOwned
    TracesTellTheStory
    NodeWorkIsChecked
PROPERTIES
    AcceptedAsBegun
    NewerWorkStands
\* Requests, edits and crashes are bounded.
CHECK_DEADLOCK FALSE
