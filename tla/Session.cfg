SPECIFICATION Spec
CONSTANTS
    Policies = {"auto", "pinned", "off"}
    Newest = 2
    RefreshDue = TRUE
    Moods = {"block", "prompt", "logout", "challenge", "demand", "leave", "error"}
    MaxMoods = 3
    MaxRuns = 3
INVARIANTS
    SeenBlockStopsRun
    NoPasswordHammering
    WarningsOwn
CHECK_DEADLOCK FALSE
