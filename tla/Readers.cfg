SPECIFICATION FairSpec
CONSTANTS
    Procs = {"loop", "once"}
    EnvKinds = {"following"}
    FailedRuns = 2
    Outcomes = {"none", "restricted", "login"}
    Lossy = FALSE
    MaxRuns = 3
    MaxChanges = 1
    MaxCrashes = 1
    Posts = {"p", "q"}
    Stories = {"s", "t"}
    Names = {"x", "y"}
    Feeds = {"all", "x", "stories"}
    MaxEvents = 3
INVARIANTS
    HeardMatchesTable
    TableMatchesConditions
    NothingCachedAway
PROPERTIES
    AnnouncedOnce
    ReadersCatchUp
CHECK_DEADLOCK FALSE
