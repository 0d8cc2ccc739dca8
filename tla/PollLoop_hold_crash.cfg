SPECIFICATION Spec
CONSTANTS
    Day = 2
    MaxRuns = 2
    PollMin = 2
    PollMax = 2
    RetryDelays <- MCRetryDelays
    BackoffMax = 3
    RunNowMin = 1
    LockMax = 2
    ScrapeOnStartup = FALSE
    FailureScan = 2
    Outcomes = {"none", "human"}
    MaxOnce = 0
    MaxRunLen = 1
    MaxCrashes = 1
    Horizon = 4
    Slack = 0
INVARIANTS
    NothingResumesIt
CHECK_DEADLOCK FALSE
