SPECIFICATION Spec
CONSTANTS
    Day = 2
    MaxRuns = 2
    PollMin = 1
    PollMax = 1
    RetryDelays <- MCRetryDelays
    BackoffMax = 3
    RunNowMin = 1
    LockMax = 2
    ScrapeOnStartup = FALSE
    FailureScan = 2
    Outcomes = {"none", "human"}
    MaxOnce = 1
    MaxRunLen = 1
    MaxCrashes = 0
    Horizon = 4
    Slack = 0
INVARIANTS
    CapHolds
CHECK_DEADLOCK FALSE
