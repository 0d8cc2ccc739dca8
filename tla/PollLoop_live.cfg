SPECIFICATION FairSpec
CONSTANTS
    Day = 2
    MaxRuns = 2
    PollMin = 2
    PollMax = 2
    RetryDelays <- MCRetryDelays
    BackoffMax = 3
    RunNowMin = 1
    LockMax = 2
    ScrapeOnStartup = FALSE
    FailureScan = 2
    Outcomes = {"transient"}
    MaxOnce = 1
    MaxRunLen = 0
    MaxCrashes = 1
    Horizon = 6
    Slack = 3
PROPERTIES
    RequestTaken
    LaunchesUnlessHeld
CHECK_DEADLOCK FALSE
