SPECIFICATION Spec
CONSTANTS
    Users = {"u", "v"}
    Frames = {"a", "b", "c", "d", "e"}
    Hash <- MCHash
    Own = 2
    Other = 1
    Blank = {"e"}
    Shared <- MCShared
    PerRun = 2
    Day = 2
    Retain = 2
    MaxTime = 4
    MaxCrashes = 1
    None = "none"
INVARIANTS
    PicturesMatchRows
    NoTwins
    ResharesGone
CHECK_DEADLOCK FALSE
