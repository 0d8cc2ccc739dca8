SPECIFICATION Spec
CONSTANTS
    Accounts = {"x", "y"}
    Names = {"x1", "x2", "x3", "y1"}
    FirstName <- MCFirstName
    Posts = {"px", "py"}
    SharedPosts = {}
    Heads <- MCHeads
    ShrinkPercent = 60
    AutoApply = TRUE
    MaxChanges = 2
    MaxRuns = 2
INVARIANTS
    TypeOK
    AuthorsKept
    AvatarOnDisk
PROPERTIES
    AllowlistStays
    ShrinkNeedsPerson
CHECK_DEADLOCK FALSE
