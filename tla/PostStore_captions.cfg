SPECIFICATION Spec
CONSTANTS
    Forms = {"a_short", "a_full"}
    PostOf <- MCPostOf
    UserOf <- MCUserOf
    Key <- MCKey
    Text <- MCText
    Expanded <- MCExpanded
    Code <- MCCode
    Slot <- MCSlot
    Weak = "weak"
    Telling <- MCTelling
    LinkRetries = 1
    BackfillTries = 1
    BackfillsPerRun = 1
    MaxSlides = 1
    StaleLinks = FALSE
    MaxRuns = 3
    None = "none"
INVARIANTS
    TypeOK
    CodeIsLink
    CoverOnDisk
    LeftoversAreSlides
PROPERTIES
    EntryIdsKept
CHECK_DEADLOCK FALSE
