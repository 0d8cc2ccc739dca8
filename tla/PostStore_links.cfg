SPECIFICATION Spec
CONSTANTS
    Forms = {"a_full", "b"}
    PostOf <- MCPostOf
    UserOf <- MCUserOf
    Key <- MCKey
    Text <- MCText
    Expanded <- MCExpanded
    Code <- MCCode
    Slot <- MCSlot
    Weak = "weak"
    Telling <- MCTelling
    LinkRetries = 1
    BackfillTries = 1
    BackfillsPerRun = 1
    MaxSlides = 1
    StaleLinks = TRUE
    MaxRuns = 3
    None = "none"
INVARIANTS
    OneBackfillPerLink
CHECK_DEADLOCK FALSE
