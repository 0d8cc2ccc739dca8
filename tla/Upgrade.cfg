SPECIFICATION Spec
CONSTANTS
    Ids = {"1", "2", "3"}
    Texts = {"x"}
    Weak = "weak"
    Slots = {"t"}
    Old <- MCOld
    Last = 9
    MaxCrashes = 2
    MaxWrites = 2
    None = None
INVARIANTS
    SearchMatches
    PicturesKept
    PostsRecognised
CHECK_DEADLOCK FALSE
