SPECIFICATION FairSpec
CONSTANTS
    N = 3
    Feeds <- MCFeeds
    Author <- MCAuthor
    Limited = TRUE
    MaxScrolls = 4
    StopAfterSeen = 2
    EmptyLimit = 2
    Retries = 2
    Backfills = 1
    Tries = 2
INVARIANTS
    LinksTheirOwn
    SheetsBounded
    EndsOnKnownPosts
    StopsWithinOneCard
PROPERTIES
    WalkEnds
CHECK_DEADLOCK FALSE
