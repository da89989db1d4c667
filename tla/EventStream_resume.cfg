\* Four events, three broken connections.
SPECIFICATION FairSpec
CONSTANTS
    MaxEvents = 4
    MaxDrops = 3
    MaxExponent = 1023
CHECK_DEADLOCK FALSE
INVARIANTS
    TypeOK
    CursorIsLastEvent
PROPERTIES
    FeedIsHonest
    EventsArrive
