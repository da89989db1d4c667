\* Threads share a client whose cache holds one entry, so that every store evicts.
SPECIFICATION MCSpec
CONSTANTS
    c1 = c1
    c2 = c2
    c3 = c3
    k1 = k1
    k2 = k2
    e1 = e1
    e1x = e1x
    e2 = e2
    b1 = b1
    b2 = b2
    NoTag = NoTag
    NoBody = NoBody
    Calls = {c1, c2, c3}
    Keys = {k1, k2}
    ETags <- MCETags
    Bodies <- MCBodies
    Names <- MCNames
    MaxEntries = 1
    MaxRetries = 1
    CacheOn = TRUE
    Threaded = TRUE
    Apart = {k2}
CHECK_DEADLOCK FALSE
INVARIANTS
    TypeOK
    CacheStaysSound
    ReturnsPublished
    NotModifiedIsInvisible
    SendsAreBounded
    StatsAgree
    ReadsAreFresh
    EntriesAreCoherent
PROPERTIES
    ReadsARegister
    CallsEnd
