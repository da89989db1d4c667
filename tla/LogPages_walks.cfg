\* Logs of up to seven rows, pages of two, a server that may mislead.
SPECIFICATION FairSpec
CONSTANTS
    PageSize = 2
    MaxRows = 7
    Faulty = TRUE
CHECK_DEADLOCK FALSE
INVARIANTS
    TypeOK
    NothingIsSkipped
    WindowsDoNotRepeat
    RepeatsAreArrivals
PROPERTY
    WalksEnd
