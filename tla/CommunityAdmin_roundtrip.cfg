SPECIFICATION Spec
CONSTANTS
    Gates = {g1, g2}
    None = None
    Unset = Unset
    Truthy = Truthy
    Never = Never
    Gone = Gone
    Managers = {m1, m2}
    MaxRetries = 1
    MaxCalls = 2
    MaxFaults = 2
    NoCall = NoCall
    NoReturn = NoReturn
    Scenes <- MCKeySchedule
    Communities <- AdminCommunities
    Start <- AdminStart
    Calls <- AdminCalls
    Offered <- AdminOffered
    Request <- AdminRequest
    Serve <- AdminServe
    View <- AdminView
    Result <- AdminResult
    Learn <- AdminLearn
    Repeatable <- AdminRepeatable
    Things <- AdminThings
    Hours = {day, night}
    MaxEntryId = 4
    MaxCodeId = 3
    Resident = 1
    Tags = {t1, t2}
    ScanOnly = {g1}
    Claims = {s1}
    Generated = {x1, x2}
    Elsewhere = Elsewhere
    WeeklyHours = {day, night}
    MaxEventId = 2
    MaxWeeklyId = 3
    Days = {d1}
    Times = {late}
    People = {p1, p2}
    KeyIds = {k1}
    MaxHomeId = 3
    Addresses = {a1, a2}
    Residents = {r1}
    MaxLinkId = 3
    Uses <- MCUses
    Owners = {o1, o2}
    MaxQuietId = 3
    Nights = {n1}
    Boxes = {b1, b2}
SYMMETRY MCSymmetry
INVARIANTS
    RoundTripsLoseNothing
