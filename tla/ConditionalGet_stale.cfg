\* Four threads read one resource, two of them overlapping.
SPECIFICATION SoloSpec
CONSTANTS
    c1 = c1
    c2 = c2
    c3 = c3
    k1 = k1
    k2 = k2
    e1 = e1
    e1x = e1x
    e2 = e2
    b1 = b1
    b2 = b2
    NoTag = NoTag
    NoBody = NoBody
    Calls = {c1, c2, c3, c4}
    Keys = {k1}
    ETags <- MCPlainETags
    Bodies <- MCBodies
    Names <- MCPlainNames
    MaxEntries = 1
    MaxRetries = 0
    CacheOn = TRUE
    Threaded = TRUE
    Apart = {}
SYMMETRY MCSymmetry
CHECK_DEADLOCK FALSE
INVARIANT SoloReadsAreFresh
