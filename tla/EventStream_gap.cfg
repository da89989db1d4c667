\* Two events, two broken connections: is every gap told?
SPECIFICATION Spec
CONSTANTS
    MaxEvents = 2
    MaxDrops = 2
    MaxExponent = 1023
CHECK_DEADLOCK FALSE
PROPERTY GapsAreTold
