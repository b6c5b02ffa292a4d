CONSTANTS
    Host = Host
    Guest = {g1, g2}
    Nobody = Nobody
    TTL = 1
    Grace = 1
    MatchAge = 1
    MaxClock = 2

SPECIFICATION Spec
SYMMETRY Symmetric
\* the clock stops at MaxClock
CHECK_DEADLOCK FALSE
PROPERTY ClosedForReason
