SPECIFICATION Spec
CONSTANTS
    host = host
    guest = guest
    other = other
    Peers <- ThreePeers
    MaxSize = 2
    Budget <- SafetyBudget
    Patient = FALSE
    Timeouts = TRUE
INVARIANTS
    TypeOK
    RosterWithinLimit
PROPERTIES
    KickIsFinal
\* Every budget is used up in the end.
CHECK_DEADLOCK FALSE
