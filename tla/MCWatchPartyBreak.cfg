SPECIFICATION FairSpec
CONSTANTS
    host = host
    guest = guest
    other = other
    Peers <- TwoPeers
    MaxSize = 2
    Budget <- BreakBudget
    Patient = TRUE
    Timeouts = FALSE
PROPERTIES
    GuestsKeepFollowing
\* Every budget is used up in the end.
CHECK_DEADLOCK FALSE
