SPECIFICATION Spec
CONSTANTS
    host = host
    guest = guest
    other = other
    Peers <- ThreePeers
    MaxSize = 3
    Budget <- PatientBudget
    Patient = TRUE
    Timeouts = FALSE
INVARIANTS
    OnlyInvited
    ShownMatchesRuntime
    NoLeakedLobby
    RosterInSync
\* Every budget is used up in the end.
CHECK_DEADLOCK FALSE
