SPECIFICATION FairSpec
CONSTANTS
    host = host
    guest = guest
    other = other
    Peers <- ThreePeers
    MaxSize = 3
    Budget <- ProgressBudget
    Patient = FALSE
    Timeouts = TRUE
PROPERTIES
    ShownPartyResolves
    AdmittedStayOrLeave
    JoinedAreAdmitted
\* Every budget is used up in the end.
CHECK_DEADLOCK FALSE
