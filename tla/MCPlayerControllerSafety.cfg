SPECIFICATION Spec
CONSTANTS
    torrent = torrent
    remote = remote
    Streams <- TwoStreams
    LocalStreams <- OneStream
    RetryLimit = 1
    RecoveryLimit = 1
    Budgets <- SafetyBudgets
    Drops = FALSE
    Rejects = FALSE
INVARIANTS
    TypeOK
    FlagsFollowState
    ActiveIsLoading
    ReloadsAreBounded
    SettledAgrees
PROPERTY
    ImplementsPhases
\* The user has nothing more to do in the end.
CHECK_DEADLOCK FALSE
