SPECIFICATION Spec
CONSTANTS
    torrent = torrent
    remote = remote
    Streams <- TwoStreams
    LocalStreams <- OneStream
    RetryLimit = 1
    RecoveryLimit = 0
    Budgets <- ThreeLoads
    Drops = FALSE
    Rejects = FALSE
INVARIANTS
    StreamUrlIsPlayed
\* The user has nothing more to do in the end.
CHECK_DEADLOCK FALSE
