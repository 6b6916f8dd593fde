SPECIFICATION FairSpec
CONSTANTS
    torrent = torrent
    remote = remote
    Streams <- TwoStreams
    LocalStreams <- OneStream
    RetryLimit = 1
    RecoveryLimit = 1
    Budgets <- TwoLoads
    Drops = TRUE
    Rejects = TRUE
PROPERTIES
    StoppingEnds
    DeferredIsSent
\* The user has nothing more to do in the end.
CHECK_DEADLOCK FALSE
