SPECIFICATION Spec
CONSTANTS
    pause = pause
    vo = vo
    aid = aid
    Props <- MCProps
    Watched = {pause, aid}
    Startup <- MCProps
    FileScoped = {aid}
    Render = {vo}
    Immediate = {pause, aid}
    Snapshot <- MCSnapshot
    Pause = pause
    Values = {"no", "yes"}
    NoValue = "none"
    Default <- MCDefault
    Budgets <- MCBudgets
    MaxQueue = 1
INVARIANTS
    TypeOK
    PausedSettles
    CacheSettles
PROPERTIES
    TracksWaitForFile
    DeferredIsKept
