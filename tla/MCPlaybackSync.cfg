SPECIFICATION FairSpec
CONSTANTS
    movie = movie
    series = series
    board = board
    none = none
    Pages <- FilmsAndBoard
    NoPage = none
    Openable <- Films
    Worlds <- MCWorlds
    Jumps = {4}
    MaxFlight = 2
INVARIANT TypeOK MovedOnce
PROPERTY FollowsHost
