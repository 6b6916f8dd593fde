SPECIFICATION Spec
CONSTANTS
    ep1 = ep1
    ep2 = ep2
    menu = menu
    nothing = nothing
    Routes <- TwoRoutes
    NoRoute = menu
    Videos <- TwoRoutes
    VideoOf <- SameVideo
    Media <- TwoRoutes
    NoMedia = nothing
    MediaOf <- SameVideo
    Kitsu <- JustSecond
    Episodes <- TwoRoutes
    Answers <- TwoAnswers
    Chapters <- OneChapter
    Wanted <- Kinds
    Length = 2
    MaxVisits = 2
    MaxReloads = 1
INVARIANT NotToPreviousFile
