SPECIFICATION FairSpec
CONSTANTS
    Places <- MCPlaces
    Centre = here
    NoPlace = NoPlace
    Screen = Screen
    here = here
    there = there
    Volumes <- MCVolumes
    loud = loud
    mute = mute
    louder = louder
    Beyond = {louder}
    Loudest = loud
    DefaultVolume = loud
    NoVolume = NoVolume
    NoFile = NoFile
    Torn = Torn
    Inherited <- MCInherited
    Ports = {11470}
    NoPort = 0
    Releases <- MCReleases
    NoRelease = NoRelease
    Installed = 1
    ForceUpdate = FALSE
    Candidates = FALSE
    Budgets <- MCBudgets
INVARIANTS TypeOK PrefsSurvive StoredWindow PageGetsItsMode AnnouncedIsWhole
PROPERTIES VolumeIsSaved QuitIsHandled
CHECK_DEADLOCK FALSE
