SPECIFICATION FairSpec
CONSTANTS
    math = math
    music = music
    Agents = {math, music}
    MaxEdits = 2
    MayGo <- MCMayGo
    MayMoveBack = FALSE
    MayBreakManifest = TRUE
    EditsDuringBoot = FALSE
INVARIANT ServedIffRegistered
INVARIANT CachedServiceIsCurrent
PROPERTY NoNeedlessOutage
PROPERTY EditsAreUptaken
CHECK_DEADLOCK FALSE
