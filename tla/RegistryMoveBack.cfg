SPECIFICATION Spec
CONSTANTS
    math = math
    music = music
    Agents = {music}
    MaxEdits = 1
    MayGo <- MCMayGo
    MayMoveBack = TRUE
    MayBreakManifest = FALSE
    EditsDuringBoot = FALSE
INVARIANT ServedIffRegistered
CHECK_DEADLOCK FALSE
