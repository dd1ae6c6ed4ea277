SPECIFICATION Spec
CONSTANTS
    MaxStreams = 2
    Scenes <- TheScenes
CHECK_DEADLOCK FALSE
INVARIANTS NobodyWaitsInVain HandlersAreBounded DrainIsHonest
PROPERTIES DrainEnds
