SPECIFICATION Spec
CONSTANTS
    Setups <- AllSetups
    Messages <- Bodies
    Limits = {1, 2}
    MaxRegions = 3
    Threshold = 2
    EmptyLimit = 2
    MaxCommands = 2
CHECK_DEADLOCK FALSE
INVARIANTS OctetsInOrder ListFits FramesAreWhole
