\* A device that shares its tool is removed
CONSTANTS
    pen = pen
    pen2 = pen2
    finger = finger
    Sections <- MCSections
    Options <- MCOptions
    Layouts <- MCLayouts
    Size <- MCSize
    TouchSize <- MCTouchSize
    TabletKeys = {"touch"}
    Bamboo = FALSE
    Risks = {"shared_removed"}
    MaxCommands = 1
SPECIFICATION SetupSpec
INVARIANT NothingDangles
CHECK_DEADLOCK FALSE
