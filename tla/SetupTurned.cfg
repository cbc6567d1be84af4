\* Two areas of a tool on a tablet that is turned
CONSTANTS
    pen = pen
    pen2 = pen2
    finger = finger
    Sections <- MCSections
    Options <- MCOptions
    Layouts <- MCLayouts
    Size <- MCSize
    TouchSize <- MCTouchSize
    TabletKeys = {"touch"}
    Bamboo = FALSE
    Risks = {}
    MaxCommands = 1
SPECIFICATION SetupSpec
PROPERTY RefusedFairly
CHECK_DEADLOCK FALSE
