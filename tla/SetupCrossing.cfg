\* Two areas that cross
CONSTANTS
    pen = pen
    pen2 = pen2
    finger = finger
    Sections <- MCSections
    Options <- MCCrossing
    Layouts <- MCLayouts
    Size <- MCSize
    TouchSize <- MCTouchSize
    TabletKeys = {"touch"}
    Bamboo = FALSE
    Risks = {}
    MaxCommands = 1
SPECIFICATION SetupSpec
INVARIANT AreasApart
CHECK_DEADLOCK FALSE
