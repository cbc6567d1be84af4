\* Devices configured, started, set by clients, removed
CONSTANTS
    pen = pen
    pen2 = pen2
    finger = finger
    Sections <- MCSections
    Options <- MCOptions
    Layouts <- MCLayouts
    Size <- MCSize
    TouchSize <- MCTouchSize
    TabletKeys = {"touch"}
    Bamboo = FALSE
    Risks = {}
    MaxCommands = 1
SPECIFICATION SetupSpec
INVARIANTS
    NothingDangles
    OneRectangle
    OneSource
PROPERTIES
    RotatingKeepsPlace
CHECK_DEADLOCK FALSE
