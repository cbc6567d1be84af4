SPECIFICATION CarefulTouchSpec
CONSTANTS
    pen = pen
    finger = finger
    pad = pad
    penPort = penPort
    TouchPort = touchPort
    FingerButton = FALSE
    CoreTouch = TRUE
    WACOM_GESTURE_LAG_TIME = 1
    wcmTapTime = 1
    GestureModes = {TRUE}
    NoDevice = NoDevice
    Commons = {penPort, touchPort}
    Devices = {pen, finger}
    Common <- MCCommon
    DevType <- MCDevType
    Tools <- MCTools
    ToolCommon <- MCToolCommon
    ToolType <- MCToolType
    ToolSerial <- MCToolSerial
    AreaList <- MCAreaList
    Area <- MCArea
    MAX_BUTTONS = 1
    Codes = {1, 3}
    Actions = {1}
    Held <- MCHeld
    ModeToggles = {}
    InitButton <- MCInitButton
    InitAbsolute = {pen}
    Packets <- MCPackets
    Positions = {1}
    Serials = {0}
    Thresholds = {27}
    TPCButtonModes = {FALSE}
    TouchModes = {TRUE}
    wcmMaxZ = 511
    FILTER_PRESSURE_RES = 2048
    wcmNoPressureRecal = TRUE
    wcmProtocolLevel = 4
    IntuosModel = FALSE
    wcmCursorProxoutDist = 10
    Remapped = {}
    Renumbered = {}
    Late = {}
PROPERTIES
    DragIsDoubleTap
