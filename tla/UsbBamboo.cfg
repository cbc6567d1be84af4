SPECIFICATION UsbSpec
CONSTANTS
    pen = pen
    eraser = eraser
    mouse = mouse
    finger = finger
    pad = pad
    penPort = penPort
    touchPort = touchPort
    Pressed = {"ABS_PRESSURE", "BTN_STYLUS"}
    NoDevice = NoDevice
    features = "BAMBOO_PT"
    Commons = {penPort, touchPort}
    Ports = {penPort, touchPort}
    PenPort = penPort
    TouchPort = touchPort
    Devices = {pen, finger, pad}
    PenTools = {"BTN_TOOL_PEN"}
    PenSwitches <- MCPenSwitches
    Fingers = {1}
    PadKeys = {"BTN_0"}
    Heights = {0}
    MaxQueue = 1
    Axes = {TRUE}
    Common <- MCCommon
    DevType <- MCDevType
    Tools <- MCTools
    ToolCommon <- MCToolCommon
    ToolType <- MCToolType
    ToolSerial <- MCToolSerial
    AreaList <- MCAreaList
    Area <- MCArea
    MAX_BUTTONS = 5
    Codes = {1, 2, 3, 4, 5}
    Actions <- MCActions
    Held <- MCHeld
    ModeToggles = {}
    InitButton <- MCInitButton
    InitAbsolute = {pen, finger, pad}
    Packets = {}
    Positions = {1}
    Serials = {0, 1, 2, 240}
    Thresholds = {27}
    TPCButtonModes = {FALSE}
    TouchModes = {TRUE}
    wcmMaxZ = 511
    FILTER_PRESSURE_RES = 2048
    wcmNoPressureRecal = TRUE
    wcmProtocolLevel = 4
    IntuosModel = FALSE
    wcmCursorProxoutDist = 10
    Remapped = {}
    Renumbered = {}
    Late = {}
INVARIANTS
    UsbTypeOK
    PenFollowsHand
