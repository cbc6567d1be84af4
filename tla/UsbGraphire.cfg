SPECIFICATION FairUsbSpec
CONSTANTS
    pen = pen
    eraser = eraser
    mouse = mouse
    finger = finger
    pad = pad
    penPort = penPort
    touchPort = touchPort
    Pressed = {}
    NoDevice = NoDevice
    features = "WACOM_G4"
    Commons = {penPort}
    Ports = {penPort}
    PenPort = penPort
    TouchPort = penPort
    Devices = {pen, mouse, pad}
    PenTools = {"BTN_TOOL_PEN", "BTN_TOOL_MOUSE"}
    PenSwitches <- MCPenSwitches
    Fingers = {}
    PadKeys = {"BTN_4"}
    Heights = {0, 20}
    MaxQueue = 1
    Axes = {TRUE, FALSE}
    Common <- MCCommon
    DevType <- MCDevType
    Tools <- MCTools
    ToolCommon <- MCToolCommon
    ToolType <- MCToolType
    ToolSerial <- MCToolSerial
    AreaList <- MCAreaList
    Area <- MCArea
    MAX_BUTTONS = 5
    Codes = {1, 2, 3, 4, 5}
    Actions <- MCActions
    Held <- MCHeld
    ModeToggles = {}
    InitButton <- MCInitButton
    InitAbsolute = {pen, mouse, pad}
    Packets = {}
    Positions = {1}
    Serials = {0, 1, 2, 240}
    Thresholds = {27}
    TPCButtonModes = {FALSE}
    TouchModes = {FALSE}
    wcmMaxZ = 511
    FILTER_PRESSURE_RES = 2048
    wcmNoPressureRecal = TRUE
    wcmProtocolLevel = 4
    IntuosModel = FALSE
    wcmCursorProxoutDist = 10
    Remapped = {}
    Renumbered = {}
    Late = {}
INVARIANTS
    PadFollowsHand
PROPERTIES
    PenArrives
    PenLeaves
