SPECIFICATION CarefulSpec
CONSTANTS
    pen = pen
    sheet = sheet
    mouse = mouse
    pad = pad
    finger = finger
    usb = usb
    NoDevice = NoDevice
    Commons = {usb}
    Common <- MCCommon
    ToolCommon <- MCToolCommon
    DevType <- MCDevType
    Tools <- MCTools
    ToolType <- MCToolType
    ToolSerial <- MCToolSerial
    AreaList <- MCAreaList
    Area <- MCArea
    MAX_BUTTONS = 2
    Codes = {1, 3}
    Held <- MCHeld
    ModeToggles <- MCModeToggles
    InitButton <- MCInitButton
    InitAbsolute = {pen, sheet}
    Packets <- MCPackets
    Positions <- MCPositions
    Serials = {0, 7}
    Thresholds = {27}
    TPCButtonModes = {TRUE, FALSE}
    TouchModes = {TRUE, FALSE}
    wcmMaxZ = 1023
    FILTER_PRESSURE_RES = 2048
    wcmNoPressureRecal = FALSE
    wcmProtocolLevel = 5
    IntuosModel = TRUE
    wcmCursorProxoutDist = 10
    Devices = {pen, sheet}
    Actions = {"left", "menu"}
    StylusSerial = 0
    Pressed = {0, 20, 400}
    Remapped = {pen}
    Renumbered = {}
    Late = {sheet}
INVARIANTS
    TypeOK
    NoStuckButton
    HeldIsReported
    ReportedIsHeld
    OneInProxPerTool
PROPERTIES
    SessionSpec
