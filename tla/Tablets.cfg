CONSTANTS
    Tablets = {0, 3, 48, 192, 206, 251, 32, 177, 179, 185, 184, 39, 63, 204, 248}
    Products <- Tablets
    ToolsOf <- MCToolsOf
    SwitchesOf <- MCSwitchesOf
    PadKeys = {"BTN_0"}
    MaxQueue = 2
SPECIFICATION CarefulSpec
INVARIANTS ToolFollowsHand PadFollowsHand NeverForcedOut
