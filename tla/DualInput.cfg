CONSTANTS
    Tablets = {32}
    Products <- Tablets
    ToolsOf <- MCPensOf
    SwitchesOf <- MCSwitchesOf
    PadKeys = {}
    MaxQueue = 2
SPECIFICATION CarefulSpec
INVARIANT ToolFollowsHand
