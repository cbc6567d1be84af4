SPECIFICATION Spec
CONSTANTS
    stylus = stylus
    eraser = eraser
    pad = pad
    Devices <- MCDevices
    HasLeds = TRUE
    MaxGeneration = 1
INVARIANT
    LedsReachable
CHECK_DEADLOCK FALSE
