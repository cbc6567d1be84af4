SPECIFICATION FairSpec
CONSTANTS
    stylus = stylus
    eraser = eraser
    pad = pad
    Devices <- MCDevices
    HasLeds = TRUE
    MaxGeneration = 2
INVARIANTS
    LifecycleTypeOK
    DescriptorShared
    OnHasDescriptor
    KeyClassOnce
PROPERTIES
    ReadWhenComplete
    DataIsRead
CHECK_DEADLOCK FALSE
