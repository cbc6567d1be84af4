CONSTANTS
    Kinds = {"GD", "XD", "PL", "CT", "ET", "UD"}
    Sensors = {0, 1, 3, 5}
    MCTools = {"STYLUS", "ERASER", "MOUSE_4D", "MOUSE_2D"}
    MCButtons = {1, 4}
    Tablets <- MCTablets
    Tools <- MCToolsOf
    Pressable <- MCPressable
    LinkSpeeds = {9600, 38400}
    TouchModes = {TRUE}
    MayBeLate = TRUE
    Bodies = {"plain"}
    MaxWire = 13
    MaxLost = 1
    Lossy = {"UD", "PL"}
    ReadsWhole = {227}
SPECIFICATION CarefulSpec
INVARIANTS KeepsUnread RunningInStep OpensWhenAnswered SettledFollowsHand
PROPERTIES OneTypeAtATime WholeIsParsed
