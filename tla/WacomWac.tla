------------------------------- MODULE WacomWac -------------------------------
(***************************************************************************)
(* The kernel side of a USB tablet (src/2.6.30/wacom_wac.c): what becomes  *)
(* of the reports the hardware sends.  wacom_tpc_irq (Tablet PC with       *)
(* two-finger touch), wacom_bpt_irq (Bamboo Pen & Touch) and               *)
(* wacom_graphire_irq (Graphire4) remember which tool, fingers and express *)
(* keys they saw, and turn a report into input events; the input core      *)
(* passes on only the values that changed.  The pen and the touch interface*)
(* are separate event devices, each with its own queue to the driver, and  *)
(* share the flag stylus_in_proximity.                                     *)
(*                                                                         *)
(* A switch is a key or button event code; "ABS_PRESSURE" stands for the   *)
(* tip being pressed.  Coordinates are reduced to "some axis changed".     *)
(***************************************************************************)
EXTENDS Integers, Sequences

CONSTANTS
    features,      \* features->type
    Ports,         \* event devices
    PenPort,       \* the one with the pen
    TouchPort,     \* the one with the fingers and keys
    PenTools,      \* the tools a user brings near
    PenSwitches,   \* the switches of a tool that a user presses
    Fingers,       \* finger numbers
    PadKeys,       \* express keys
    Axes,          \* bound: whether a report changes a coordinate
    MaxQueue       \* bound: the hardware rests while this much is unread

ASSUME TabletAssumption ==
    /\ features \in {"TABLETPC2FG", "BAMBOO_PT", "WACOM_G4"}
    /\ PenPort \in Ports /\ TouchPort \in Ports
    /\ features = "WACOM_G4" <=> PenPort = TouchPort
    /\ PenTools \subseteq {"BTN_TOOL_PEN", "BTN_TOOL_RUBBER", "BTN_TOOL_MOUSE"}
    /\ Fingers \subseteq {1, 2}
    /\ Axes \subseteq BOOLEAN
    /\ MaxQueue \in Nat \ {0}

\* The tool ids, STYLUS_DEVICE_ID and so on, by their type
Ids == {"STYLUS", "ERASER", "CURSOR", "TOUCH", "PAD"}
NoId == "0"
NoMisc == "unchanged"
NoSerial == 0
PadSerial == 240      \* 0xf0

ToolId == [t \in {"BTN_TOOL_PEN", "BTN_TOOL_RUBBER", "BTN_TOOL_MOUSE"} |->
             CASE t = "BTN_TOOL_PEN" -> "STYLUS"
               [] t = "BTN_TOOL_RUBBER" -> "ERASER"
               [] t = "BTN_TOOL_MOUSE" -> "CURSOR"]
ToolKeys == DOMAIN ToolId \cup
    {"BTN_TOOL_DOUBLETAP", "BTN_TOOL_TRIPLETAP", "BTN_TOOL_FINGER"}
FingerTool == <<"BTN_TOOL_DOUBLETAP", "BTN_TOOL_TRIPLETAP">>

PenButtons ==
    {"ABS_PRESSURE", "BTN_STYLUS", "BTN_STYLUS2", "BTN_LEFT", "BTN_MIDDLE", "BTN_RIGHT"}
PadButtons == {"BTN_0", "BTN_1", "BTN_2", "BTN_3", "BTN_4"}
Switches == ToolKeys \cup PenButtons \cup PadButtons \cup {NoId}

ASSUME SwitchAssumption ==
    /\ \A t \in PenTools : PenSwitches[t] \subseteq
         IF t = "BTN_TOOL_MOUSE" THEN {"BTN_LEFT", "BTN_MIDDLE", "BTN_RIGHT"}
         ELSE {"ABS_PRESSURE", "BTN_STYLUS", "BTN_STYLUS2"}
    /\ PadKeys \subseteq PadButtons

VARIABLES
    hand,        \* what the user does: the pen, the fingers, the keys
    wac,         \* struct wacom_wac of the interfaces
    near,        \* shared->stylus_in_proximity
    core,        \* the input core's current values, per port
    queue        \* the events the driver has not read yet, per port

wacVars == <<hand, wac, near, core, queue>>

PenHand ==
    [near: BOOLEAN, tool: PenTools \cup {NoId}, pressed: SUBSET Switches]
Frame ==
    [on: SUBSET Switches, off: SUBSET Switches, misc: Ids \cup {NoId, NoMisc},
     miscFirst: BOOLEAN, serial: {NoSerial, 1, 2, PadSerial}, axes: BOOLEAN]

\* Whatever the user does, the tool ids and serial numbers the driver reads
\* are ones it knows.
WacTypeOK ==
    /\ hand \in [pen: PenHand, fingers: SUBSET Fingers, pads: SUBSET PadKeys]
    /\ hand.pen.near => hand.pen.tool \in PenTools
    /\ wac \in [penTool: PenTools \cup {NoId}, penId: Ids \cup {NoId},
                touchId: Ids \cup {NoId}, fingers: SUBSET Fingers, pad: BOOLEAN]
    /\ near \in BOOLEAN
    /\ near \/ wac.penId # NoId => wac.penTool \in PenTools
    /\ core \in [Ports -> [on: SUBSET Switches, misc: Ids \cup {NoId}]]
    /\ queue \in [Ports -> Seq(Frame)]

NoPen == [near |-> FALSE, tool |-> NoId, pressed |-> {}]

-----------------------------------------------------------------------------
(* The input core.                                                         *)

\* One report up to its input_sync: the switches written on and off, the
\* tool id, whether it is written before the tool's key, the serial number,
\* and whether any coordinate differs from the last one.
Report(on, off, misc, miscFirst, serial, axes) ==
    [on |-> on, off |-> off, misc |-> misc, miscFirst |-> miscFirst,
     serial |-> serial, axes |-> axes]

\* input_event passes on a value only if it changes; MSC_SERIAL always; an
\* input_sync with nothing to end is not passed on.
Changes(c, r) ==
    [r EXCEPT !.on = @ \ c.on, !.off = @ \cap c.on,
              !.misc = IF @ = c.misc THEN NoMisc ELSE @]

Silent(frame) ==
    /\ frame.on \cup frame.off = {}
    /\ frame.misc = NoMisc
    /\ frame.serial = NoSerial
    /\ ~frame.axes

Stored(c, r) == [on |-> (c.on \cup r.on) \ r.off, misc |-> r.misc]

\* An input device: its current values and the frames it has passed on.
Input(port) == [core |-> core[port], out |-> queue[port]]

Send(input, r) ==
    LET frame == Changes(input.core, r)
    IN  [core |-> Stored(input.core, r),
         out |-> IF Silent(frame) THEN input.out ELSE Append(input.out, frame)]

Deliver(port, input) ==
    /\ core' = [core EXCEPT ![port] = input.core]
    /\ queue' = [queue EXCEPT ![port] = input.out]

-----------------------------------------------------------------------------
(* The reports.                                                            *)

PenReport(tool, id, pen, miscFirst, serial, axes) ==
    Report(pen.pressed \cup (IF pen.near THEN {tool} ELSE {}),
           (PenSwitches[tool] \ pen.pressed) \cup (IF pen.near THEN {} ELSE {tool}),
           id, miscFirst, serial, axes)

\* wacom_tpc_irq and wacom_bpt_irq, pen reports: the tool is chosen when the
\* pen comes near and kept until it leaves.
PenPacket(pen, axes) ==
    LET tool == IF near THEN wac.penTool ELSE pen.tool
        id == IF pen.near THEN (IF near THEN wac.penId ELSE ToolId[tool]) ELSE NoId
    IN  /\ Deliver(PenPort, Send(Input(PenPort), PenReport(tool, id, pen, FALSE, NoSerial, axes)))
        /\ wac' = [wac EXCEPT !.penTool = tool, !.penId = id]
        /\ near' = pen.near
        /\ hand' = [hand EXCEPT !.pen = pen]

\* wacom_tpc_finger_in, wacom_bpt_finger_in
FingerIn(finger, id, axes) ==
    Report({FingerTool[finger]}, {}, id, TRUE, finger, axes)

\* wacom_tpc_touch_out, wacom_bpt_touch_out
FingerOut(finger) == Report({}, {FingerTool[finger]}, NoId, TRUE, finger, FALSE)

\* One finger of a report; while the pen is near, a finger that was down
\* goes up.
SendFinger(input, finger, fingers, id, axes) ==
    IF finger \in fingers /\ ~near THEN Send(input, FingerIn(finger, id, axes))
    ELSE IF finger \in wac.fingers THEN Send(input, FingerOut(finger))
    ELSE input

\* wacom_bpt_irq, the express keys: reported while any is pressed, and once
\* more when none is; then with serial number 1.
SendBambooPad(input, pads) ==
    IF pads # {}
    THEN Send(input, Report(pads \cup {"BTN_TOOL_FINGER"}, PadKeys \ pads, "PAD", FALSE,
                            PadSerial, FALSE))
    ELSE IF wac.pad
         THEN Send(input, Report({}, PadKeys \cup {"BTN_TOOL_FINGER"}, NoId, FALSE, 1, FALSE))
         ELSE input

\* wacom_tpc_irq and wacom_bpt_irq, touch reports.  The Bamboo notes the touch
\* id only when its first finger is down.
TouchPacket(fingers, pads, axes) ==
    LET id == IF features = "TABLETPC2FG" \/ 1 \in fingers THEN "TOUCH" ELSE wac.touchId
        keys == IF features = "BAMBOO_PT" THEN SendBambooPad(Input(TouchPort), pads)
                ELSE Input(TouchPort)
        first == SendFinger(keys, 1, fingers, id, axes)
    IN  /\ Deliver(TouchPort, SendFinger(first, 2, fingers, id, axes))
        /\ wac' = [wac EXCEPT
                     !.pad = pads # {},
                     !.fingers = IF near THEN {} ELSE fingers,
                     !.touchId = IF near THEN @ ELSE IF fingers = {} THEN NoId ELSE id]
        /\ hand' = [hand EXCEPT !.fingers = fingers, !.pads = pads]
        /\ UNCHANGED near

\* Slip: the keys are reported only while one is pressed.
SendGraphirePadIn(input, pads) ==
    IF pads = {} THEN input
    ELSE Send(input, Report(pads \cup {"BTN_TOOL_FINGER"}, PadKeys \ pads, "PAD", FALSE,
                            PadSerial, FALSE))

\* wacom_graphire_irq, the express keys: BTN_TOOL_FINGER never goes up, the
\* id tells that the keys are.
SendGraphirePad(input, pads) ==
    IF pads # {} \/ wac.pad
    THEN Send(input, Report(pads \cup {"BTN_TOOL_FINGER"}, PadKeys \ pads,
                            IF pads # {} THEN "PAD" ELSE NoId, FALSE, PadSerial, FALSE))
    ELSE input

\* wacom_graphire_irq: pen or mouse and express keys in one report.
GraphirePacket(pen, pads, axes) ==
    LET tool == IF pen.near THEN pen.tool ELSE wac.penTool
        id == IF pen.near THEN ToolId[tool] ELSE NoId
        tools == IF pen.near \/ wac.penId # NoId
                 THEN Send(Input(PenPort), PenReport(tool, id, pen, TRUE, 1, axes))
                 ELSE Input(PenPort)
    IN  /\ Deliver(PenPort, SendGraphirePad(tools, pads))
        /\ wac' = [wac EXCEPT !.penTool = tool, !.penId = id, !.pad = pads # {}]
        /\ hand' = [hand EXCEPT !.pen = pen, !.pads = pads]
        /\ UNCHANGED near

-----------------------------------------------------------------------------
(* What a user does.  A tool leaves before another comes, and leaves with  *)
(* nothing pressed.                                                        *)

PenNext ==
    {[near |-> TRUE, tool |-> t, pressed |-> p] :
       t \in (IF hand.pen.near THEN {hand.pen.tool} ELSE PenTools),
       p \in UNION {SUBSET PenSwitches[u] : u \in PenTools}}
    \cup (IF hand.pen.near THEN {[hand.pen EXCEPT !.near = FALSE, !.pressed = {}]} ELSE {})

PenMoves ==
    \E pen \in PenNext, axes \in Axes :
       /\ features # "WACOM_G4"
       /\ Len(queue[PenPort]) < MaxQueue
       /\ pen.pressed \subseteq PenSwitches[pen.tool]
       /\ PenPacket(pen, axes)

TouchMoves ==
    \E fingers \in SUBSET Fingers, pads \in SUBSET PadKeys, axes \in Axes :
       /\ features # "WACOM_G4"
       /\ Len(queue[TouchPort]) < MaxQueue
       /\ TouchPacket(fingers, pads, axes)

GraphireMoves ==
    \E pen \in PenNext \cup {hand.pen}, pads \in SUBSET PadKeys, axes \in Axes :
       /\ features = "WACOM_G4"
       /\ Len(queue[PenPort]) < MaxQueue
       /\ pen.near => pen.pressed \subseteq PenSwitches[pen.tool]
       /\ GraphirePacket(pen, pads, axes)

WacNext == PenMoves \/ TouchMoves \/ GraphireMoves

WacInit ==
    /\ hand = [pen |-> NoPen, fingers |-> {}, pads |-> {}]
    /\ wac = [penTool |-> NoId, penId |-> NoId, touchId |-> NoId,
              fingers |-> {}, pad |-> FALSE]
    /\ near = FALSE
    /\ core = [p \in Ports |-> [on |-> {}, misc |-> NoId]]
    /\ queue = [p \in Ports |-> <<>>]
=============================================================================
