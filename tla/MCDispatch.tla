----------------------------- MODULE MCDispatch -----------------------------
(***************************************************************************)
(* Tablets for TLC.  A stylus tool with two areas (pen on position 1,      *)
(* sheet on position 2, nothing on 3), a mouse, a pad and a finger; each   *)
(* configuration takes the devices of the question it asks.                *)
(***************************************************************************)
EXTENDS WacomDispatch

CONSTANTS
    pen, sheet, mouse, pad, finger, usb,
    StylusSerial,    \* the serial number configured for pen and sheet
    Pressed          \* raw pen pressures

TypeOf == [d \in {pen, sheet, mouse, pad, finger} |->
             CASE d \in {pen, sheet} -> "STYLUS"
               [] d = mouse -> "CURSOR"
               [] d = pad -> "PAD"
               [] OTHER -> "TOUCH"]
MCDevType == [d \in Devices |-> TypeOf[d]]
MCCommon == [d \in Devices |-> usb]

\* One tool per type of device, named after the type.
MCTools == {TypeOf[d] : d \in Devices}
MCToolType == [t \in MCTools |-> t]
MCToolCommon == [t \in MCTools |-> usb]
MCToolSerial == [t \in MCTools |-> IF t = "STYLUS" THEN StylusSerial ELSE 0]
MCAreaList == [t \in MCTools |->
                 SelectSeq(<<pen, sheet, mouse, pad, finger>>,
                           LAMBDA d : d \in Devices /\ TypeOf[d] = t)]
MCPositions == 1 .. 3
MCArea == [d \in Devices |-> IF d = pen THEN {1} ELSE IF d = sheet THEN {2}
                             ELSE MCPositions]

\* Button actions: two X buttons and a mode toggle.
MCHeld == [a \in Actions |-> CASE a = "left" -> {1} [] a = "menu" -> {3} [] OTHER -> {}]
MCModeToggles == Actions \cap {"mode"}
MCInitButton ==
    [d \in Devices |-> [b \in Buttons |->
       IF b = 1 THEN "left" ELSE CHOOSE a \in Actions : a # "left"]]

Base == [type |-> "STYLUS", idType |-> "STYLUS", serial |-> 0, proximity |-> TRUE,
         x |-> 1, buttons |-> {}, pressure |-> 0, distance |-> 0,
         moved |-> TRUE, other |-> FALSE]

\* Pen samples in any position, with and without the side button.
PenPackets ==
    {[Base EXCEPT !.x = x, !.serial = StylusSerial, !.buttons = bs, !.pressure = p] :
       x \in MCPositions, bs \in {{}, {2}}, p \in Pressed}
    \cup {[Base EXCEPT !.proximity = FALSE, !.serial = StylusSerial, !.x = x] : x \in {1, 2}}
MousePackets ==
    {[Base EXCEPT !.type = "CURSOR", !.buttons = bs, !.distance = n, !.moved = m] :
       bs \in {{}, {1}}, n \in {5, 40}, m \in BOOLEAN}
    \cup {[Base EXCEPT !.type = "CURSOR", !.proximity = FALSE, !.moved = FALSE]}
PadPackets ==
    {[Base EXCEPT !.type = "PAD", !.proximity = prox, !.buttons = bs] :
       prox \in BOOLEAN, bs \in {{}, {1}}}
TouchPackets ==
    {[Base EXCEPT !.type = "TOUCH", !.proximity = prox, !.buttons = IF prox THEN {1} ELSE {}] :
       prox \in BOOLEAN}
\* A sample whose type was lost, and one of a tool nobody configured.
OddPackets ==
    {[Base EXCEPT !.type = NoType, !.idType = "CURSOR", !.distance = 5],
     [Base EXCEPT !.type = "ERASER"]}

MCPackets ==
    (IF pen \in Devices THEN PenPackets ELSE {})
    \cup (IF mouse \in Devices THEN MousePackets \cup OddPackets ELSE {})
    \cup (IF pad \in Devices THEN PadPackets ELSE {})
    \cup (IF finger \in Devices THEN TouchPackets ELSE {})
=============================================================================
