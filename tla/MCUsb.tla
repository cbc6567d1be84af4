-------------------------------- MODULE MCUsb --------------------------------
(***************************************************************************)
(* USB tablets for TLC: a Tablet PC or a Bamboo with a pen port and a touch*)
(* port, or a Graphire4 with one port for all.  One device per type, each  *)
(* the default tool of its type.                                           *)
(***************************************************************************)
EXTENDS WacomUSB

CONSTANTS
    pen, eraser, mouse, finger, pad, penPort, touchPort,
    Pressed             \* what is pressed of the pen: its tip, a side button

TypeOf == [d \in {pen, eraser, mouse, finger, pad} |->
             CASE d = pen -> "STYLUS" [] d = eraser -> "ERASER" [] d = mouse -> "CURSOR"
               [] d = finger -> "TOUCH" [] OTHER -> "PAD"]
MCDevType == [d \in Devices |-> TypeOf[d]]
MCCommon == [d \in Devices |-> IF d \in {finger, pad} THEN TouchPort ELSE PenPort]

MCTools == {TypeOf[d] : d \in Devices}
DeviceOf(t) == CHOOSE d \in Devices : TypeOf[d] = t
MCToolType == [t \in MCTools |-> t]
MCToolCommon == [t \in MCTools |-> MCCommon[DeviceOf(t)]]
MCToolSerial == [t \in MCTools |-> 0]
MCAreaList == [t \in MCTools |-> <<DeviceOf(t)>>]
MCArea == [d \in Devices |-> Positions]

\* Button b of every device is X button b.
MCActions == Buttons
MCHeld == [a \in MCActions |-> {a}]
MCInitButton == [d \in Devices |-> [b \in Buttons |-> b]]

\* One button of the mouse
MCPenSwitches == [t \in PenTools |->
    CASE t = "BTN_TOOL_PEN" -> Pressed
      [] t = "BTN_TOOL_RUBBER" -> {"ABS_PRESSURE"}
      [] t = "BTN_TOOL_MOUSE" -> {"BTN_LEFT"}]

\* What the proofs about pens and pads take for granted of a configuration
ASSUME ConfigurationAssumption == PensAtPort /\ Unshared /\ TipFelt /\ PadsReached
=============================================================================
