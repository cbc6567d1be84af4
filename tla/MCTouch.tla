------------------------------ MODULE MCTouch ------------------------------
(***************************************************************************)
(* Touch tablets for TLC: a touch device and a pad on one port, and a pen  *)
(* on another.                                                             *)
(***************************************************************************)
EXTENDS WacomTouch

CONSTANTS pen, finger, pad, penPort

TypeOf == [d \in {pen, finger, pad} |->
             CASE d = pen -> "STYLUS" [] d = finger -> "TOUCH" [] OTHER -> "PAD"]
MCDevType == [d \in Devices |-> TypeOf[d]]
MCCommon == [d \in Devices |-> IF d = pen THEN penPort ELSE TouchPort]
MCTools == {TypeOf[d] : d \in Devices}
DeviceOf(t) == CHOOSE d \in Devices : TypeOf[d] = t
MCToolType == [t \in MCTools |-> t]
MCToolCommon == [t \in MCTools |-> MCCommon[DeviceOf(t)]]
MCToolSerial == [t \in MCTools |-> 0]
MCAreaList == [t \in MCTools |-> <<DeviceOf(t)>>]
MCArea == [d \in Devices |-> Positions]
MCHeld == [a \in Actions |-> {a}]
MCInitButton == [d \in Devices |-> [b \in Buttons |-> b]]

Base == [type |-> "STYLUS", idType |-> "STYLUS", serial |-> 0, proximity |-> TRUE,
         x |-> 1, buttons |-> {}, pressure |-> 0, distance |-> 0,
         moved |-> TRUE, other |-> FALSE]
MCPackets ==
    (IF pen \in Devices
     THEN {[Base EXCEPT !.proximity = prox] : prox \in BOOLEAN} ELSE {})
    \cup (IF pad \in Devices
          THEN {[Base EXCEPT !.type = "PAD", !.proximity = bs # {}, !.buttons = bs] :
                  bs \in {{}, {1}}} ELSE {})
=============================================================================
