------------------------------- MODULE MCSerial -------------------------------
(***************************************************************************)
(* Serial tablets and Tablet PCs for TLC.                                  *)
(***************************************************************************)
EXTENDS WacomSerial

CONSTANTS Kinds, Sensors, MCTools, MCButtons

SerialTablet(kind, speed, old) ==
    [kind |-> kind, pen |-> TRUE, sensor |-> NoSensor, old |-> old, speed |-> speed,
     streaming |-> FALSE]
TabletPC(pen, sensor, speed) ==
    [kind |-> "TPC", pen |-> pen, sensor |-> sensor, old |-> FALSE, speed |-> speed,
     streaming |-> FALSE]

\* An Intuos may have been left at any speed; a Tablet PC without touch may
\* be a slow one.
MCTablets ==
    {SerialTablet(k, 9600, FALSE) : k \in Kinds \ Protocol5}
    \cup {SerialTablet(k, speed, k = "GD") : k \in Kinds \cap Protocol5, speed \in Speeds}
    \cup {TabletPC(TRUE, NoSensor, speed) : speed \in {19200, 38400}}
    \cup {TabletPC(pen, n, 38400) : pen \in {TRUE}, n \in Sensors \ {3, 4}}
    \cup {TabletPC(FALSE, n, 38400) : n \in Sensors \cap {3, 4, 5}}

\* All of a protocol on one kind of tablet, one tool on the others
MCToolsOf == [k \in Serial \cup {"TPC"} |->
    CASE k = "GD" -> MCTools \ {"MOUSE_2D"}
      [] k = "ET" -> MCTools \ {"MOUSE_4D"}
      [] k = "TPC" -> MCTools \ Mice
      [] k = "XD" -> MCTools \cap {"MOUSE_2D"}
      [] OTHER -> MCTools \cap {"ERASER"}]

MCPressable == [k \in Serial \cup {"TPC"} |-> 
    IF k \in {"GD", "XD"} THEN {2}
    ELSE IF k = "ET" THEN MCButtons \cup {8} ELSE MCButtons]
=============================================================================
