------------------------------- MODULE MCTablets -------------------------------
(***************************************************************************)
(* The tablets of WacomReports for TLC, each with one or two tools that it *)
(* supports: one tablet for each pair of a kernel type and a driver model. *)
(***************************************************************************)
EXTENDS WacomChannels

CONSTANTS Tablets    \* the products of this run

Tool(id, serial) == [id |-> id, serial |-> serial]

\* A pen, its eraser or a mouse.  The displays' tools have no serial number
\* of their own.
MCToolsOf == [p \in Tablets |->
    LET t == TypeOf[p]
    IN  CASE t = "INTUOS" -> {Tool(\h822, 1), Tool(\h094, 2)}
          [] t = "WACOM_21UX2" -> {Tool(\h802, 1), Tool(\h10080A, 2)}
          [] t = "INTUOS3" -> {Tool(\h823, 1), Tool(\h017, 2)}
          [] t = "INTUOS3L" -> {Tool(\h82B, 1), Tool(\h097, 2)}
          [] t = "INTUOS4L" -> {Tool(\h802, 1), Tool(\h806, 2)}
          [] t \in IntuosTypes -> {Tool(\h802, 1), Tool(\h80A, 2)}
          [] OTHER -> {Tool(STYLUS_DEVICE_ID, 1), Tool(ERASER_DEVICE_ID, 1)}]


\* The tip, and a button of the mouse if there is one, a side button or the
\* rotation of the pen; all buttons of the pen of some displays
MCSwitchesOf == [p \in Tablets |->
    LET t == TypeOf[p]
    IN  {"ABS_PRESSURE"} \cup
        CASE t \in {"INTUOS3", "INTUOS3L", "INTUOS4L"} -> {"BTN_LEFT"}
          [] t = "INTUOS4" -> {"ABS_Z"}
          [] t \in {"PENPARTNER", "PTU", "DTU"} -> {"BTN_STYLUS"}
          [] t = "PL" -> {"BTN_STYLUS", "BTN_STYLUS2"}
          [] OTHER -> {}]

\* Two pens of the same kind on a tablet with dual input
MCPensOf == [p \in Tablets |-> {Tool(\h822, 1), Tool(\h822, 2)}]

\* What the proofs about these tablets take for granted
ASSUME TabletsAssumption == Supported /\ Agreed /\ FewTools /\ PadsLookedAt /\ NumbersApart
=============================================================================
