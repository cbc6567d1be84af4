---------------------------- MODULE WacomReports ----------------------------
(***************************************************************************)
(* The kernel handlers of the USB tablets with one event device            *)
(* (src/2.6.30/wacom_wac.c): wacom_intuos_irq and the serial numbers of    *)
(* its tools, two of which an Intuos or Intuos2 follows at a time, and the *)
(* displays' wacom_pl_irq, wacom_dtu_irq, wacom_dtus_irq, wacom_ptu_irq    *)
(* and wacom_penpartner_irq.  What a handler reports is passed on by the   *)
(* input core if the device declared it and its value changed.             *)
(*                                                                         *)
(* A switch is an event code that is on or off; "ABS_PRESSURE" stands for  *)
(* a tip pressed, "ABS_Z" for a pen turned.  Coordinates are reduced to    *)
(* "some axis changed".                                                    *)
(***************************************************************************)
EXTENDS WacomModels

CONSTANTS
    Products,       \* the tablets that may be plugged in
    ToolsOf,        \* the user's tools for each, by id and serial number
    SwitchesOf,     \* bound: the switches of a tool that a user presses, for each
    PadKeys,        \* bound: the express keys that a user presses
    MaxQueue        \* bound: the hardware rests while this much is unread

ASSUME ReportsAssumption ==
    /\ Products \subseteq ProductIds
    /\ \A p \in Products : TypeOf[p] \in IntuosTypes \cup PenDisplays
    /\ PadKeys \subseteq ExpressKeys
    /\ ToolsOf \in [Products -> SUBSET [id: Nat \ {0}, serial: Nat \ {0}]]
    /\ MaxQueue \in Nat \ {0}

Tools == UNION {ToolsOf[p] : p \in Products}
NoTool == [id |-> 0, serial |-> 0]
NoKey == "BTN_0 of nothing"
NoMisc == -1
NoSerial == -2
PadSerial == -1        \* 0xffffffff
DtusPadSerial == 240   \* 0xf0
Slots == {0, 1}

VARIABLES
    product,     \* the tablet
    hand,        \* the tools near the tablet, what is pressed on them, the keys
    wac,         \* tool, id and serial of struct wacom_wac
    core,        \* the input core's current values
    queue,       \* the events the driver has not read yet
    open         \* the device is open: reports are processed

reportVars == <<product, hand, wac, core, queue, open>>

type == TypeOf[product]

Codes == Capabilities[type]
Frame == [on: SUBSET Codes, off: SUBSET Codes, misc: Nat \cup {NoMisc},
          miscFirst: BOOLEAN, serial: Int, axes: BOOLEAN]

ReportsTypeOK ==
    /\ product \in Products
    /\ hand \in [tool: [Slots -> Tools \cup {NoTool}], pressed: [Slots -> SUBSET SwitchesOf[product]],
                 pads: SUBSET PadKeys]
    /\ wac \in [tool: [Slots -> ToolKeys \cup {NoKey}], id: [Slots -> Nat],
                serial: [Slots -> Nat]]
    /\ core \in [on: SUBSET Codes, misc: Nat, origin: BOOLEAN]
    /\ queue \in Seq(Frame)
    /\ open \in BOOLEAN

-----------------------------------------------------------------------------
(* The input core.                                                         *)

Report(on, off, misc, miscFirst, serial, axes) ==
    [on |-> on, off |-> off, misc |-> misc, miscFirst |-> miscFirst,
     serial |-> serial, axes |-> axes]

Heard(codes) == codes \cap Capabilities[type]

Changed(r) ==
    [r EXCEPT !.on = Heard(@) \ core.on, !.off = Heard(@) \cap core.on,
              !.misc = IF @ = core.misc THEN NoMisc ELSE @]

\* A report up to its input_sync.  atOrigin: it wrote the coordinates of no
\* tool, all zero.
Send(r, atOrigin) ==
    LET frame == Changed(r)
    IN  /\ core' = [on |-> (core.on \cup Heard(r.on)) \ r.off,
                    misc |-> IF r.misc = NoMisc THEN core.misc ELSE r.misc,
                    origin |-> atOrigin]
        /\ queue' = IF /\ frame.on \cup frame.off = {} /\ frame.misc = NoMisc
                       /\ frame.serial = NoSerial /\ ~frame.axes
                    THEN queue ELSE Append(queue, frame)

\* A report of a tool that is near, or of one that leaves
SendNear(r) == Send(r, core.origin /\ ~r.axes)
SendAway(r) == Send([r EXCEPT !.axes = ~core.origin], TRUE)

Ignore == UNCHANGED <<core, queue>>

Room == Len(queue) < MaxQueue

-----------------------------------------------------------------------------
(* wacom_intuos_irq                                                        *)

Pens == {"BTN_TOOL_PEN", "BTN_TOOL_PENCIL", "BTN_TOOL_BRUSH", "BTN_TOOL_AIRBRUSH",
         "BTN_TOOL_RUBBER"}
PenSwitches == {"ABS_PRESSURE", "BTN_STYLUS", "BTN_STYLUS2"}

\* The switches that one packet of a tool reports; several kinds of packet
\* alternate.  A mouse is a 4D mouse or a 2D mouse by its id.
Packets(key) ==
    CASE key \in Pens ->
           {PenSwitches} \cup (IF type = "INTUOS" THEN {{}} ELSE {{"ABS_Z"}})
      [] key = "BTN_TOOL_MOUSE" /\ type = "INTUOS" -> {PuckButtons, {}}
      [] key = "BTN_TOOL_MOUSE" /\ type \in Intuos3 \cup Intuos4 \cup Intuos5 -> {PuckButtons}
      [] key = "BTN_TOOL_MOUSE" /\ type \notin {"INTUOS"} \cup Intuos3 \cup Intuos4 \cup Intuos5 ->
           {{"BTN_LEFT", "BTN_MIDDLE", "BTN_RIGHT"}}
      [] key = "BTN_TOOL_LENS" -> {PuckButtons}

\* On an Intuos or Intuos2 a lens cursor's packet is read as a 4D mouse's,
\* whose fifth button has the bit of the lens cursor's fourth.
Pressed(key, pressed) ==
    IF key = "BTN_TOOL_LENS" /\ type = "INTUOS"
    THEN (pressed \ {"BTN_SIDE", "BTN_EXTRA"})
         \cup (IF "BTN_SIDE" \in pressed THEN {"BTN_EXTRA"} ELSE {})
    ELSE pressed

\* Older Intuos4 styli do not work with the Cintiq 21UX2.
Blocked(slot) == type = "WACOM_21UX2" /\ (wac.id[slot] \div 1048576) % 2 = 0

\* Only large Intuos support the lens cursor.
LensUnsupported(slot) ==
    /\ wac.tool[slot] = "BTN_TOOL_LENS"
    /\ type \in {"INTUOS3", "INTUOS3S", "INTUOS4", "INTUOS4S", "INTUOS5", "INTUOS5S",
                 "INTUOSPM", "INTUOSPS"}

\* A packet of a tool whose enter report was not seen is ignored.
Unheard(slot) == Blocked(slot) \/ wac.id[slot] = 0 \/ LensUnsupported(slot)

ToolReport(slot, on, off, axes) ==
    Report(on \cup {wac.tool[slot]}, off, wac.id[slot], TRUE, wac.serial[slot], axes)

\* The switches that the exit report of a tool resets
ResetSwitches(slot) ==
    IF wac.tool[slot] \in {"BTN_TOOL_MOUSE", "BTN_TOOL_LENS"} THEN PuckButtons
    ELSE PenSwitches \cup (IF type = "INTUOS" THEN {} ELSE {"ABS_Z"})

\* Slip: the tool id is kept on the tablet that has left.
ExitReportKept(slot) ==
    Report({}, ResetSwitches(slot), wac.id[slot], FALSE, wac.serial[slot], FALSE)

ExitReport(slot) ==
    Report({}, ResetSwitches(slot) \cup {wac.tool[slot]}, 0, FALSE, wac.serial[slot], FALSE)

\* Only an Intuos or Intuos2 numbers its tools.
Slot(slot) == type \in IntuosTypes /\ (slot = 0 \/ type = "INTUOS")

\* wacom_intuos_inout, enter report
Enter(slot, t) ==
    /\ Slot(slot)
    /\ hand.tool[slot] = NoTool
    /\ \A other \in Slots : hand.tool[other] # t
    /\ hand' = [hand EXCEPT !.tool[slot] = t]
    /\ wac' = IF open THEN [tool |-> [wac.tool EXCEPT ![slot] = ToolKeyOf(t.id)],
                            id |-> [wac.id EXCEPT ![slot] = t.id],
                            serial |-> [wac.serial EXCEPT ![slot] = t.serial]]
              ELSE wac
    /\ UNCHANGED <<product, core, queue, open>>

\* wacom_intuos_inout, exit report; the tool leaves with nothing pressed.
Exit(slot) ==
    /\ Slot(slot)
    /\ hand.tool[slot] # NoTool
    /\ Room
    /\ hand' = [hand EXCEPT !.tool[slot] = NoTool, !.pressed[slot] = {}]
    /\ IF ~open \/ Blocked(slot) THEN Ignore /\ UNCHANGED wac
       ELSE /\ SendAway(ExitReport(slot))
            /\ wac' = [wac EXCEPT !.id[slot] = 0]
    /\ UNCHANGED <<product, open>>

\* wacom_probe gives only these of the tablets here a record shared with the
\* touch interface; for all others wac->shared is a null pointer.
HasShared == type \in Intuos5

\* wacom_intuos_inout, range report: too far for a position, so not pressed.  It
\* is written into the shared record that a pen is near; on a tablet that has
\* none the kernel dies there, and nothing comes after that could be said
\* anything of.
RangeReport(slot) ==
    /\ Slot(slot)
    /\ HasShared
    /\ hand.tool[slot] # NoTool
    /\ "ABS_PRESSURE" \notin hand.pressed[slot]
    /\ open /\ ~Unheard(slot)
    /\ Room
    /\ SendNear(ToolReport(slot, {}, {"ABS_PRESSURE"}, TRUE))
    /\ UNCHANGED <<product, hand, wac, open>>

\* A packet of a tool, after a change of what is pressed that it reports.  A
\* Cintiq's packet counts only if ready; the hardware is not ready between
\* changes.
ToolPacket(slot, pressed, axes, ready) ==
    /\ Slot(slot)
    /\ hand.tool[slot] # NoTool
    /\ ready \/ (type = "CINTIQ" /\ pressed = hand.pressed[slot])
    /\ Room
    /\ hand' = [hand EXCEPT !.pressed[slot] = pressed]
    /\ \E codes \in Packets(ToolKeyOf(hand.tool[slot].id)) :
         /\ (pressed \ hand.pressed[slot]) \cup (hand.pressed[slot] \ pressed) \subseteq codes
         /\ IF ~open \/ Unheard(slot) \/ (type = "CINTIQ" /\ ~ready) THEN Ignore
            ELSE LET on == Pressed(wac.tool[slot], pressed) \cap codes
                 IN  SendNear(ToolReport(slot, on, codes \ on, axes))
    /\ UNCHANGED <<product, wac, open>>

\* The keys a pad's report writes
PadWritten ==
    CASE type = "INTUOS4S" -> KeysTo(6)
      [] type \in (Intuos4 \ {"INTUOS4S"}) \cup Intuos5 \cup {"WACOM_13HD"} -> KeysTo(8)
      [] type = "DTK" -> KeysTo(5)
      [] type = "WACOM_24HD" -> KeysTo(9) \cup LetterKeys \cup {"BTN_BASE3"}
      [] type = "WACOM_21UX2" -> KeysTo(9) \cup LetterKeys
      [] type = "WACOM_22HD" -> KeysTo(9) \cup LetterKeys \cup ProgKeys
      [] type \in Intuos3 \cup {"CINTIQ", "WACOM_BEE"} -> KeysTo(9)
      [] OTHER -> {}

\* Whether the pad counts as in proximity: the three keys of a 22HD are not
\* looked at.
PadNear(pads) == pads \ ProgKeys # {}

\* wacom_intuos_irq, pad packets
Pad(pads) ==
    /\ type \in IntuosTypes \ {"INTUOS"}
    /\ pads # hand.pads
    /\ pads \subseteq Capabilities[type]
    /\ Room
    /\ hand' = [hand EXCEPT !.pads = pads]
    /\ IF open
       THEN SendNear(Report(pads \cup (IF PadNear(pads) THEN {"BTN_TOOL_FINGER"} ELSE {}),
                        (PadWritten \ pads)
                        \cup (IF PadNear(pads) THEN {} ELSE {"BTN_TOOL_FINGER"}),
                        IF PadNear(pads) THEN PAD_DEVICE_ID ELSE 0, FALSE, PadSerial, FALSE))
       ELSE Ignore
    /\ UNCHANGED <<product, wac, open>>

-----------------------------------------------------------------------------
(* The displays and the PenPartner: one tool at a time, a pen or an eraser, *)
(* which comes near with its first packet.                                 *)

DisplayKey(id) == IF id = ERASER_DEVICE_ID THEN "BTN_TOOL_RUBBER" ELSE "BTN_TOOL_PEN"

DisplayWac(key, id) ==
    [tool |-> [wac.tool EXCEPT ![0] = key], id |-> [wac.id EXCEPT ![0] = id],
     serial |-> wac.serial]

\* Switches as the packet has them, the tool's key and its id
DisplayReport(key, near, pressed, codes, misc, serial, axes) ==
    Report(pressed \cup (IF near THEN {key} ELSE {}),
           (codes \ pressed) \cup (IF near THEN {} ELSE {key}), misc, FALSE, serial, axes)

\* wacom_dtu_irq and the pen of wacom_dtus_irq: the id goes to 0 with the tool.
DtuPacket(t, near, pressed, axes) ==
    LET key == IF near THEN DisplayKey(t.id) ELSE wac.tool[0]
        id == IF near THEN t.id ELSE 0
        r == DisplayReport(key, near, pressed, PenSwitches, id,
                           IF type = "DTUS" THEN 1 ELSE NoSerial, axes)
    IN  /\ wac' = DisplayWac(key, id)
        /\ IF near \/ type = "DTUS" THEN SendNear(r) ELSE SendAway(r)

\* wacom_ptu_irq: the eraser bit chooses the key, the id never goes to 0.
PtuPacket(t, near, pressed, axes) ==
    /\ wac' = DisplayWac(wac.tool[0], t.id)
    /\ SendNear(DisplayReport(DisplayKey(t.id), near, pressed, PenSwitches, t.id, NoSerial, axes))

\* wacom_penpartner_irq, report 1: a tool that leaves resets its tip only.
PenpartnerPacket(t, near, pressed, axes) ==
    LET key == IF near THEN DisplayKey(t.id) ELSE wac.tool[0]
        codes == IF near THEN {"ABS_PRESSURE", "BTN_STYLUS"} ELSE {"ABS_PRESSURE"}
    IN  /\ wac' = IF near THEN DisplayWac(key, t.id) ELSE wac
        /\ SendNear(DisplayReport(key, near, pressed \cap codes, codes,
                              IF near THEN t.id ELSE 0, NoSerial, axes))

\* Slip: an eraser stays one when the second side button is let go.
PlReleasedNot(t) == FALSE

\* The second side button of an eraser is let go: tool[1] is the eraser, and
\* tool[0] says that it is in proximity.
PlReleased(t) ==
    wac.id[0] # 0 /\ wac.tool[1] = "BTN_TOOL_RUBBER" /\ t.id # ERASER_DEVICE_ID

\* wacom_pl_irq: a pen that comes near with its second side button pressed is
\* an eraser until the button is let go; then it leaves and, with the next
\* packet, comes back as a pen.  (wac.id[0] stands for tool[0], the saved
\* proximity.)
PlPacket(t, near, pressed, axes) ==
    LET key == IF wac.id[0] # 0 THEN wac.tool[1] ELSE DisplayKey(t.id)
        id == IF key = "BTN_TOOL_RUBBER" THEN ERASER_DEVICE_ID ELSE STYLUS_DEVICE_ID
        on == IF key = "BTN_TOOL_PEN" THEN pressed ELSE pressed \ {"BTN_STYLUS2"}
    IN  IF near /\ PlReleased(t)
        THEN /\ wac' = [wac EXCEPT !.tool[1] = "BTN_TOOL_PEN"]
             /\ SendNear(Report({}, {"BTN_TOOL_RUBBER"}, NoMisc, FALSE, NoSerial, FALSE))
        ELSE /\ wac' = [wac EXCEPT !.tool[1] = IF near THEN key ELSE @,
                                   !.id[0] = IF near THEN id ELSE 0]
             /\ IF near
                THEN SendNear(DisplayReport(key, TRUE, on, PenSwitches, id, NoSerial, axes))
                ELSE SendAway(Report({}, {IF wac.tool[1] = "BTN_TOOL_RUBBER"
                                          THEN "BTN_TOOL_RUBBER" ELSE "BTN_TOOL_PEN"},
                                     NoMisc, FALSE, NoSerial, FALSE))

DisplayPacket(t, near, pressed, axes) ==
    CASE type \in {"DTU", "DTUS"} -> DtuPacket(t, near, pressed, axes)
      [] type = "PTU" -> PtuPacket(t, near, pressed, axes)
      [] type = "PENPARTNER" -> PenpartnerPacket(t, near, pressed, axes)
      [] type = "PL" -> PlPacket(t, near, pressed, axes)

\* Near, or on the way out; a PL's eraser may become a pen with nothing
\* pressed.
DisplayTool(t, near, pressed, axes) ==
    /\ type \notin IntuosTypes
    /\ t.id \in {STYLUS_DEVICE_ID, ERASER_DEVICE_ID}
    /\ hand.tool[0] \in {NoTool, t} \/
         (type = "PL" /\ near /\ pressed = {} /\ t.id = STYLUS_DEVICE_ID /\ hand.pressed[0] = {})
    /\ ~near => hand.tool[0] = t /\ pressed = {}
    /\ t.id = ERASER_DEVICE_ID => "BTN_STYLUS2" \notin pressed
    /\ pressed \subseteq PenSwitches
    /\ Room
    /\ hand' = [hand EXCEPT !.tool[0] = IF near THEN t ELSE NoTool, !.pressed[0] = pressed]
    /\ IF open THEN DisplayPacket(t, near, pressed, axes) ELSE Ignore /\ UNCHANGED wac
    /\ UNCHANGED <<product, open>>

\* wacom_dtus_irq, express keys
DtusPad(pads) ==
    /\ type = "DTUS"
    /\ pads # hand.pads
    /\ pads \subseteq KeysTo(3)
    /\ Room
    /\ hand' = [hand EXCEPT !.pads = pads]
    /\ IF open
       THEN SendNear(Report(pads, KeysTo(3) \ pads, IF pads # {} THEN PAD_DEVICE_ID ELSE 0,
                        FALSE, DtusPadSerial, FALSE))
       ELSE Ignore
    /\ UNCHANGED <<product, wac, open>>

-----------------------------------------------------------------------------
ReportsInit ==
    /\ product \in Products
    /\ hand = [tool |-> [s \in Slots |-> NoTool], pressed |-> [s \in Slots |-> {}], pads |-> {}]
    /\ wac = [tool |-> [s \in Slots |-> NoKey], id |-> [s \in Slots |-> 0],
              serial |-> [s \in Slots |-> 0]]
    /\ core = [on |-> {}, misc |-> 0, origin |-> TRUE]
    /\ queue = <<>>
    /\ open = TRUE

ReportsNext ==
    \/ \E slot \in Slots :
         \/ \E t \in ToolsOf[product] : Enter(slot, t)
         \/ Exit(slot)
         \/ RangeReport(slot)
         \/ \E pressed \in SUBSET SwitchesOf[product], axes \in BOOLEAN, ready \in BOOLEAN :
              ToolPacket(slot, pressed, axes, ready)
    \/ \E t \in ToolsOf[product], near \in BOOLEAN, pressed \in SUBSET SwitchesOf[product], axes \in BOOLEAN :
         DisplayTool(t, near, pressed, axes)
    \/ \E pads \in SUBSET PadKeys : Pad(pads) \/ DtusPad(pads)
=============================================================================
