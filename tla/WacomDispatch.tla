---------------------------- MODULE WacomDispatch ----------------------------
(***************************************************************************)
(* The event path every tablet protocol ends in (src/xdrv/wcmCommon.c):    *)
(* commonDispatchDevice picks the tool, the area and with it the X input   *)
(* device a hardware sample is for, turns tip pressure into button 1,      *)
(* sends soft prox-outs to devices the tool or the finger has left, and    *)
(* hands the sample to xf86WcmSendEvents, which keeps the X server's view  *)
(* of the device (proximity, buttons) in step.  The settings that an X     *)
(* client may change at any moment (wcmXCommand.c) are actions too.        *)
(*                                                                         *)
(* Coordinates are abstracted to positions, and a button action to the set *)
(* of X buttons and modifier keys it leaves held.                          *)
(***************************************************************************)
EXTENDS Integers, FiniteSets, Sequences

CONSTANTS
    Commons,             \* WacomCommonRec's, one per port of a tablet
    Devices,             \* WacomDeviceRec's, one per X input device
    Common,              \* priv->common of each device
    NoDevice,            \* a NULL device pointer
    DevType,             \* DEVICE_ID(priv->flags) of each device
    Tools,               \* the tools known to the driver
    ToolCommon,          \* the common whose wcmTool list the tool is on
    ToolType,            \* tool->typeid
    ToolSerial,          \* tool->serial, 0 for the default tool of a type
    AreaList,            \* tool->arealist: the devices that share the tool
    Area,                \* the positions inside each device's area
    MAX_BUTTONS,         \* hardware buttons (32 in the code)
    Codes,               \* X buttons and modifier keys a device can hold
    Actions,             \* values of priv->button[]
    Held,                \* what pressing an action leaves held at the server
    ModeToggles,         \* the AC_MODETOGGLE actions
    InitButton,          \* the configured action of each button of a device
    InitAbsolute,        \* the devices that start in absolute mode
    Packets,             \* the samples the channels may deliver
    Positions,           \* tablet positions
    Serials,             \* tool serial numbers, 0 for "unknown"
    Thresholds,          \* values of common->wcmThreshold
    TPCButtonModes,      \* values of common->wcmTPCButton, configured or set
    TouchModes,          \* values of common->wcmTouch, configured or set
    wcmMaxZ,             \* the largest raw pressure
    FILTER_PRESSURE_RES, \* the normalised pressure range
    wcmNoPressureRecal,  \* TRUE: pressure is never rebased
    wcmProtocolLevel,    \* 4 or 5
    IntuosModel,         \* strstr(common->wcmModel->name, "Intuos")
    wcmCursorProxoutDist,\* cursor distance beyond which it is out
    Remapped,            \* bound: devices whose buttons and mode are reconfigured
    Renumbered,          \* bound: devices whose serial number is reconfigured
    Late                 \* devices the server adds while others are in use

Types == {"STYLUS", "ERASER", "CURSOR", "PAD", "TOUCH"}
NoType == "NONE"                     \* device_type 0
Buttons == 1 .. MAX_BUTTONS
Pressures == 0 .. wcmMaxZ
Distances == 0 .. 256

\* One hardware sample: the fields of WacomDeviceState that dispatch reads.
\* moved: the pointer moved by a pixel or more since the last report;
\* other: a wheel, strip or ring of a pad is away from zero.
Packet ==
    [type: Types \cup {NoType}, idType: Types, serial: Serials,
     proximity: BOOLEAN, x: Positions, buttons: SUBSET Buttons,
     pressure: Pressures, distance: Distances, moved: BOOLEAN, other: BOOLEAN]

ASSUME DeviceAssumption ==
    /\ NoDevice \notin Devices
    /\ Common \in [Devices -> Commons]
    /\ DevType \in [Devices -> Types]
    /\ Remapped \subseteq Devices
    /\ Renumbered \subseteq Devices
    /\ Late \subseteq Devices
    /\ Area \in [Devices -> SUBSET Positions]

\* Every device is an area of exactly one tool, of its own type, and two
\* tools of a port differ in type or in serial (xf86WcmInit merges the others).
ASSUME ToolAssumption ==
    /\ ToolType \in [Tools -> Types]
    /\ ToolSerial \in [Tools -> Serials]
    /\ AreaList \in [Tools -> Seq(Devices)]
    /\ \A t \in Tools : AreaList[t] # <<>>
    /\ ToolCommon \in [Tools -> Commons]
    /\ \A t \in Tools : \A i \in DOMAIN AreaList[t] :
         /\ DevType[AreaList[t][i]] = ToolType[t]
         /\ Common[AreaList[t][i]] = ToolCommon[t]
    /\ \A t, u \in Tools :
         /\ ToolCommon[t] = ToolCommon[u]
         /\ ToolType[t] = ToolType[u]
         /\ ToolSerial[t] = ToolSerial[u]
         => t = u
    /\ \A t, u \in Tools : \A i \in DOMAIN AreaList[t], j \in DOMAIN AreaList[u] :
         AreaList[t][i] = AreaList[u][j] => t = u /\ i = j
    /\ \A d \in Devices : \E t \in Tools : \E i \in DOMAIN AreaList[t] :
         AreaList[t][i] = d

ASSUME ValueAssumption ==
    /\ MAX_BUTTONS \in Nat \ {0}
    /\ Held \in [Actions -> SUBSET Codes]
    /\ ModeToggles \subseteq Actions
    /\ InitButton \in [Devices -> [Buttons -> Actions]]
    /\ InitAbsolute \subseteq Devices
    /\ Packets \subseteq Packet
    /\ Serials \subseteq Nat /\ 0 \in Serials
    /\ wcmMaxZ \in Nat \ {0}
    /\ FILTER_PRESSURE_RES \in Nat \ {0}
    /\ Thresholds \subseteq 1 .. FILTER_PRESSURE_RES /\ Thresholds # {}
    /\ TPCButtonModes \subseteq BOOLEAN /\ TouchModes \subseteq BOOLEAN
    /\ wcmNoPressureRecal \in BOOLEAN
    /\ wcmProtocolLevel \in {4, 5}
    /\ IntuosModel \in BOOLEAN
    /\ wcmCursorProxoutDist \in 0 .. 255

DevicesOf(t) == {AreaList[t][i] : i \in DOMAIN AreaList[t]}
ToolOf(d) == CHOOSE t \in Tools : d \in DevicesOf(t)
Shared(t) == Len(AreaList[t]) > 1

VARIABLES
    priv,             \* priv[d]: the driver's record of device d
    enabled,          \* the devices the X server has enabled
    current,          \* tool->current of each tool
    wcmTPCButton,     \* Tablet PC button mode of each common
    wcmTouch,         \* touch events are enabled, of each common
    wcmThreshold,     \* tip pressure that counts as a click, of each common
    wcmMaxCursorDist, \* the cursor distance extreme of this proximity
    down,             \* what the X server believes each device holds
    xprox             \* the last proximity event posted was ProximityIn

commonVars == <<wcmTPCButton, wcmTouch, wcmThreshold>>
serverVars == <<down, xprox>>
vars == <<priv, enabled, current, wcmMaxCursorDist, commonVars, serverVars>>

PrivState ==
    [oldProximity: BOOLEAN, oldButtons: SUBSET Buttons,
     tpcButtons: BOOLEAN,     \* TPCBUTTONS_FLAG
     tpcButtonOne: BOOLEAN,   \* TPCBUTTONONE_FLAG
     absolute: BOOLEAN,       \* ABSOLUTE_FLAG
     serial: Serials, button: [Buttons -> Actions],
     minPressure: Pressures, hardProx: BOOLEAN]

TypeOK ==
    /\ priv \in [Devices -> PrivState]
    /\ enabled \subseteq Devices
    /\ current \in [Tools -> Devices \cup {NoDevice}]
    /\ wcmTPCButton \in [Commons -> BOOLEAN]
    /\ wcmTouch \in [Commons -> BOOLEAN]
    /\ wcmThreshold \in [Commons -> Thresholds]
    /\ wcmMaxCursorDist \in [Commons -> Distances]
    /\ down \in [Devices -> SUBSET Codes]
    /\ xprox \in [Devices -> BOOLEAN]

-----------------------------------------------------------------------------
(* What the driver posts for one device.  A view joins the driver's record *)
(* of a device and the X server's, the two things one call changes.        *)

View(d) == [dev |-> d, p |-> priv[d], down |-> down[d], xprox |-> xprox[d]]

Tpc(d) == wcmTPCButton[Common[d]] /\ DevType[d] = "STYLUS"

\* Definitions marked Slip are not part of the model: each is a plausible
\* mistake in the definition after it, which a property must reject.

\* sendAButton for the buttons in sent, in increasing order, as a press for
\* those in pressed and as a release for the others.  The action is looked
\* up now, so a release undoes what is configured now.  Where two buttons
\* hold the same code the last one sent decides.
SendAButtons(v, sent, pressed) ==
    LET holds(b) == Held[v.p.button[b]]
        last(c) == {b \in sent : c \in holds(b) /\
                      \A a \in sent : c \in holds(a) => a <= b}
        toggles == {b \in sent \cap pressed :
                      DevType[v.dev] # "PAD" /\ v.p.button[b] \in ModeToggles}
    IN  [v EXCEPT
           !.down = {c \in Codes : last(c) \cap pressed # {}} \cup
                    {c \in v.down : \A b \in sent : c \notin holds(b)},
           !.p.absolute = IF Cardinality(toggles) % 2 = 1 THEN ~@ ELSE @]

\* Slip: presses are never noticed.
ChangedUp(v, buttons) == v.p.oldButtons \ buttons

Changed(v, buttons) ==
    (v.p.oldButtons \ buttons) \cup (buttons \ v.p.oldButtons)

\* Tablet PC mode, tip down after it was up: every pressed side button goes
\* down, and button 1 only when there is none (XF86_BUTTON1_BUG).
TpcTipDown(v, buttons) ==
    LET side == buttons \ {1}
        w == [v EXCEPT !.p.tpcButtons = TRUE]
    IN  IF side # {} THEN SendAButtons(w, side, side)
        ELSE SendAButtons([w EXCEPT !.p.tpcButtonOne = TRUE], {1}, {1})

\* Slip: the XF86_BUTTON1_BUG release is forgotten.
TpcTipHeldNoRelease(v, buttons) ==
    SendAButtons([v EXCEPT !.p.tpcButtonOne = FALSE],
                 Changed(v, buttons) \ {1}, buttons)

\* Tip still down: changed side buttons are sent, after button 1 is let go.
TpcTipHeld(v, buttons) ==
    LET side == Changed(v, buttons) \ {1}
    IN  IF v.p.tpcButtonOne /\ side # {}
        THEN SendAButtons(SendAButtons([v EXCEPT !.p.tpcButtonOne = FALSE], {1}, {}),
                     side, buttons)
        ELSE SendAButtons(v, side, buttons)

\* Tip up: everything sent while it was down is released.
TpcTipUp(v, buttons) ==
    LET side == (Changed(v, buttons) \cup buttons) \ {1}
        one == IF v.p.tpcButtonOne THEN {1} ELSE {}
    IN  SendAButtons([v EXCEPT !.p.tpcButtons = FALSE, !.p.tpcButtonOne = FALSE],
                     side \cup one, {})

\* xf86WcmSendButtons
SendButtons(v, buttons) ==
    IF ~Tpc(v.dev) THEN SendAButtons(v, Changed(v, buttons), buttons)
    ELSE IF 1 \in buttons
         THEN IF v.p.tpcButtons THEN TpcTipHeld(v, buttons)
                                ELSE TpcTipDown(v, buttons)
         ELSE IF v.p.tpcButtons THEN TpcTipUp(v, buttons) ELSE v

\* The buttons are sent when they changed, and when all are up on entry.
SendCommonEvents(v, buttons) ==
    IF v.p.oldButtons # buttons \/ (~v.p.oldProximity /\ buttons = {})
    THEN SendButtons(v, buttons) ELSE v

\* A sample with the device in proximity: ProximityIn if it is new, then the
\* buttons.
InProximity(v, buttons) ==
    LET q == IF v.p.oldProximity THEN v
             ELSE [v EXCEPT !.p.oldButtons = {}, !.xprox = TRUE]
        r == SendCommonEvents(q, buttons)
    IN  [r EXCEPT !.p.oldProximity = TRUE, !.p.oldButtons = buttons]

\* Slip: the buttons are not let go.
OutOfProximityHolding(v) ==
    [v EXCEPT !.p.oldProximity = FALSE, !.p.oldButtons = {}, !.xprox = FALSE]

\* A sample out of proximity: all buttons up, then ProximityOut.
OutOfProximity(v) ==
    LET q == IF v.p.oldProximity THEN v ELSE [v EXCEPT !.p.oldButtons = {}]
        r == SendButtons(q, {})
    IN  [r EXCEPT !.p.oldProximity = FALSE, !.p.oldButtons = {},
                  !.xprox = IF q.p.oldProximity THEN FALSE ELSE @]

\* xf86WcmSendEvents: a device configured for one serial number takes no
\* other; a pad is in proximity while anything on it is touched.
SendEvents(v, ds) ==
    IF v.p.serial # 0 /\ ds.serial # v.p.serial THEN v
    ELSE IF (IF ds.type = "PAD" THEN ds.other \/ ds.buttons # {} ELSE ds.proximity)
         THEN InProximity(v, ds.buttons)
         ELSE OutOfProximity(v)

\* Slip: a soft prox-out that posts only ProximityOut.
SoftOutHolding(v) == OutOfProximityHolding(v)

\* xf86WcmSoftOutEvent: an empty sample, with serial number 0.
SoftOut(v) ==
    SendEvents(v, [type |-> DevType[v.dev], serial |-> 0, proximity |-> FALSE,
                   buttons |-> {}, other |-> FALSE])

-----------------------------------------------------------------------------
(* commonDispatchDevice, step by step.                                     *)

\* A sample without a type gets one from its device id, or from the tool
\* that has its serial number.
Typed(c, pk) ==
    LET named == {t \in Tools : ToolCommon[t] = c /\ ToolSerial[t] = pk.serial}
    IN  IF pk.type # NoType \/ ~pk.proximity THEN {pk}
        ELSE IF pk.serial # 0 /\ named # {}
             THEN {[pk EXCEPT !.type = ToolType[t]] : t \in named}
             ELSE {[pk EXCEPT !.type = pk.idType]}

\* The port's tool with the sample's serial number, else the default of its
\* type.
ToolsFor(c, ds) ==
    LET with(s) == {t \in Tools : /\ ToolCommon[t] = c
                                  /\ ToolType[t] = ds.type
                                  /\ ToolSerial[t] = s}
    IN  IF with(ds.serial) # {} THEN with(ds.serial) ELSE with(0)

PointInArea(d, x) == x \in Area[d]

\* The first area of the tool that contains the point.
FirstArea(t, x) ==
    LET hits == {i \in DOMAIN AreaList[t] : PointInArea(AreaList[t][i], x)}
    IN  IF hits = {} THEN NoDevice
        ELSE AreaList[t][CHOOSE i \in hits : \A j \in hits : i <= j]

\* The tool has left its current area for another one of its areas.
LeavesArea(t, x) ==
    /\ current[t] # NoDevice
    /\ Shared(t)
    /\ ~PointInArea(current[t], x)
    /\ FirstArea(t, x) # NoDevice

AreaFor(t, x) ==
    IF LeavesArea(t, x) THEN FirstArea(t, x)
    ELSE IF current[t] # NoDevice THEN current[t]
    ELSE IF Shared(t) THEN FirstArea(t, x) ELSE AreaList[t][1]

\* Slip: the old area is forgotten.
AreaOutsNone(t, x) == {}

AreaOuts(t, x) == IF LeavesArea(t, x) THEN {current[t]} ELSE {}

\* Slip: only a stylus ends touch.
TouchOutsStylus(d) ==
    IF DevType[d] = "STYLUS" /\ wcmTouch[Common[d]]
    THEN {e \in Devices : DevType[e] = "TOUCH" /\ priv[e].oldProximity} ELSE {}

\* The touch devices, of any port, that a pen, mouse or pad coming into
\* proximity sends out if touch is enabled at its own port.
TouchOuts(d) ==
    IF DevType[d] # "TOUCH" /\ wcmTouch[Common[d]] /\ ~priv[d].oldProximity
    THEN {e \in Devices : DevType[e] = "TOUCH" /\ priv[e].oldProximity}
    ELSE {}

Lesser(a, b) == IF a <= b THEN a ELSE b
Greater(a, b) == IF a <= b THEN b ELSE a
Abs(n) == IF n < 0 THEN -n ELSE n

\* Slip: the minimum drifts below zero.
MinPressureDrift(p, ds) ==
    IF p.oldProximity THEN p.minPressure - ds.pressure ELSE ds.pressure

\* rebasePressure
MinPressure(p, ds) ==
    IF wcmNoPressureRecal THEN 0
    ELSE IF p.oldProximity THEN Lesser(p.minPressure, ds.pressure) ELSE ds.pressure

\* The pressure above the tool's minimum, scaled to FILTER_PRESSURE_RES.
Normalized(pressure, minp) ==
    IF pressure > minp
    THEN ((pressure - minp) * FILTER_PRESSURE_RES) \div (wcmMaxZ - minp)
    ELSE 0

\* Button 1 follows the tip pressure, except in the tolerance band above the
\* threshold, where the sample's own button 1 is kept.
TipButton(ds, minp, threshold) ==
    LET tol == FILTER_PRESSURE_RES \div 75
        more == IF minp # 0 THEN 2 * tol ELSE 0
        pressure == Normalized(ds.pressure, minp)
    IN  IF pressure < threshold + more THEN ds.buttons \ {1}
        ELSE IF pressure > threshold + tol + more THEN ds.buttons \cup {1}
        ELSE ds.buttons

HasTip(d) == DevType[d] \in {"STYLUS", "ERASER"}

\* What dispatch notes in the device's record before it sends anything.
Noted(d, ds) ==
    [priv[d] EXCEPT
       !.minPressure = IF HasTip(d) THEN MinPressure(priv[d], ds) ELSE @,
       !.hardProx = IF DevType[d] # "TOUCH" THEN ds.proximity ELSE @]

\* Slip: news besides movement is dropped too.
IdlesDeaf(d, ds, suppress) == ~priv[d].absolute /\ ~ds.moved

\* Relative mode, no movement and nothing else to report: the sample ends here.
Idles(d, ds, suppress) ==
    ~priv[d].absolute /\ DevType[d] # "PAD" /\ ~ds.moved /\ suppress # 1

\* The extreme cursor distance before and after this sample.
CursorStart(d) ==
    IF DevType[d] = "CURSOR" /\ ~priv[d].hardProx
    THEN (IF IntuosModel THEN 256 ELSE 0) ELSE wcmMaxCursorDist[Common[d]]

CursorDist(d, ds) ==
    IF wcmProtocolLevel = 5 THEN Lesser(CursorStart(d), ds.distance)
    ELSE Greater(CursorStart(d), ds.distance)

Far(d, ds) == Abs(ds.distance - CursorDist(d, ds)) > wcmCursorProxoutDist

\* A cursor that is out stays out until it is near the tablet.
HeldOut(d, ds) ==
    /\ DevType[d] = "CURSOR"
    /\ ~priv[d].oldProximity
    /\ Far(d, ds) \/ ~ds.proximity

\* The sample as the device gets it: tip button, forced cursor prox-out.
Filtered(d, ds) ==
    [ds EXCEPT
       !.buttons = IF HasTip(d)
                   THEN TipButton(ds, MinPressure(priv[d], ds), wcmThreshold[Common[d]])
                   ELSE @,
       !.proximity = @ /\ ~(DevType[d] = "CURSOR" /\ priv[d].oldProximity
                            /\ Far(d, ds))]

\* Post soft prox-outs to the devices in outs and view v to device d.
Post(outs, d, v) ==
    LET view(e) == IF e = d THEN v
                   ELSE IF e \in outs THEN SoftOut(View(e)) ELSE View(e)
    IN  /\ priv' = [e \in Devices |-> view(e).p]
        /\ down' = [e \in Devices |-> view(e).down]
        /\ xprox' = [e \in Devices |-> view(e).xprox]

PostOuts(outs) == Post(outs, NoDevice, <<>>)

\* No area of the tool is under the sample, or its device is disabled.
DispatchNowhere(t, ds) ==
    LET d == AreaFor(t, ds.x)
    IN  /\ d \notin enabled
        /\ PostOuts(AreaOuts(t, ds.x))
        /\ current' = [current EXCEPT ![t] = d]
        /\ UNCHANGED <<enabled, wcmMaxCursorDist, commonVars>>

\* The sample is noted, but the device gets nothing.
DispatchIdle(t, ds, suppress) ==
    LET d == AreaFor(t, ds.x)
        outs == AreaOuts(t, ds.x) \cup TouchOuts(d)
        idle == Idles(d, ds, suppress)
    IN  /\ d \in enabled
        /\ idle \/ HeldOut(d, ds)
        /\ Post(outs, d, [View(d) EXCEPT !.p = Noted(d, ds)])
        /\ current' = [current EXCEPT ![t] = d]
        /\ wcmMaxCursorDist' = [wcmMaxCursorDist EXCEPT ![Common[d]] =
             IF idle THEN CursorStart(d) ELSE CursorDist(d, ds)]
        /\ UNCHANGED <<enabled, commonVars>>

\* The sample reaches the X server.
DispatchSend(t, ds, suppress) ==
    LET d == AreaFor(t, ds.x)
        outs == AreaOuts(t, ds.x) \cup TouchOuts(d)
        filtered == Filtered(d, ds)
    IN  /\ d \in enabled
        /\ ~Idles(d, ds, suppress)
        /\ ~HeldOut(d, ds)
        /\ Post(outs, d, SendEvents([View(d) EXCEPT !.p = Noted(d, ds)], filtered))
        /\ current' = [current EXCEPT ![t] = IF filtered.proximity THEN d ELSE NoDevice]
        /\ wcmMaxCursorDist' = [wcmMaxCursorDist EXCEPT ![Common[d]] =
             IF DevType[d] = "CURSOR" THEN CursorDist(d, ds) ELSE @]
        /\ UNCHANGED <<enabled, commonVars>>

\* commonDispatchDevice of a sample of port c.  suppress is 1 for a sample
\* with news besides movement and 2 for mere movement.
Dispatch(c, ds, suppress) ==
    \E t \in ToolsFor(c, ds) :
       \/ DispatchNowhere(t, ds)
       \/ DispatchIdle(t, ds, suppress)
       \/ DispatchSend(t, ds, suppress)

Sample ==
    \E c \in Commons, pk \in Packets, suppress \in {1, 2} :
       \E ds \in Typed(c, pk) : Dispatch(c, ds, suppress)

-----------------------------------------------------------------------------
(* Settings an X client changes while the tablet is in use.                *)

\* xf86WcmSetButtonParam
SetButton(d, b, action) ==
    /\ priv' = [priv EXCEPT ![d].button[b] = action]
    /\ UNCHANGED <<enabled, current, wcmMaxCursorDist, commonVars, serverVars>>

\* XWACOM_PARAM_SERIAL: only the device's number changes, not the tool's.
SetSerial(d, serial) ==
    /\ wcmProtocolLevel = 5
    /\ priv' = [priv EXCEPT ![d].serial = serial]
    /\ UNCHANGED <<enabled, current, wcmMaxCursorDist, commonVars, serverVars>>

\* XWACOM_PARAM_MODE, for devices other than pads
SetMode(d, absolute) ==
    /\ DevType[d] # "PAD"
    /\ priv' = [priv EXCEPT ![d].absolute = absolute]
    /\ UNCHANGED <<enabled, current, wcmMaxCursorDist, commonVars, serverVars>>

\* XWACOM_PARAM_TPCBUTTON
SetTPCButton(c, on) ==
    /\ wcmTPCButton' = [wcmTPCButton EXCEPT ![c] = on]
    /\ UNCHANGED <<priv, enabled, current, wcmMaxCursorDist, serverVars>>
    /\ UNCHANGED <<wcmTouch, wcmThreshold>>

\* XWACOM_PARAM_TOUCH
SetTouch(c, on) ==
    /\ wcmTouch' = [wcmTouch EXCEPT ![c] = on]
    /\ UNCHANGED <<priv, enabled, current, wcmMaxCursorDist, serverVars>>
    /\ UNCHANGED <<wcmTPCButton, wcmThreshold>>

\* XWACOM_PARAM_THRESHOLD, XWACOM_PARAM_CLICKFORCE
SetThreshold(c, value) ==
    /\ wcmThreshold' = [wcmThreshold EXCEPT ![c] = value]
    /\ UNCHANGED <<priv, enabled, current, wcmMaxCursorDist, serverVars>>
    /\ UNCHANGED <<wcmTPCButton, wcmTouch>>

\* The X server initialises and enables one more device.  It is one step:
\* between the two, as while an enabled device is disabled, the driver reads
\* no samples (xf86WcmDevReadInput compares the counts of both).
Enable(d) ==
    /\ d \notin enabled
    /\ enabled' = enabled \cup {d}
    /\ UNCHANGED <<priv, current, wcmMaxCursorDist, commonVars, serverVars>>

-----------------------------------------------------------------------------
InitPriv(d) ==
    [oldProximity |-> FALSE, oldButtons |-> {}, tpcButtons |-> FALSE,
     tpcButtonOne |-> FALSE, absolute |-> d \in InitAbsolute,
     serial |-> ToolSerial[ToolOf(d)], button |-> InitButton[d],
     minPressure |-> 0, hardProx |-> DevType[d] # "TOUCH"]

Init ==
    /\ priv = [d \in Devices |-> InitPriv(d)]
    /\ enabled = Devices \ Late
    /\ current = [t \in Tools |-> NoDevice]
    /\ wcmTPCButton \in [Commons -> TPCButtonModes]
    /\ wcmTouch \in [Commons -> TouchModes]
    /\ wcmThreshold \in [Commons -> Thresholds]
    /\ wcmMaxCursorDist = [c \in Commons |-> IF wcmProtocolLevel = 5 THEN 256 ELSE 0]
    /\ down = [d \in Devices |-> {}]
    /\ xprox = [d \in Devices |-> FALSE]

\* Settings that do not touch what a held button was sent as.
SafeSettings ==
    \/ \E d \in Remapped, absolute \in BOOLEAN : SetMode(d, absolute)
    \/ \E c \in Commons, on \in TouchModes : SetTouch(c, on)
    \/ \E c \in Commons, value \in Thresholds : SetThreshold(c, value)
    \/ \E d \in Late : Enable(d)

ButtonSettings ==
    \/ \E d \in Remapped, b \in Buttons, action \in Actions : SetButton(d, b, action)
    \/ \E c \in Commons, on \in TPCButtonModes : SetTPCButton(c, on)

SerialSettings == \E d \in Renumbered, serial \in Serials : SetSerial(d, serial)

\* Everything the code allows.
Next == Sample \/ SafeSettings \/ ButtonSettings \/ SerialSettings

Spec == Init /\ [][Next]_vars

\* The same, used with care: buttons are reconfigured while no tool is in
\* proximity, and serial numbers only of devices that share no tool.
Quiet == \A d \in Devices : ~priv[d].oldProximity

CarefulSettings ==
    \/ SafeSettings
    \/ \E d \in Remapped, b \in Buttons, action \in Actions :
         Quiet /\ SetButton(d, b, action)
    \/ \E c \in Commons, on \in TPCButtonModes : Quiet /\ SetTPCButton(c, on)
    \/ \E d \in Renumbered, serial \in Serials :
         ~Shared(ToolOf(d)) /\ SetSerial(d, serial)

CarefulNext == Sample \/ CarefulSettings

CarefulSpec == Init /\ [][CarefulNext]_vars
-----------------------------------------------------------------------------
(* Properties.                                                             *)

\* The buttons of a device whose press is outstanding at the X server.
Sent(v) ==
    IF ~Tpc(v.dev) THEN v.p.oldButtons
    ELSE IF v.p.tpcButtonOne THEN {1}
    ELSE IF v.p.tpcButtons THEN v.p.oldButtons \ {1}
    ELSE {}

HeldBy(p, bs) == {c \in Codes : \E b \in bs : c \in Held[p.button[b]]}

\* Nothing is left pressed at the X server by a device that has gone out of
\* proximity, whichever of the hardware prox-out, the soft prox-outs and
\* the forced cursor prox-out took it out ("reports button up when the
\* device has been down and becomes out of proximity").
NoStuckButton == \A d \in Devices : ~xprox[d] => down[d] = {}

\* What the X server holds is owed to a button the hardware reports pressed;
\* in Tablet PC mode to button 1 alone or to side buttons with the tip down.
HeldIsReported == \A d \in Devices : down[d] \subseteq HeldBy(priv[d], Sent(View(d)))

\* Unless two buttons of the device hold a common code, every press the
\* device owes the X server has arrived: no button press is lost by the
\* proximity, area and Tablet PC logic.
Separate(d) ==
    \A a, b \in Buttons :
       a # b => Held[priv[d].button[a]] \cap Held[priv[d].button[b]] = {}

ReportedIsHeld ==
    \A d \in Devices : Separate(d) => HeldBy(priv[d], Sent(View(d))) \subseteq down[d]

\* Of the devices that are areas of one default tool only the tool's
\* current area is in proximity: its last area was sent out before the next
\* one took over, and a forced prox-out forgets the area it took out.
OneInProxPerTool ==
    \A t \in Tools : ToolType[t] # "PAD" /\ ToolSerial[t] = 0 /\ Shared(t) =>
      \A d \in DevicesOf(t) : xprox[d] => current[t] = d

\* The same for every tool, those with a configured serial number included.
OneInProxAnyTool ==
    \A t \in Tools : \A d, e \in DevicesOf(t) : xprox[d] /\ xprox[e] => d = e

\* A prox-out sample leaves no enabled device of its tool in proximity, but
\* for the areas of a tool with a configured serial number, whose soft
\* prox-outs are dropped.
OutMeansOut ==
    [][\A c \in Commons, pk \in Packets :
         ~pk.proximity /\ pk.type \in Types \ {"PAD"} /\ Dispatch(c, pk, 1) =>
           \A t \in ToolsFor(c, pk) : \A d \in DevicesOf(t) :
             /\ DevicesOf(t) \subseteq enabled
             /\ priv[d].serial = 0 \/ (priv[d].serial = pk.serial /\ ~Shared(t))
             => ~xprox'[d]]_vars

\* With touch enabled at its port, a pen, mouse or pad that comes into
\* proximity leaves no touch device in proximity.
PenEndsTouch ==
    [][\A d, e \in Devices :
         /\ wcmTouch[Common[d]]
         /\ DevType[d] # "TOUCH" /\ ~xprox[d] /\ xprox'[d]
         /\ DevType[e] = "TOUCH" /\ priv[e].serial = 0
         => ~xprox'[e]]_vars

\* Every report is a step of the abstract proximity sessions, in which the
\* areas of a default tool share one session.
Groups ==
    {DevicesOf(t) : t \in {u \in Tools : ToolType[u] # "PAD" /\ ToolSerial[u] = 0}}

Session == INSTANCE WacomSession WITH inprox <- xprox, pressed <- down

SessionSpec == Session!SessionSpec

=============================================================================
