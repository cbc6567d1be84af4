------------------------------- MODULE WacomUSB -------------------------------
(***************************************************************************)
(* The USB input path from the user's hand to the X server: the kernel     *)
(* (WacomWac), the driver's reader (src/xdrv/wcmUSB.c usbParseEvent,       *)
(* usbChooseChannel, usbParseChannel and src/xdrv/wcmCommon.c              *)
(* xf86WcmEvent), and dispatch (WacomDispatch).  The reader sorts the      *)
(* events of a port into channels by serial number, keeps a working state  *)
(* per channel that the events update, and passes a state on unless it is  *)
(* touch that is off or beside a pen, one of the first two of a pen, or    *)
(* nothing new.  Gestures are off.                                         *)
(***************************************************************************)
EXTENDS WacomDispatch, WacomWac

CONSTANT
    Heights        \* bound: the distances a mouse reports

ASSUME UsbAssumption ==
    /\ Heights \subseteq Distances
    /\ Ports = Commons
    /\ wcmProtocolLevel = 4
    /\ MAX_BUTTONS >= 5
    /\ {0, 1, 2, PadSerial} \subseteq Serials
    /\ \A d \in Devices : DevType[d] = "TOUCH" => d \in InitAbsolute \ Remapped

MAX_CHANNELS == 3
Channels == 0 .. MAX_CHANNELS - 1
NoChannel == <<>>

\* wcmTypeToKey
KeyType == [k \in ToolKeys |->
              CASE k = "BTN_TOOL_PEN" -> "STYLUS"
                [] k = "BTN_TOOL_RUBBER" -> "ERASER"
                [] k = "BTN_TOOL_MOUSE" -> "CURSOR"
                [] k = "BTN_TOOL_FINGER" -> "PAD"
                [] OTHER -> "TOUCH"]

\* The button a switch stands for; padkey_codes for the express keys.
ButtonOf == [s \in (PenButtons \cup PadButtons) \ {"ABS_PRESSURE"} |->
               CASE s \in {"BTN_LEFT", "BTN_0"} -> 1
                 [] s \in {"BTN_STYLUS", "BTN_MIDDLE", "BTN_1"} -> 2
                 [] s \in {"BTN_STYLUS2", "BTN_RIGHT", "BTN_2"} -> 3
                 [] s = "BTN_3" -> 4
                 [] OTHER -> 5]

ButtonsOf(switches) == {ButtonOf[s] : s \in switches \cap DOMAIN ButtonOf}

VARIABLES
    channel,            \* common->wcmChannel of each port
    wcmLastToolSerial,  \* of each port
    syslast             \* the channel the last event that was let through is on

usbVars == <<channel, wcmLastToolSerial, syslast>>
allVars == <<vars, wacVars, usbVars>>

\* The fields of WacomDeviceState that the reader sets.
WorkState ==
    [type: Types \cup {NoType}, id: Types \cup {NoId}, proximity: BOOLEAN,
     serial: {0, 1, 2, PadSerial}, buttons: SUBSET Buttons, pressed: BOOLEAN,
     distance: Distances]

\* The last state that was used
ValidState ==
    [proximity: BOOLEAN, buttons: SUBSET Buttons, pressed: BOOLEAN, distance: Distances]

Blank == [type |-> NoType, id |-> NoId, proximity |-> FALSE, serial |-> 0,
          buttons |-> {}, pressed |-> FALSE, distance |-> 0]
NoneValid == [proximity |-> FALSE, buttons |-> {}, pressed |-> FALSE, distance |-> 0]

\* nSamples: samples of this proximity, 2 standing for more.
ChannelState == [work: WorkState, valid: ValidState, nSamples: 0 .. 2]

UsbTypeOK ==
    /\ TypeOK
    /\ WacTypeOK
    /\ channel \in [Commons -> [Channels -> ChannelState]]
    /\ wcmLastToolSerial \in [Commons -> {0, 1, 2, PadSerial}]
    /\ syslast \in (Commons \X Channels) \cup {NoChannel}

-----------------------------------------------------------------------------
(* usbParseEvent and usbChooseChannel.                                     *)

\* The input events of a frame, its SYN_REPORT included; a move is two axes.
Count(frame) ==
    Cardinality(frame.on \cup frame.off) + (IF frame.misc # NoMisc THEN 1 ELSE 0)
    + (IF frame.axes THEN 2 ELSE 0) + (IF frame.serial # NoSerial THEN 1 ELSE 0) + 1

SerialOf(c, frame) ==
    IF frame.serial # NoSerial THEN frame.serial ELSE wcmLastToolSerial[c]

\* A frame without information is dropped.
EmptyFrame(c, frame) == Count(frame) <= 2 /\ SerialOf(c, frame) # 0

ChooseChannel(serial) ==
    IF serial = PadSerial THEN MAX_CHANNELS - 1
    ELSE IF serial # 0 THEN serial - 1 ELSE 0

\* Slip: every frame starts the channel afresh.
OpenedAlways(chan) ==
    [work |-> [chan.work EXCEPT !.proximity = TRUE], valid |-> NoneValid, nSamples |-> 0]

\* A channel out of proximity starts afresh, in proximity in case the event
\* that says so was missed.
Opened(chan) ==
    IF chan.work.proximity THEN chan
    ELSE [work |-> [Blank EXCEPT !.proximity = TRUE], valid |-> NoneValid, nSamples |-> 0]

-----------------------------------------------------------------------------
(* usbParseChannel: the events of a frame, applied to the working state.   *)

\* Slip: the working state starts from nothing.
ParseSwitchesAfresh(w, frame) ==
    [w EXCEPT !.buttons = ButtonsOf(frame.on),
              !.pressed = "ABS_PRESSURE" \in frame.on]

ParseSwitches(w, frame) ==
    [w EXCEPT
       !.buttons = (@ \cup ButtonsOf(frame.on)) \ ButtonsOf(frame.off),
       !.pressed = ("ABS_PRESSURE" \in frame.on) \/ (@ /\ "ABS_PRESSURE" \notin frame.off)]

\* ABS_DISTANCE, that the kernel reports of a mouse and the input core passes
\* on if it changed
Lifts(w, frame) ==
    {w.distance} \cup
    (IF frame.axes /\ (w.type = "CURSOR" \/ "BTN_TOOL_MOUSE" \in frame.on \cup frame.off)
     THEN Heights ELSE {})

\* A tool's key.  Only on tablets other than the Bamboo the first finger is
\* also button 1.
ParseToolKey(w, frame) ==
    LET keys == (frame.on \cup frame.off) \cap DOMAIN KeyType
        key == CHOOSE k \in keys : TRUE
        v == [w EXCEPT !.type = KeyType[key], !.id = KeyType[key],
                       !.proximity = key \in frame.on]
    IN  IF keys = {} THEN w
        ELSE IF key = "BTN_TOOL_DOUBLETAP" /\ features # "BAMBOO_PT"
             THEN [v EXCEPT !.buttons = IF key \in frame.on THEN @ \cup {1} ELSE @ \ {1}]
             ELSE v

\* ABS_MISC, the tool's id
ParseMisc(w, frame) ==
    IF frame.misc = NoMisc THEN w
    ELSE IF frame.misc = NoId THEN [w EXCEPT !.proximity = FALSE]
    ELSE [w EXCEPT !.proximity = TRUE, !.id = frame.misc, !.type = frame.misc]

\* The order in which the kernel's keys are searched for a tool
TypeOrder == <<"STYLUS", "ERASER", "CURSOR", "TOUCH", "PAD">>

\* A state still without a type takes it from the keys the kernel holds now,
\* which may be ahead of the events read.
Retyped(w, now) ==
    LET held == {i \in DOMAIN TypeOrder :
                   \E k \in now.on \cap DOMAIN KeyType : KeyType[k] = TypeOrder[i]}
        first == CHOOSE i \in held : \A j \in held : i <= j
    IN  IF w.type # NoType THEN w
        ELSE [w EXCEPT !.type = IF held = {} THEN NoType ELSE TypeOrder[first],
                       !.id = IF now.misc # NoId THEN now.misc ELSE @,
                       !.proximity = @ \/ now.misc # NoId]

Parsed(w, frame, serial, distance, now) ==
    LET v == ParseSwitches([w EXCEPT !.serial = serial, !.distance = distance], frame)
    IN  Retyped(IF frame.miscFirst THEN ParseToolKey(ParseMisc(v, frame), frame)
                ELSE ParseMisc(ParseToolKey(v, frame), frame), now)

-----------------------------------------------------------------------------
(* xf86WcmEvent, and the way into dispatch.                                *)

\* idtotype takes the id for one of protocol 5: the pad's and the eraser's
\* have the eraser bit, the others look like pucks.
IdToType(id) == IF id \in {"ERASER", "PAD"} THEN "ERASER" ELSE "CURSOR"

PacketOf(s, x, moved) ==
    [type |-> s.type, idType |-> IdToType(s.id), serial |-> s.serial,
     proximity |-> s.proximity, x |-> x, buttons |-> s.buttons,
     pressure |-> IF s.pressed THEN wcmMaxZ ELSE 0, distance |-> s.distance,
     moved |-> moved, other |-> FALSE]

\* commonDispatchDevice; a tool nobody configured reaches no device.
DispatchState(c, s, suppress) ==
    \E x \in Positions, moved \in BOOLEAN : \E ds \in Typed(c, PacketOf(s, x, moved)) :
       \/ Dispatch(c, ds, suppress)
       \/ ToolsFor(c, ds) = {} /\ UNCHANGED vars

Put(c, ch, chan) == channel' = [channel EXCEPT ![c][ch] = chan]

\* Slip: the counter runs on.
DiscardOn(c, ch, chan) ==
    /\ chan.nSamples <= 2
    /\ chan.work.type \notin {"PAD", "TOUCH"}
    /\ Put(c, ch, [chan EXCEPT !.nSamples = @ + 1])
    /\ UNCHANGED vars

\* The first two states of a pen or mouse are not used.
Discard(c, ch, chan) ==
    /\ chan.nSamples < 2
    /\ chan.work.type \notin {"PAD", "TOUCH"}
    /\ Put(c, ch, [chan EXCEPT !.nSamples = @ + 1])
    /\ UNCHANGED vars

Used(chan) == chan.nSamples = 2 \/ chan.work.type \in {"PAD", "TOUCH"}

\* A Bamboo touch point at the edge, or far from the last one, is not used.
DiscardJump(c, ch, chan) ==
    /\ features = "BAMBOO_PT"
    /\ chan.work.type = "TOUCH"
    /\ chan.work.proximity
    /\ Put(c, ch, [chan EXCEPT !.nSamples = IF chan.valid.proximity THEN @ ELSE 0])
    /\ UNCHANGED vars

\* Slip: a prox-out is suppressed like any other state.
StayedEver(chan) == chan.valid.proximity

Stayed(chan) == chan.valid.proximity /\ chan.work.proximity

Same(chan) ==
    /\ chan.work.buttons = chan.valid.buttons
    /\ chan.work.pressed = chan.valid.pressed

\* xf86WcmSuppress: in proximity, a state close to the last one is not used.
Suppress(c, ch, chan) ==
    /\ Used(chan)
    /\ Stayed(chan) /\ Same(chan)
    /\ Put(c, ch, chan)
    /\ UNCHANGED vars

\* The state becomes the channel's valid one; only the first finger is
\* dispatched.
Use(c, ch, chan) ==
    /\ Used(chan)
    /\ Put(c, ch, [work |-> chan.work,
                   valid |-> [f \in DOMAIN chan.valid |-> chan.work[f]],
                   nSamples |-> IF chan.work.proximity THEN 2 ELSE 0])
    /\ IF chan.work.type = "TOUCH" /\ ch # 0 THEN UNCHANGED vars
       ELSE \E suppress \in IF Stayed(chan) /\ Same(chan) THEN {1, 2} ELSE {1} :
              DispatchState(c, chan.work, suppress)

\* Slip: the pen is looked for only on the touch events' own port.
PenNearOwn(c, ch, work) ==
    LET s == channel[c][0].work
    IN  s.type \in {"STYLUS", "ERASER"} /\ s.proximity

\* The last event let through was of a pen in proximity.
PenNear(c, ch, work) ==
    LET s == IF syslast = <<c, ch>> THEN work ELSE channel[syslast[1]][syslast[2]].work
    IN  syslast # NoChannel /\ s.type \in {"STYLUS", "ERASER"} /\ s.proximity

\* Touch is not passed on when it is off, or beside a pen.
Deaf(c, ch, work) == work.type = "TOUCH" /\ (~wcmTouch[c] \/ PenNear(c, ch, work))

ParseDeaf(c, ch, chan, serial) ==
    /\ Put(c, ch, chan)
    /\ wcmLastToolSerial' = [wcmLastToolSerial EXCEPT ![c] = serial]
    /\ UNCHANGED <<vars, syslast>>

ParseHeard(c, ch, chan, serial) ==
    /\ syslast' = <<c, ch>>
    /\ wcmLastToolSerial' = [wcmLastToolSerial EXCEPT ![c] =
         IF chan.work.proximity THEN serial ELSE 0]
    /\ \/ Discard(c, ch, chan)
       \/ DiscardJump(c, ch, chan)
       \/ Suppress(c, ch, chan)
       \/ Use(c, ch, chan)

ReadEmpty(c) ==
    /\ queue[c] # <<>>
    /\ EmptyFrame(c, Head(queue[c]))
    /\ queue' = [queue EXCEPT ![c] = Tail(@)]
    /\ wcmLastToolSerial' = [wcmLastToolSerial EXCEPT ![c] = SerialOf(c, Head(queue[c]))]
    /\ UNCHANGED <<vars, hand, wac, near, core, channel, syslast>>

ReadFrame(c) ==
    LET frame == Head(queue[c])
        serial == SerialOf(c, frame)
        ch == ChooseChannel(serial)
        open == Opened(channel[c][ch])
    IN  /\ queue[c] # <<>>
        /\ ~EmptyFrame(c, frame)
        /\ queue' = [queue EXCEPT ![c] = Tail(@)]
        /\ \E distance \in Lifts(open.work, frame) :
             LET chan == [open EXCEPT !.work = Parsed(@, frame, serial, distance, core[c])]
             IN  \/ Deaf(c, ch, chan.work) /\ ParseDeaf(c, ch, chan, serial)
                 \/ ~Deaf(c, ch, chan.work) /\ ParseHeard(c, ch, chan, serial)
        /\ UNCHANGED <<hand, wac, near, core>>

Read(c) == ReadEmpty(c) \/ ReadFrame(c)

-----------------------------------------------------------------------------
UsbInit ==
    /\ Init
    /\ WacInit
    /\ channel = [c \in Commons |-> [ch \in Channels |->
                    [work |-> Blank, valid |-> NoneValid, nSamples |-> 0]]]
    /\ wcmLastToolSerial = [c \in Commons |-> 0]
    /\ syslast = NoChannel

Hardware == WacNext /\ UNCHANGED <<vars, usbVars>>

Configure == CarefulSettings /\ UNCHANGED <<wacVars, usbVars>>

UsbNext == Hardware \/ Configure \/ \E c \in Commons : Read(c)

UsbSpec == UsbInit /\ [][UsbNext]_allVars

\* A tool that stays near is reported at other coordinates.
Jitter ==
    /\ hand.pen.near
    /\ Len(queue[PenPort]) < MaxQueue
    /\ IF features = "WACOM_G4" THEN GraphirePacket(hand.pen, hand.pads, TRUE)
       ELSE PenPacket(hand.pen, TRUE)
    /\ UNCHANGED <<vars, usbVars>>

\* The server reads a device while it has data (xf86WcmDevReadInput), and the
\* tablet does not report the same coordinates forever.
FairUsbSpec ==
    /\ UsbSpec
    /\ SF_allVars(Jitter)
    /\ \A c \in Commons : WF_allVars(Read(c))
-----------------------------------------------------------------------------
(* Properties.                                                             *)

Pens == {d \in Devices : DevType[d] \in {"STYLUS", "ERASER", "CURSOR"}}

\* The pens are configured on the pen's event device.
PensAtPort == \A d \in Pens : Common[d] = PenPort

\* Only a tool with one area has a serial number of its own.
Unshared == \A t \in Tools : ToolSerial[t] # 0 => ~Shared(t)

\* A tip pressed all the way is a click, at any threshold, for pressure that
\* is not rebased.
TipFelt ==
    /\ wcmNoPressureRecal
    /\ \A t \in Thresholds : t + FILTER_PRESSURE_RES \div 75 < FILTER_PRESSURE_RES

Pads == {d \in Devices : DevType[d] = "PAD"}

\* The pads are enabled from the start on the port of the keys, each the only
\* area of the tool that takes the keys' serial number.
PadsReached ==
    \A d \in Pads :
       /\ d \notin Late /\ Common[d] = TouchPort /\ ~Shared(ToolOf(d))
       /\ ToolOf(d) \in ToolsFor(TouchPort, [type |-> "PAD", serial |-> PadSerial])

\* The fingers have a port of their own, where no express key is reported.
FingersAlone == PenPort # TouchPort /\ (features = "BAMBOO_PT" => PadKeys = {})

\* The buttons the user presses on the tool near the tablet.
HandButtons ==
    ButtonsOf(hand.pen.pressed)
    \cup (IF "ABS_PRESSURE" \in hand.pen.pressed THEN {1} ELSE {})

\* Once the driver has read all the kernel has sent, a pen or mouse in
\* proximity is the one in the user's hand and has the buttons the user
\* presses, although the first two states of a session are thrown away, the
\* kernel sends changes only, and the driver suppresses what is not new.
PenFollowsHand ==
    queue[PenPort] = <<>> =>
      \A d \in Pens : priv[d].oldProximity =>
        /\ hand.pen.near /\ DevType[d] = ToolId[hand.pen.tool]
        /\ priv[d].oldButtons = HandButtons

\* Once the driver has read all, a pad has the express keys the user presses.
PadFollowsHand ==
    queue[TouchPort] = <<>> =>
      \A d \in enabled : DevType[d] = "PAD" => priv[d].oldButtons = ButtonsOf(hand.pads)

\* Once the driver has read all, a touch device is in proximity only if a
\* finger is down.
TouchFollowsHand ==
    (\A c \in Commons : queue[c] = <<>>) =>
      \A d \in Devices : DevType[d] = "TOUCH" /\ hand.fingers = {} => ~xprox[d]

\* No touch device comes into proximity while a pen is ("don't send touch
\* event when pen is in prox").
NoTouchBesidePen ==
    [][\A d, e \in Devices :
         DevType[d] = "TOUCH" /\ ~xprox[d] /\ xprox'[d]
         /\ DevType[e] \in {"STYLUS", "ERASER"} => ~xprox'[e]]_allVars

\* The last sample of a mouse that was used has it farther from the tablet than
\* it was since it was brought near, by more than wcmCursorProxoutDist.
LiftedOff(d) ==
    /\ DevType[d] = "CURSOR" /\ priv[d].hardProx
    /\ wcmMaxCursorDist[PenPort] - channel[PenPort][0].valid.distance > wcmCursorProxoutDist

\* A tool brought near comes into proximity unless it is taken away again or,
\* a mouse, lifted off: the states thrown away and suppressed at the start of
\* a session are not all of them, nor is a mouse kept out by anything but its
\* distance.
PenArrives ==
    hand.pen.near ~> (~hand.pen.near \/ \E d \in Pens : xprox[d] \/ LiftedOff(d))

\* A tool taken away goes out of proximity unless it is brought back.
PenLeaves == ~hand.pen.near ~> (hand.pen.near \/ \A d \in Pens : ~xprox[d])
=============================================================================
