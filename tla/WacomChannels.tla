----------------------------- MODULE WacomChannels -----------------------------
(***************************************************************************)
(* The X driver's reader of the tablets of WacomReports, of protocol 4 or  *)
(* 5 (src/xdrv/wcmUSB.c usbParseEvent, usbChooseChannel, usbParseChannel,  *)
(* usbFindDeviceType and src/xdrv/wcmCommon.c xf86WcmEvent): which channel *)
(* the events of a frame are for, the working state of a channel, and the  *)
(* state that is passed on to the tablet's X devices.                      *)
(***************************************************************************)
EXTENDS WacomReports, FiniteSets

MAX_CHANNELS == 3
Channels == 0 .. MAX_CHANNELS - 1
NoChannel == -1
NoType == "UNKNOWN"
Types == {"STYLUS", "ERASER", "CURSOR", "TOUCH", "PAD"}

\* padkey_codes, as far as a tablet of WacomReports has the key
PadKeyCodes == <<"BTN_0", "BTN_1", "BTN_2", "BTN_3", "BTN_4", "BTN_5", "BTN_6", "BTN_7",
                 "BTN_8", "BTN_9", "BTN_A", "BTN_B", "BTN_C", "BTN_X", "BTN_Y", "BTN_Z",
                 "BTN_BASE", "BTN_BASE2", "BTN_BASE3">>

\* The bit of a button of the X driver
ButtonOf(switch) ==
    CASE switch = "BTN_LEFT" -> 0
      [] switch \in {"BTN_STYLUS", "BTN_MIDDLE"} -> 1
      [] switch \in {"BTN_STYLUS2", "BTN_RIGHT"} -> 2
      [] switch = "BTN_SIDE" -> 3
      [] switch = "BTN_EXTRA" -> 4
      [] switch \in ProgKeys -> IF switch = "KEY_PROG1" THEN 27
                                ELSE IF switch = "KEY_PROG2" THEN 28 ELSE 29
      [] OTHER -> (CHOOSE i \in DOMAIN PadKeyCodes : PadKeyCodes[i] = switch) - 1

Axes == {"ABS_PRESSURE", "ABS_Z"}
ButtonsOf(switches) == {ButtonOf(s) : s \in (switches \ Axes) \ ToolKeys}

VARIABLES
    channel,            \* common->wcmChannel
    wcmLastToolSerial

channelVars == <<channel, wcmLastToolSerial>>
allVars == <<reportVars, channelVars>>

\* The fields of WacomDeviceState that matter here; axes are those not zero.
Blank == [type |-> NoType, id |-> 0, proximity |-> FALSE, serial |-> 0,
          buttons |-> {}, axes |-> {}]
BlankChannel == [work |-> Blank, valid |-> Blank, nSamples |-> 0]

WorkState == [type: Types \cup {NoType}, id: Nat, proximity: BOOLEAN, serial: Int,
              buttons: SUBSET (0 .. 29), axes: SUBSET Axes]

ChannelsTypeOK ==
    /\ ReportsTypeOK
    /\ channel \in [Channels -> [work: WorkState, valid: WorkState, nSamples: 0 .. 2]]
    /\ wcmLastToolSerial \in Int

-----------------------------------------------------------------------------
(* usbParseEvent                                                           *)

\* The events of a frame, its SYN_REPORT included; a move is one axis or more.
Count(frame) ==
    Cardinality(frame.on \cup frame.off) + (IF frame.misc # NoMisc THEN 1 ELSE 0)
    + (IF frame.axes THEN 1 ELSE 0) + (IF frame.serial # NoSerial THEN 1 ELSE 0) + 1

SerialOf(frame) == IF frame.serial # NoSerial THEN frame.serial ELSE wcmLastToolSerial

\* A frame without information is dropped.
EmptyFrame(frame) == Count(frame) <= 2 /\ SerialOf(frame) # 0

\* A channel out of proximity starts afresh, in proximity in case the event
\* that says so was missed.
Opened(chan) ==
    IF chan.work.proximity THEN chan
    ELSE [BlankChannel EXCEPT !.work.proximity = TRUE]

-----------------------------------------------------------------------------
(* usbChooseChannel                                                        *)

First(channels) ==
    IF channels = {} THEN NoChannel
    ELSE CHOOSE ch \in channels : \A other \in channels : ch <= other

Holding(serial) == {ch \in Channels : channel[ch].work.proximity
                                      /\ channel[ch].work.serial = serial}
Free == {ch \in Channels : ~channel[ch].work.proximity}

\* Slip: the pad has no channel of its own.
ChooseChannelPlain(serial) ==
    IF ProtocolLevel[product] = 4 THEN IF serial = 0 THEN 0 ELSE 1
    ELSE IF 0 \in Holding(serial) \cup Free THEN 0 ELSE NoChannel

\* By the serial number: the finger or the pad on protocol 4; on protocol 5
\* with dual input the channel that holds it or a free one; else one channel
\* for the pad and one for all other tools.
ChooseChannel(serial) ==
    CASE ProtocolLevel[product] = 4 ->
           IF serial = DtusPadSerial THEN MAX_CHANNELS - 1
           ELSE IF serial # 0 THEN serial - 1 ELSE 0
      [] ProtocolLevel[product] = 5 /\ serial = 0 -> NoChannel
      [] ProtocolLevel[product] = 5 /\ serial # 0 /\ DualInput[product] ->
           IF Holding(serial) # {} THEN First(Holding(serial)) ELSE First(Free)
      [] OTHER ->
           IF serial = PadSerial THEN 1
           ELSE IF 0 \in Holding(serial) \cup Free THEN 0 ELSE NoChannel

-----------------------------------------------------------------------------
(* usbParseChannel                                                         *)

ParseSwitches(w, frame) ==
    [w EXCEPT !.buttons = (@ \cup ButtonsOf(frame.on)) \ ButtonsOf(frame.off),
              !.axes = (@ \cup (frame.on \cap Axes)) \ frame.off]

ProtocolId(t) ==
    CASE t = "STYLUS" -> STYLUS_DEVICE_ID [] t = "ERASER" -> ERASER_DEVICE_ID
      [] t = "CURSOR" -> CURSOR_DEVICE_ID [] OTHER -> PAD_DEVICE_ID

\* A tool's key is its type; it is its id too on protocol 4, and for a pad.
ParseToolKey(w, frame) ==
    LET keys == (frame.on \cup frame.off) \cap ToolKeys
        key == CHOOSE k \in keys : TRUE
        t == KeyType[key]
    IN  IF keys = {} THEN w
        ELSE [w EXCEPT !.type = t, !.proximity = key \in frame.on,
                       !.id = IF ProtocolLevel[product] = 4 \/ t = "PAD"
                              THEN ProtocolId(t) ELSE @]

\* ABS_MISC is the tool's id.
ParseMisc(w, frame) ==
    IF frame.misc = NoMisc THEN w
    ELSE IF frame.misc = 0 THEN [w EXCEPT !.proximity = FALSE]
    ELSE [w EXCEPT !.proximity = TRUE, !.id = frame.misc, !.type = FindDeviceType(frame.misc)]

\* A state still without a type takes it from the keys the kernel holds now,
\* which may be ahead of the events read.
Retyped(w) ==
    LET held == {i \in DOMAIN TypeToKey : TypeToKey[i][2] \in core.on}
        first == CHOOSE i \in held : \A j \in held : i <= j
    IN  IF w.type # NoType THEN w
        ELSE [w EXCEPT !.type = IF held = {} THEN NoType ELSE TypeToKey[first][1],
                       !.id = IF core.misc # 0 THEN core.misc ELSE @,
                       !.proximity = @ \/ core.misc # 0]

Parsed(w, frame, serial) ==
    LET v == ParseSwitches([w EXCEPT !.serial = serial], frame)
    IN  Retyped(IF frame.miscFirst THEN ParseToolKey(ParseMisc(v, frame), frame)
                ELSE ParseMisc(ParseToolKey(v, frame), frame))

\* DTF 720 and DTF 720a do not support an eraser.
NoEraser(w) == product \in {\hC0, \hC2} /\ w.type = "ERASER"

-----------------------------------------------------------------------------
(* xf86WcmEvent                                                            *)

Counted(chan) == chan.nSamples < 2 /\ chan.work.type \notin {"PAD", "TOUCH"}

\* The first two states of a pen or mouse are not used; one in proximity
\* that is close to the last one used is not used either.
After(chan) ==
    IF Counted(chan) THEN {[chan EXCEPT !.nSamples = @ + 1]}
    ELSE {[chan EXCEPT !.valid = chan.work,
                       !.nSamples = IF chan.work.proximity THEN @ ELSE 0]}
         \cup (IF /\ chan.valid.proximity /\ chan.work.proximity
                  /\ chan.work.buttons = chan.valid.buttons
                  /\ chan.work.axes = chan.valid.axes
               THEN {chan} ELSE {})

-----------------------------------------------------------------------------
Take == queue # <<>> /\ queue' = Tail(queue)

ReadEmpty ==
    /\ Take
    /\ EmptyFrame(Head(queue))
    /\ wcmLastToolSerial' = SerialOf(Head(queue))
    /\ UNCHANGED <<product, hand, wac, core, open, channel>>

\* Every tool but the pad is forced out of proximity, and the frame dropped.
Forced == {ch \in Channels : channel[ch].work.proximity /\ channel[ch].work.serial # PadSerial}

ReadLost ==
    LET serial == SerialOf(Head(queue))
    IN  /\ Take
        /\ ~EmptyFrame(Head(queue))
        /\ ChooseChannel(serial) = NoChannel
        /\ wcmLastToolSerial' = serial
        /\ \E after \in [Forced -> UNION {After([channel[ch] EXCEPT !.work.proximity = FALSE]) :
                                           ch \in Forced}] :
             /\ \A ch \in Forced : after[ch] \in After([channel[ch] EXCEPT !.work.proximity = FALSE])
             /\ channel' = [ch \in Channels |-> IF ch \in Forced THEN after[ch] ELSE channel[ch]]
        /\ UNCHANGED <<product, hand, wac, core, open>>

ReadFrame ==
    LET frame == Head(queue)
        serial == SerialOf(frame)
        ch == ChooseChannel(serial)
        opened == Opened(channel[ch])
        chan == [opened EXCEPT !.work = Parsed(@, frame, serial)]
        dropped == NoEraser(chan.work)
    IN  /\ Take
        /\ ~EmptyFrame(frame)
        /\ ch # NoChannel
        /\ \E after \in (IF dropped THEN {chan} ELSE After(chan)) :
             channel' = [channel EXCEPT ![ch] = after]
        /\ wcmLastToolSerial' = IF chan.work.proximity \/ dropped THEN serial ELSE 0
        /\ UNCHANGED <<product, hand, wac, core, open>>

Read == ReadEmpty \/ ReadLost \/ ReadFrame

-----------------------------------------------------------------------------
(* The server's terminal is switched away and back: xf86WcmDevClose,       *)
(* xf86WcmDevOpen.  Meanwhile the kernel reads no reports; the channels    *)
(* are not reset.                                                          *)

Close ==
    /\ open
    /\ open' = FALSE
    /\ queue' = <<>>
    /\ UNCHANGED <<product, hand, wac, core, channelVars>>

Open ==
    /\ ~open
    /\ open' = TRUE
    /\ UNCHANGED <<product, hand, wac, core, queue, channelVars>>

ChannelsInit ==
    /\ ReportsInit
    /\ channel = [ch \in Channels |-> BlankChannel]
    /\ wcmLastToolSerial = 0

Hardware == ReportsNext /\ UNCHANGED channelVars

ChannelsNext == Hardware \/ Read \/ Close \/ Open

ChannelsSpec == ChannelsInit /\ [][ChannelsNext]_allVars

\* The terminal is switched away with nothing near the tablet, and both ways
\* with no key pressed and all events read; no key changes meanwhile, and a
\* tool comes near meanwhile only if it has a serial number and is the only
\* one.  A tool that leaves while a key is pressed has reported a position;
\* nothing is pressed on it if its exit does not reset the switches.
CarefulUser ==
    /\ open' # open => /\ hand.pads = {} /\ queue = <<>>
                       /\ \/ hand.tool = [s \in Slots |-> NoTool]
                          \/ ~open /\ type \in IntuosTypes \ {"INTUOS"}
    /\ hand'.pads # hand.pads => open
    /\ \A s \in Slots :
         hand.tool[s] # NoTool /\ hand'.tool[s] = NoTool /\ open /\ type \in IntuosTypes
         => hand.pads = {} \/ Blocked(s) \/ (wac.id[s] # 0 /\ wac.tool[s] \in core.on)
    /\ type \in {"PL", "PENPARTNER"} /\ hand'.tool[0] = NoTool => hand.pressed[0] = {}

\* No tool of two is too far for a position while the tip of the other is
\* down.
OneAtATime ==
    \A s \in Slots :
      "ABS_PRESSURE" \in hand.pressed[s] /\ hand' = hand /\ core' # core
      => "ABS_PRESSURE" \in core'.on

CarefulSpec == ChannelsInit /\ [][ChannelsNext /\ CarefulUser /\ OneAtATime]_allVars

-----------------------------------------------------------------------------
(* What the proofs take for granted of the tablets, the tools and the keys *)
(* (MCTablets has TLC evaluate it).                                        *)

\* The tablets of wacom_intuos_irq that follow one tool
OneTool == IntuosTypes \ {"INTUOS"}

\* The tablet has the key of each tool.
Supported ==
    \A p \in Products : TypeOf[p] \in OneTool =>
      \A t \in ToolsOf[p] : ToolKeyOf(t.id) \in Capabilities[TypeOf[p]]

\* The two drivers agree on what a tool is.
Agreed ==
    \A p \in Products : TypeOf[p] \in OneTool =>
      \A t \in ToolsOf[p] : FindDeviceType(t.id) = KeyType[ToolKeyOf(t.id)]

\* The tools of a tablet that follows two at a time have no more serial
\* numbers than the reader has channels.
FewTools ==
    \A p \in Products : TypeOf[p] = "INTUOS" =>
      LET serials == {t.serial : t \in ToolsOf[p]}
      IN  IsFiniteSet(serials) /\ Cardinality(serials) <= MAX_CHANNELS

\* No key is one of those that the pad's report does not look at.
PadsLookedAt == PadKeys \cap ProgKeys = {}

\* No tool has the number by which the reader knows the pad of a DTU-1031.
NumbersApart == \A t \in Tools : t.serial # DtusPadSerial

-----------------------------------------------------------------------------
(* Properties.                                                             *)

Settled == open /\ queue = <<>>

\* The type of a tool in the hand: by the kernel's key for its id, or the
\* key of a display's tool.
TypeInHand(t) ==
    IF type \in IntuosTypes THEN KeyType[ToolKeyOf(t.id)] ELSE KeyType[DisplayKey(t.id)]

\* Once the driver has read all the kernel has sent, every tool it has passed
\* on as near is near, with its own type and serial number, and pressed as
\* the user presses it; although the kernel sends changes only, two tools
\* may share the input core, and the driver drops frames and states.
ToolFollowsHand ==
    Settled =>
      \A ch \in Channels :
        LET v == channel[ch].valid
        IN  v.proximity /\ v.type # "PAD" =>
              \E s \in Slots :
                /\ hand.tool[s] # NoTool
                /\ v.type = TypeInHand(hand.tool[s])
                /\ ProtocolLevel[product] = 5 => v.serial = hand.tool[s].serial
                /\ v.buttons = ButtonsOf(hand.pressed[s] \cap Codes)
                /\ v.axes = hand.pressed[s] \cap Axes \cap Codes

\* Once the driver has read all, the pad's channel has the express keys the
\* user presses; pads and tools come through one queue and share the tool id
\* of the input core.
PadFollowsHand ==
    Settled =>
      \A ch \in Channels :
        channel[ch].valid.serial \in {PadSerial, DtusPadSerial} =>
          /\ channel[ch].valid.type = "PAD"
          /\ channel[ch].valid.buttons = ButtonsOf(hand.pads)

\* No tool is forced out of proximity for want of a channel ("This should
\* never happen in normal use").
NeverForcedOut ==
    queue # <<>> /\ ~EmptyFrame(Head(queue)) =>
      ChooseChannel(SerialOf(Head(queue))) # NoChannel \/ Forced = {}
=============================================================================
