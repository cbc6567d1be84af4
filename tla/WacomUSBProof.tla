----------------------------- MODULE WacomUSBProof -----------------------------
(***************************************************************************)
(* Proofs about WacomUSB.  The kernel sends only tool ids and serial       *)
(* numbers that the reader knows, so every frame goes to a channel that    *)
(* exists and every state dispatched is a sample of WacomDispatch, whose   *)
(* invariant therefore holds of the whole path from hand to X server.      *)
(*                                                                         *)
(* The second part is that the pens follow the user's hand, and the pads   *)
(* of a Graphire the express keys, for any tools, devices, areas and       *)
(* buttons, and however far the driver lags behind the kernel. What the    *)
(* kernel has sent and the driver has not read is a chain of moments: the  *)
(* first is the one the driver's channels show, the last is now, and each  *)
(* frame of the queue tells one moment from the next.                      *)
(*                                                                         *)
(* The third part is that no finger comes in beside a pen: the queue of    *)
(* the fingers' port is a chain of sets of fingers, so the event let       *)
(* through last stays the pen's while a pen is in proximity.               *)
(***************************************************************************)
EXTENDS WacomUSB, WacomDispatchProof, FiniteSetTheorems

\* The inductive invariant.
UsbInv == IInv /\ UsbTypeOK

Inputs == [core: [on: SUBSET Switches, misc: Ids \cup {NoId}], out: Seq(Frame)]
Reports == [on: SUBSET Switches, off: SUBSET Switches, misc: Ids \cup {NoId},
            miscFirst: BOOLEAN, serial: {NoSerial, 1, 2, PadSerial}, axes: BOOLEAN]

-----------------------------------------------------------------------------
(* The kernel.                                                             *)

\* Sending a report leaves an input device an input device.
LEMMA SendType ==
    ASSUME NEW input \in Inputs, NEW r \in Reports
    PROVE  Send(input, r) \in Inputs
<1> DEFINE frame == Changes(input.core, r)
<1>1. frame \in Frame
  BY DEF Changes, Inputs, Reports, Frame
<1>2. Stored(input.core, r) \in [on: SUBSET Switches, misc: Ids \cup {NoId}]
  BY DEF Stored, Inputs, Reports
<1>3. input.out \in Seq(Frame)
  BY DEF Inputs
<1> HIDE DEF frame
<1>4. Append(input.out, frame) \in Seq(Frame)
  BY <1>1, <1>3
<1> QED
  BY <1>2, <1>3, <1>4 DEF Send, Inputs, frame

\* An input device is taken up as it is kept.
LEMMA InputType ==
    ASSUME WacTypeOK, NEW port \in Ports
    PROVE  Input(port) \in Inputs
  BY DEF WacTypeOK, Input, Inputs

\* The switches the reports are made of
LEMMA SwitchTypes ==
    /\ PenButtons \subseteq Switches /\ PadKeys \subseteq Switches
    /\ "BTN_TOOL_FINGER" \in Switches
    /\ \A t \in PenTools : t \in Switches /\ PenSwitches[t] \subseteq PenButtons
                           /\ ToolId[t] \in Ids
    /\ NoId \in Switches
    /\ \A f \in {1, 2} : FingerTool[f] \in Switches
  BY SwitchAssumption, TabletAssumption
  DEF Switches, ToolKeys, ToolId, FingerTool, PenButtons, PadButtons, Ids

\* A pen report is a report.
LEMMA PenReportType ==
    ASSUME NEW tool \in PenTools, NEW id \in Ids \cup {NoId}, NEW pen \in PenHand,
           NEW first \in BOOLEAN, NEW serial \in {NoSerial, 1}, NEW axes \in BOOLEAN
    PROVE  PenReport(tool, id, pen, first, serial, axes) \in Reports
<1>1. pen.pressed \subseteq Switches /\ tool \in Switches
      /\ PenSwitches[tool] \subseteq Switches
  BY SwitchTypes DEF PenHand
<1> QED
  BY <1>1 DEF PenReport, Report, Reports

\* The user's tool is one of the tools.
LEMMA PenNextType ==
    ASSUME WacTypeOK, NEW pen \in PenNext
    PROVE  pen \in PenHand /\ pen.tool \in PenTools
<1>1. hand.pen \in PenHand /\ (hand.pen.near => hand.pen.tool \in PenTools)
  BY DEF WacTypeOK
<1>2. UNION {SUBSET PenSwitches[u] : u \in PenTools} \subseteq SUBSET Switches
  BY SwitchTypes
<1>3. CASE pen \in {[near |-> TRUE, tool |-> t, pressed |-> p] :
                      t \in (IF hand.pen.near THEN {hand.pen.tool} ELSE PenTools),
                      p \in UNION {SUBSET PenSwitches[u] : u \in PenTools}}
  <2>1. PICK t \in (IF hand.pen.near THEN {hand.pen.tool} ELSE PenTools),
             p \in UNION {SUBSET PenSwitches[u] : u \in PenTools} :
               pen = [near |-> TRUE, tool |-> t, pressed |-> p]
    BY <1>3
  <2>2. t \in PenTools /\ p \in SUBSET Switches
    BY <1>1, <1>2
  <2> QED
    BY <2>1, <2>2 DEF PenHand
<1>4. CASE /\ hand.pen.near
           /\ pen = [hand.pen EXCEPT !.near = FALSE, !.pressed = {}]
  BY <1>1, <1>4 DEF PenHand
<1> QED
  BY <1>3, <1>4 DEF PenNext

\* Fingers are reported one by one.
LEMMA SendFingerType ==
    ASSUME NEW input \in Inputs, NEW f \in {1, 2}, NEW fingers,
           NEW id \in Ids \cup {NoId}, NEW axes \in BOOLEAN
    PROVE  SendFinger(input, f, fingers, id, axes) \in Inputs
<1>1. FingerIn(f, id, axes) \in Reports
  BY SwitchTypes DEF FingerIn, Report, Reports
<1>2. FingerOut(f) \in Reports
  BY SwitchTypes DEF FingerOut, Report, Reports
<1> QED
  BY <1>1, <1>2, SendType DEF SendFinger

\* Express keys are reported together.
LEMMA SendPadType ==
    ASSUME NEW input \in Inputs, NEW pads \in SUBSET PadKeys
    PROVE  /\ SendBambooPad(input, pads) \in Inputs
           /\ SendGraphirePad(input, pads) \in Inputs
<1>1. ASSUME NEW on \in SUBSET Switches, NEW off \in SUBSET Switches,
             NEW id \in {"PAD", NoId}, NEW serial \in {1, PadSerial}
      PROVE  Report(on, off, id, FALSE, serial, FALSE) \in Reports
  BY DEF Report, Reports, Ids
<1>2. /\ pads \cup {"BTN_TOOL_FINGER"} \in SUBSET Switches
      /\ PadKeys \ pads \in SUBSET Switches
      /\ PadKeys \cup {"BTN_TOOL_FINGER"} \in SUBSET Switches
      /\ {} \in SUBSET Switches
  BY SwitchTypes
<1>3. /\ Report(pads \cup {"BTN_TOOL_FINGER"}, PadKeys \ pads, "PAD", FALSE,
                PadSerial, FALSE) \in Reports
      /\ Report({}, PadKeys \cup {"BTN_TOOL_FINGER"}, NoId, FALSE, 1, FALSE) \in Reports
      /\ Report(pads \cup {"BTN_TOOL_FINGER"}, PadKeys \ pads, NoId, FALSE,
                PadSerial, FALSE) \in Reports
  BY <1>1, <1>2
<1> QED
  BY <1>3, SendType DEF SendBambooPad, SendGraphirePad

\* What a packet leaves behind is well typed, if what it sends and notes is.
LEMMA DeliverType ==
    ASSUME WacTypeOK, NEW port \in Ports, NEW input \in Inputs, Deliver(port, input)
    PROVE  /\ core' \in [Ports -> [on: SUBSET Switches, misc: Ids \cup {NoId}]]
           /\ queue' \in [Ports -> Seq(Frame)]
  BY DEF WacTypeOK, Deliver, Inputs

\* wacom_tpc_irq and wacom_bpt_irq keep the kernel's types on a pen report.
LEMMA PenMovesType ==
    ASSUME WacTypeOK, PenMoves
    PROVE  WacTypeOK'
<1>1. PICK pen \in PenNext, axes \in Axes : PenPacket(pen, axes)
  BY DEF PenMoves
<1> DEFINE tool == IF near THEN wac.penTool ELSE pen.tool
           id == IF pen.near THEN (IF near THEN wac.penId ELSE ToolId[tool]) ELSE NoId
           input == Send(Input(PenPort), PenReport(tool, id, pen, FALSE, NoSerial, axes))
<1>2. pen \in PenHand /\ pen.tool \in PenTools /\ axes \in BOOLEAN /\ PenPort \in Ports
  BY PenNextType, TabletAssumption
<1>3. tool \in PenTools
  BY <1>2 DEF WacTypeOK
<1>4. id \in Ids \cup {NoId}
  BY <1>3, SwitchTypes DEF WacTypeOK
<1>5. /\ Deliver(PenPort, input)
      /\ wac' = [wac EXCEPT !.penTool = tool, !.penId = id]
      /\ near' = pen.near
      /\ hand' = [hand EXCEPT !.pen = pen]
  BY <1>1 DEF PenPacket
<1> HIDE DEF tool, id
<1>6. input \in Inputs
  BY <1>2, <1>3, <1>4, PenReportType, SendType, InputType
<1> HIDE DEF input
<1>7. /\ core' \in [Ports -> [on: SUBSET Switches, misc: Ids \cup {NoId}]]
      /\ queue' \in [Ports -> Seq(Frame)]
  BY <1>2, <1>5, <1>6, DeliverType
<1>8. near' \in BOOLEAN
  BY <1>2, <1>5 DEF PenHand
<1>9. /\ wac' \in [penTool: PenTools \cup {NoId}, penId: Ids \cup {NoId},
                   touchId: Ids \cup {NoId}, fingers: SUBSET Fingers, pad: BOOLEAN]
      /\ wac'.penTool \in PenTools
  BY <1>3, <1>4, <1>5 DEF WacTypeOK
<1>10. /\ hand' \in [pen: PenHand, fingers: SUBSET Fingers, pads: SUBSET PadKeys]
       /\ hand'.pen.tool \in PenTools
  BY <1>2, <1>5 DEF WacTypeOK
<1> QED
  BY <1>7, <1>8, <1>9, <1>10 DEF WacTypeOK

\* So do they on a touch report.
LEMMA TouchMovesType ==
    ASSUME WacTypeOK, TouchMoves
    PROVE  WacTypeOK'
<1>1. PICK fingers \in SUBSET Fingers, pads \in SUBSET PadKeys, axes \in Axes :
        TouchPacket(fingers, pads, axes)
  BY DEF TouchMoves
<1> DEFINE id == IF features = "TABLETPC2FG" \/ 1 \in fingers THEN "TOUCH" ELSE wac.touchId
           keys == IF features = "BAMBOO_PT" THEN SendBambooPad(Input(TouchPort), pads)
                   ELSE Input(TouchPort)
           first == SendFinger(keys, 1, fingers, id, axes)
           second == SendFinger(first, 2, fingers, id, axes)
<1>2. axes \in BOOLEAN /\ TouchPort \in Ports
  BY TabletAssumption
<1>3. id \in Ids \cup {NoId}
  BY DEF WacTypeOK, Ids
<1>4. /\ Deliver(TouchPort, second)
      /\ wac' = [wac EXCEPT
                   !.pad = pads # {},
                   !.fingers = IF near THEN {} ELSE fingers,
                   !.touchId = IF near THEN @ ELSE IF fingers = {} THEN NoId ELSE id]
      /\ hand' = [hand EXCEPT !.fingers = fingers, !.pads = pads]
      /\ near' = near
  BY <1>1 DEF TouchPacket
<1> HIDE DEF id
<1>5. keys \in Inputs
  BY <1>2, InputType, SendPadType
<1> HIDE DEF keys
<1>6. first \in Inputs
  BY <1>2, <1>3, <1>5, SendFingerType
<1> HIDE DEF first
<1>7. second \in Inputs
  BY <1>2, <1>3, <1>6, SendFingerType
<1> HIDE DEF second
<1>8. /\ core' \in [Ports -> [on: SUBSET Switches, misc: Ids \cup {NoId}]]
      /\ queue' \in [Ports -> Seq(Frame)]
  BY <1>2, <1>4, <1>7, DeliverType
<1>9. /\ wac' \in [penTool: PenTools \cup {NoId}, penId: Ids \cup {NoId},
                   touchId: Ids \cup {NoId}, fingers: SUBSET Fingers, pad: BOOLEAN]
      /\ wac'.penTool = wac.penTool /\ wac'.penId = wac.penId
  BY <1>3, <1>4 DEF WacTypeOK
<1>10. /\ hand' \in [pen: PenHand, fingers: SUBSET Fingers, pads: SUBSET PadKeys]
       /\ hand'.pen = hand.pen
  BY <1>4 DEF WacTypeOK
<1> QED
  BY <1>4, <1>8, <1>9, <1>10 DEF WacTypeOK

\* So does wacom_graphire_irq.
LEMMA GraphireMovesType ==
    ASSUME WacTypeOK, GraphireMoves
    PROVE  WacTypeOK'
<1>1. PICK pen \in PenNext \cup {hand.pen}, pads \in SUBSET PadKeys, axes \in Axes :
        GraphirePacket(pen, pads, axes)
  BY DEF GraphireMoves
<1> DEFINE tool == IF pen.near THEN pen.tool ELSE wac.penTool
           id == IF pen.near THEN ToolId[tool] ELSE NoId
           tools == IF pen.near \/ wac.penId # NoId
                    THEN Send(Input(PenPort), PenReport(tool, id, pen, TRUE, 1, axes))
                    ELSE Input(PenPort)
           all == SendGraphirePad(tools, pads)
<1>2. /\ pen \in PenHand /\ (pen.near => pen.tool \in PenTools)
      /\ axes \in BOOLEAN /\ PenPort \in Ports
  BY PenNextType, TabletAssumption DEF WacTypeOK
<1>3. /\ near \/ pen.near \/ wac.penId # NoId => tool \in PenTools
      /\ tool \in PenTools \cup {NoId}
  BY <1>2 DEF WacTypeOK
<1>4. /\ id \in Ids \cup {NoId}
      /\ id # NoId => pen.near
  BY <1>3, SwitchTypes
<1>5. /\ Deliver(PenPort, all)
      /\ wac' = [wac EXCEPT !.penTool = tool, !.penId = id, !.pad = pads # {}]
      /\ hand' = [hand EXCEPT !.pen = pen, !.pads = pads]
      /\ near' = near
  BY <1>1 DEF GraphirePacket
<1> HIDE DEF tool, id
<1>6. tools \in Inputs
  BY <1>2, <1>3, <1>4, PenReportType, SendType, InputType
<1> HIDE DEF tools
<1>7. all \in Inputs
  BY <1>6, SendPadType
<1> HIDE DEF all
<1>8. /\ core' \in [Ports -> [on: SUBSET Switches, misc: Ids \cup {NoId}]]
      /\ queue' \in [Ports -> Seq(Frame)]
  BY <1>2, <1>5, <1>7, DeliverType
<1>9. /\ wac' \in [penTool: PenTools \cup {NoId}, penId: Ids \cup {NoId},
                   touchId: Ids \cup {NoId}, fingers: SUBSET Fingers, pad: BOOLEAN]
      /\ wac'.penTool = tool /\ wac'.penId = id
  BY <1>3, <1>4, <1>5 DEF WacTypeOK
<1>10. /\ hand' \in [pen: PenHand, fingers: SUBSET Fingers, pads: SUBSET PadKeys]
       /\ hand'.pen = pen
  BY <1>2, <1>5 DEF WacTypeOK
<1> QED
  BY <1>2, <1>3, <1>4, <1>5, <1>8, <1>9, <1>10 DEF WacTypeOK

-----------------------------------------------------------------------------
(* The reader.                                                             *)

\* Any switches stand for buttons.
LEMMA ButtonsOfType ==
    ASSUME NEW switches
    PROVE  ButtonsOf(switches) \in SUBSET Buttons
<1>1. 1 .. 5 \subseteq Buttons
  BY ValueAssumption, UsbAssumption DEF Buttons
<1>2. \A s \in DOMAIN ButtonOf : ButtonOf[s] \in 1 .. 5
  BY DEF ButtonOf
<1> QED
  BY <1>1, <1>2 DEF ButtonsOf

\* A channel that starts afresh has a working state of no tool.
LEMMA BlankType ==
    /\ [Blank EXCEPT !.proximity = TRUE] \in WorkState
    /\ [Blank EXCEPT !.proximity = TRUE].proximity = TRUE
    /\ [Blank EXCEPT !.proximity = TRUE].buttons = {}
    /\ [Blank EXCEPT !.proximity = TRUE].pressed = FALSE
<1>1. 0 \in Distances
  BY DEF Distances
<1>2. Blank \in WorkState
  BY <1>1 DEF Blank, WorkState
<1>3. /\ Blank.buttons = {} /\ Blank.pressed = FALSE
      /\ "proximity" \in DOMAIN Blank
  BY DEF Blank
<1>4. [Blank EXCEPT !.proximity = TRUE] \in WorkState
  BY <1>2 DEF WorkState
<1> QED
  BY <1>3, <1>4

\* A mouse reports distances.
LEMMA LiftsType ==
    ASSUME NEW w \in WorkState, NEW frame
    PROVE  Lifts(w, frame) \subseteq Distances
  BY UsbAssumption DEF Lifts, WorkState

\* The events of a frame leave a working state a working state.
LEMMA ParsedType ==
    ASSUME NEW w \in WorkState, NEW frame \in Frame,
           NEW serial \in {0, 1, 2, PadSerial}, NEW distance \in Distances,
           NEW now \in [on: SUBSET Switches, misc: Ids \cup {NoId}]
    PROVE  Parsed(w, frame, serial, distance, now) \in WorkState
<1> DEFINE v == ParseSwitches([w EXCEPT !.serial = serial, !.distance = distance], frame)
<1>1. v \in WorkState
  <2>1. [w EXCEPT !.serial = serial, !.distance = distance] \in WorkState
    BY DEF WorkState
  <2>2. /\ ButtonsOf(frame.on) \in SUBSET Buttons
        /\ ButtonsOf(frame.off) \in SUBSET Buttons
    BY ButtonsOfType
  <2> QED
    BY <2>1, <2>2 DEF ParseSwitches, WorkState
<1> HIDE DEF v
<1>2. ASSUME NEW s \in WorkState
      PROVE  ParseToolKey(s, frame) \in WorkState
  <2> DEFINE keys == (frame.on \cup frame.off) \cap DOMAIN KeyType
             key == CHOOSE k \in keys : TRUE
             t == [s EXCEPT !.type = KeyType[key], !.id = KeyType[key],
                            !.proximity = key \in frame.on]
  <2>1. CASE keys = {}
    BY <2>1 DEF ParseToolKey
  <2>2. CASE keys # {}
    <3>1. key \in DOMAIN KeyType
      BY <2>2
    <3> HIDE DEF key
    <3>2. KeyType[key] \in Types
      BY <3>1 DEF KeyType, Types
    <3>3. t \in WorkState
      <4>1. \A type \in Types, prox \in BOOLEAN :
              [s EXCEPT !.type = type, !.id = type, !.proximity = prox] \in WorkState
        BY DEF WorkState
      <4>2. (key \in frame.on) \in BOOLEAN
        OBVIOUS
      <4> QED
        BY <3>2, <4>1, <4>2
    <3>4. 1 \in Buttons
      BY ValueAssumption DEF Buttons
    <3>5. \A bs \in SUBSET Buttons : [t EXCEPT !.buttons = bs] \in WorkState
      BY <3>3 DEF WorkState
    <3>6. t.buttons \in SUBSET Buttons
      BY <3>3 DEF WorkState
    <3>7. ParseToolKey(s, frame) \in {t, [t EXCEPT !.buttons = t.buttons \cup {1}],
                                      [t EXCEPT !.buttons = t.buttons \ {1}]}
      BY <2>2 DEF ParseToolKey, key
    <3> HIDE DEF t
    <3> QED
      BY <3>3, <3>4, <3>5, <3>6, <3>7
  <2> QED
    BY <2>1, <2>2
<1>3. ASSUME NEW s \in WorkState
      PROVE  ParseMisc(s, frame) \in WorkState
  <2>1. CASE frame.misc = NoMisc
    BY <2>1 DEF ParseMisc
  <2>2. CASE frame.misc = NoId
    <3>1. [s EXCEPT !.proximity = FALSE] \in WorkState
      BY DEF WorkState
    <3> QED
      BY <2>2, <3>1 DEF ParseMisc, NoMisc, NoId
  <2>3. CASE frame.misc # NoMisc /\ frame.misc # NoId
    <3>1. frame.misc \in Types
      BY <2>3 DEF Frame, Ids, Types
    <3>2. \A t \in Types :
            [s EXCEPT !.proximity = TRUE, !.id = t, !.type = t] \in WorkState
      BY DEF WorkState
    <3> QED
      BY <2>3, <3>1, <3>2 DEF ParseMisc
  <2> QED
    BY <2>1, <2>2, <2>3
<1>4. ASSUME NEW s \in WorkState
      PROVE  Retyped(s, now) \in WorkState
  <2> DEFINE held == {i \in DOMAIN TypeOrder :
                        \E k \in now.on \cap DOMAIN KeyType : KeyType[k] = TypeOrder[i]}
             first == CHOOSE i \in held : \A j \in held : i <= j
  <2>1. \A i \in DOMAIN TypeOrder : TypeOrder[i] \in Types
    BY DEF TypeOrder, Types
  <2>2. held # {} => first \in DOMAIN TypeOrder
    <3>1. SUFFICES ASSUME held # {} PROVE first \in DOMAIN TypeOrder
      OBVIOUS
    <3>2. held \subseteq Nat
      BY DEF TypeOrder
    <3>3. \E i \in held : \A j \in held : i <= j
      BY <3>1, <3>2, LeastNat
    <3> QED
      BY <3>3
  <2>3. now.misc \in Ids \cup {NoId} /\ Ids \subseteq Types
    BY DEF Ids, Types
  <2> HIDE DEF held, first
  <2>4. \A type \in Types \cup {NoType}, id \in Types \cup {NoId}, prox \in BOOLEAN :
          [s EXCEPT !.type = type, !.id = id, !.proximity = prox] \in WorkState
    BY DEF WorkState
  <2>5. s.id \in Types \cup {NoId} /\ s.proximity \in BOOLEAN
    BY DEF WorkState
  <2> QED
    BY <2>1, <2>2, <2>3, <2>4, <2>5 DEF Retyped, held, first
<1>5. /\ ParseToolKey(ParseMisc(v, frame), frame) \in WorkState
      /\ ParseMisc(ParseToolKey(v, frame), frame) \in WorkState
  BY <1>1, <1>2, <1>3
<1> QED
  BY <1>4, <1>5 DEF Parsed, v

\* A working state is a sample that dispatch takes.
LEMMA PacketOfType ==
    ASSUME NEW s \in WorkState, NEW x \in Positions, NEW moved \in BOOLEAN
    PROVE  PacketOf(s, x, moved) \in Packet
<1>1. 0 \in Pressures /\ wcmMaxZ \in Pressures
  BY ValueAssumption DEF Pressures
<1>2. s.serial \in Serials
  BY UsbAssumption DEF WorkState
<1> QED
  BY <1>1, <1>2 DEF PacketOf, Packet, WorkState, IdToType, Types

\* What the X server sees in a step: nothing, or one report.
OneReport == \/ UNCHANGED serverVars
             \/ \E w \in Devices : \A e \in Devices \ {w} : Session!Bystander(e)

\* Nothing of dispatch changes.
LEMMA UnchangedInv ==
    ASSUME IInv, UNCHANGED vars
    PROVE  IInv' /\ OneReport
  BY StutterInv DEF OneReport

\* A working state that is dispatched keeps the invariant.
LEMMA DispatchStateInv ==
    ASSUME IInv, NEW c, NEW s \in WorkState, NEW suppress, DispatchState(c, s, suppress)
    PROVE  IInv' /\ OneReport
<1>1. PICK x \in Positions, moved \in BOOLEAN :
        \E ds \in Typed(c, PacketOf(s, x, moved)) :
          \/ Dispatch(c, ds, suppress)
          \/ ToolsFor(c, ds) = {} /\ UNCHANGED vars
  BY DEF DispatchState
<1>2. PICK ds \in Typed(c, PacketOf(s, x, moved)) :
        \/ Dispatch(c, ds, suppress)
        \/ ToolsFor(c, ds) = {} /\ UNCHANGED vars
  BY <1>1
<1>3. ds \in Packet
  BY PacketOfType, TypedType
<1>4. CASE Dispatch(c, ds, suppress)
  BY <1>3, <1>4, DispatchInv DEF OneReport
<1> QED
  BY <1>2, <1>4, UnchangedInv

\* A channel is put where one was.
LEMMA PutType ==
    ASSUME UsbTypeOK, NEW c \in Commons, NEW ch \in Channels,
           NEW chan \in ChannelState, Put(c, ch, chan)
    PROVE  channel' \in [Commons -> [Channels -> ChannelState]]
  BY DEF UsbTypeOK, Put

\* The four ways a state that is heard ends
LEMMA HeardInv ==
    ASSUME UsbInv, NEW c \in Commons, NEW ch \in Channels, NEW chan \in ChannelState,
           \/ Discard(c, ch, chan)
           \/ DiscardJump(c, ch, chan)
           \/ Suppress(c, ch, chan)
           \/ Use(c, ch, chan)
    PROVE  /\ channel' \in [Commons -> [Channels -> ChannelState]]
           /\ IInv' /\ OneReport
<1>1. /\ IInv /\ UsbTypeOK /\ chan.nSamples \in 0 .. 2
      /\ chan.work \in WorkState /\ chan.valid \in ValidState
  BY DEF UsbInv, ChannelState
<1>2. ASSUME NEW n \in 0 .. 2
      PROVE  [chan EXCEPT !.nSamples = n] \in ChannelState
  BY DEF ChannelState
<1>3. CASE Discard(c, ch, chan)
  <2>1. chan.nSamples + 1 \in 0 .. 2
    BY <1>1, <1>3 DEF Discard
  <2>2. Put(c, ch, [chan EXCEPT !.nSamples = chan.nSamples + 1]) /\ UNCHANGED vars
    BY <1>3 DEF Discard
  <2> QED
    BY <1>1, <1>2, <2>1, <2>2, PutType, UnchangedInv
<1>4. CASE DiscardJump(c, ch, chan)
  <2>1. PICK n \in 0 .. 2 : Put(c, ch, [chan EXCEPT !.nSamples = n]) /\ UNCHANGED vars
    BY <1>1, <1>4 DEF DiscardJump
  <2> QED
    BY <1>1, <1>2, <2>1, PutType, UnchangedInv
<1>5. CASE Suppress(c, ch, chan)
  BY <1>1, <1>5, PutType, UnchangedInv DEF Suppress
<1>6. CASE Use(c, ch, chan)
  <2> DEFINE next == [work |-> chan.work,
                      valid |-> [f \in DOMAIN chan.valid |-> chan.work[f]],
                      nSamples |-> IF chan.work.proximity THEN 2 ELSE 0]
  <2>1. [f \in DOMAIN chan.valid |-> chan.work[f]] \in ValidState
    BY <1>1 DEF ValidState, WorkState
  <2>2. next \in ChannelState
    BY <1>1, <2>1 DEF ChannelState
  <2>3. Put(c, ch, next)
    BY <1>6 DEF Use
  <2>4. channel' \in [Commons -> [Channels -> ChannelState]]
    BY <1>1, <2>2, <2>3, PutType
  <2>5. UNCHANGED vars \/ \E suppress \in {1, 2} : DispatchState(c, chan.work, suppress)
    BY <1>6 DEF Use
  <2> QED
    BY <1>1, <2>4, <2>5, UnchangedInv, DispatchStateInv
<1> QED
  BY <1>3, <1>4, <1>5, <1>6

\* Every frame is for a channel that exists.
LEMMA FrameTypes ==
    ASSUME UsbTypeOK, NEW c \in Commons, queue[c] # <<>>
    PROVE  /\ Head(queue[c]) \in Frame
           /\ Tail(queue[c]) \in Seq(Frame)
           /\ SerialOf(c, Head(queue[c])) \in {0, 1, 2, PadSerial}
           /\ ChooseChannel(SerialOf(c, Head(queue[c]))) \in Channels
<1>1. queue[c] \in Seq(Frame) /\ wcmLastToolSerial[c] \in {0, 1, 2, PadSerial}
  BY UsbAssumption DEF UsbTypeOK, WacTypeOK
<1>2. Head(queue[c]) \in Frame /\ Tail(queue[c]) \in Seq(Frame)
  BY <1>1
<1>3. SerialOf(c, Head(queue[c])) \in {0, 1, 2, PadSerial}
  BY <1>1, <1>2 DEF SerialOf, Frame, NoSerial
<1>4. \A serial \in {0, 1, 2, PadSerial} : ChooseChannel(serial) \in Channels
  BY DEF ChooseChannel, Channels, MAX_CHANNELS, PadSerial
<1> QED
  BY <1>2, <1>3, <1>4

\* Taking a frame off a queue keeps the kernel's types.
LEMMA TakenType ==
    ASSUME UsbTypeOK, NEW c \in Commons, queue[c] # <<>>,
           queue' = [queue EXCEPT ![c] = Tail(@)],
           UNCHANGED <<hand, wac, near, core>>
    PROVE  WacTypeOK'
<1>1. queue' \in [Ports -> Seq(Frame)]
  BY FrameTypes DEF UsbTypeOK, WacTypeOK
<1> QED
  BY <1>1 DEF UsbTypeOK, WacTypeOK

\* The other variables of the reader
ReaderTypeOK ==
    /\ channel \in [Commons -> [Channels -> ChannelState]]
    /\ wcmLastToolSerial \in [Commons -> {0, 1, 2, PadSerial}]
    /\ syslast \in (Commons \X Channels) \cup {NoChannel}

\* A frame without information, dropped, keeps the invariant.
LEMMA ReadEmptyInv ==
    ASSUME UsbInv, NEW c \in Commons, ReadEmpty(c)
    PROVE  UsbInv' /\ OneReport
<1>1. IInv /\ UsbTypeOK
  BY DEF UsbInv
<1>2. IInv' /\ OneReport
  BY <1>1, UnchangedInv DEF ReadEmpty
<1>3. WacTypeOK'
  BY <1>1, TakenType DEF ReadEmpty
<1>4. ReaderTypeOK'
  BY <1>1, FrameTypes DEF ReadEmpty, UsbTypeOK, ReaderTypeOK
<1> QED
  BY <1>2, <1>3, <1>4 DEF UsbInv, UsbTypeOK, ReaderTypeOK, IInv

\* Parsing any other frame keeps it, and is at most one report to the server.
LEMMA ReadFrameInv ==
    ASSUME UsbInv, NEW c \in Commons, ReadFrame(c)
    PROVE  UsbInv' /\ OneReport
<1> DEFINE frame == Head(queue[c])
           serial == SerialOf(c, frame)
           ch == ChooseChannel(serial)
           open == Opened(channel[c][ch])
           read(distance) ==
             [open EXCEPT !.work = Parsed(open.work, frame, serial, distance, core[c])]
<1>1. /\ queue[c] # <<>>
      /\ queue' = [queue EXCEPT ![c] = Tail(@)]
      /\ \E distance \in Lifts(open.work, frame) :
           \/ ParseDeaf(c, ch, read(distance), serial)
           \/ ParseHeard(c, ch, read(distance), serial)
      /\ UNCHANGED <<hand, wac, near, core>>
  BY DEF ReadFrame
<1>2. IInv /\ UsbTypeOK
  BY DEF UsbInv
<1>3. frame \in Frame /\ serial \in {0, 1, 2, PadSerial} /\ ch \in Channels
  BY <1>1, <1>2, FrameTypes
<1>4. core[c] \in [on: SUBSET Switches, misc: Ids \cup {NoId}]
  BY <1>2, UsbAssumption DEF UsbTypeOK, WacTypeOK
<1> HIDE DEF frame, serial, ch
<1>5. open \in ChannelState
  <2>1. channel[c][ch] \in ChannelState
    BY <1>2, <1>3 DEF UsbTypeOK
  <2>2. [Blank EXCEPT !.proximity = TRUE] \in WorkState
    BY BlankType
  <2>3. NoneValid \in ValidState /\ 0 \in 0 .. 2
    BY DEF NoneValid, ValidState, Distances
  <2> QED
    BY <2>1, <2>2, <2>3 DEF Opened, ChannelState
<1> HIDE DEF open
<1>5a. PICK distance \in Lifts(open.work, frame) :
         \/ ParseDeaf(c, ch, read(distance), serial)
         \/ ParseHeard(c, ch, read(distance), serial)
  BY <1>1
<1> DEFINE work == Parsed(open.work, frame, serial, distance, core[c])
           chan == [open EXCEPT !.work = work]
<1>5b. ParseDeaf(c, ch, chan, serial) \/ ParseHeard(c, ch, chan, serial)
  BY <1>5a
<1>5c. distance \in Distances
  BY <1>5, LiftsType DEF ChannelState
<1>6. work \in WorkState
  BY <1>3, <1>4, <1>5, <1>5c, ParsedType DEF ChannelState
<1> HIDE DEF work
<1>7. chan \in ChannelState
  BY <1>5, <1>6 DEF ChannelState
<1> HIDE DEF chan
<1>8. WacTypeOK'
  BY <1>1, <1>2, TakenType
<1>9. CASE ParseDeaf(c, ch, chan, serial)
  <2>1. channel' \in [Commons -> [Channels -> ChannelState]]
    BY <1>2, <1>3, <1>7, <1>9, PutType DEF ParseDeaf
  <2>2. ReaderTypeOK'
    BY <1>2, <1>3, <1>9, <2>1 DEF ParseDeaf, UsbTypeOK, ReaderTypeOK
  <2>3. IInv' /\ OneReport
    BY <1>2, <1>9, UnchangedInv DEF ParseDeaf
  <2> QED
    BY <1>8, <2>2, <2>3 DEF UsbInv, UsbTypeOK, ReaderTypeOK, IInv
<1>10. CASE ParseHeard(c, ch, chan, serial)
  <2>1. channel' \in [Commons -> [Channels -> ChannelState]] /\ IInv' /\ OneReport
    BY <1>3, <1>7, <1>10, HeardInv DEF ParseHeard
  <2>2. ReaderTypeOK'
    BY <1>2, <1>3, <1>10, <2>1 DEF ParseHeard, UsbTypeOK, ReaderTypeOK
  <2> QED
    BY <1>8, <2>1, <2>2 DEF UsbInv, UsbTypeOK, ReaderTypeOK, IInv
<1> QED
  BY <1>5b, <1>9, <1>10

\* A step of the hardware or of a client leaves the reader alone.
LEMMA UsbStepInv ==
    ASSUME UsbInv, [UsbNext]_allVars
    PROVE  UsbInv' /\ OneReport
<1>1. IInv /\ UsbTypeOK /\ WacTypeOK
  BY DEF UsbInv, UsbTypeOK
<1>2. CASE Hardware
  <2>1. UNCHANGED vars /\ UNCHANGED usbVars /\ WacNext
    BY <1>2 DEF Hardware
  <2>2. WacTypeOK'
    BY <1>1, <2>1, PenMovesType, TouchMovesType, GraphireMovesType DEF WacNext
  <2>3. ReaderTypeOK'
    BY <1>1, <2>1 DEF UsbTypeOK, ReaderTypeOK, usbVars
  <2>4. IInv' /\ OneReport
    BY <1>1, <2>1, UnchangedInv
  <2> QED
    BY <2>2, <2>3, <2>4 DEF UsbInv, UsbTypeOK, ReaderTypeOK, IInv
<1>3. CASE Configure
  <2>1. IInv' /\ OneReport
    BY <1>1, <1>3, CarefulSettingsInv DEF Configure, OneReport
  <2>2. WacTypeOK' /\ ReaderTypeOK'
    BY <1>1, <1>3 DEF Configure, wacVars, usbVars, UsbTypeOK, WacTypeOK, ReaderTypeOK
  <2> QED
    BY <2>1, <2>2 DEF UsbInv, UsbTypeOK, ReaderTypeOK, IInv
<1>4. CASE \E c \in Commons : Read(c)
  BY <1>4, ReadEmptyInv, ReadFrameInv DEF Read
<1>5. CASE UNCHANGED allVars
  <2>1. IInv' /\ OneReport
    BY <1>1, <1>5, UnchangedInv DEF allVars
  <2>2. WacTypeOK' /\ ReaderTypeOK'
    BY <1>1, <1>5 DEF allVars, wacVars, usbVars, UsbTypeOK, WacTypeOK, ReaderTypeOK
  <2> QED
    BY <2>1, <2>2 DEF UsbInv, UsbTypeOK, ReaderTypeOK, IInv
<1> QED
  BY <1>2, <1>3, <1>4, <1>5 DEF UsbNext

\* The tablet and the reader start in the invariant.
LEMMA UsbInitInv ==
    ASSUME UsbInit
    PROVE  UsbInv
<1>1. IInv
  BY InitInv DEF UsbInit
<1>2. WacTypeOK
  <2>1. hand \in [pen: PenHand, fingers: SUBSET Fingers, pads: SUBSET PadKeys]
        /\ ~hand.pen.near
    <3>1. NoPen \in PenHand /\ ~NoPen.near
      BY DEF NoPen, PenHand
    <3>2. hand = [pen |-> NoPen, fingers |-> {}, pads |-> {}]
      BY DEF UsbInit, WacInit
    <3> QED
      BY <3>1, <3>2
  <2>2. /\ wac \in [penTool: PenTools \cup {NoId}, penId: Ids \cup {NoId},
                    touchId: Ids \cup {NoId}, fingers: SUBSET Fingers, pad: BOOLEAN]
        /\ near = FALSE /\ wac.penId = NoId
    BY DEF UsbInit, WacInit
  <2>3. core \in [Ports -> [on: SUBSET Switches, misc: Ids \cup {NoId}]]
    BY DEF UsbInit, WacInit
  <2>4. queue \in [Ports -> Seq(Frame)]
    BY DEF UsbInit, WacInit
  <2> QED
    BY <2>1, <2>2, <2>3, <2>4 DEF WacTypeOK
<1>3. [work |-> Blank, valid |-> NoneValid, nSamples |-> 0] \in ChannelState
  BY DEF ChannelState, Blank, NoneValid, WorkState, ValidState, Distances
<1>4. ReaderTypeOK
  BY <1>3 DEF UsbInit, ReaderTypeOK
<1> QED
  BY <1>1, <1>2, <1>4 DEF UsbInv, UsbTypeOK, ReaderTypeOK, IInv

-----------------------------------------------------------------------------
(* The theorems, for every tablet, configuration and user.                 *)

\* The inductive invariant of the whole USB path: the driver's, which dispatch
\* keeps for every sample, and that the reader's samples are such samples.
THEOREM UsbInvariant == UsbSpec => []UsbInv
<1>1. UsbInit => UsbInv
  BY UsbInitInv
<1>2. UsbInv /\ [UsbNext]_allVars => UsbInv'
  BY UsbStepInv
<1> QED
  BY <1>1, <1>2, PTL DEF UsbSpec

\* usbChooseChannel, which checks no bound, never leaves common->wcmChannel,
\* and the reader's states stay what dispatch takes.
THEOREM UsbTypeCorrect == UsbSpec => []UsbTypeOK
<1>1. UsbInv => UsbTypeOK
  BY DEF UsbInv
<1> QED
  BY <1>1, UsbInvariant, PTL

\* Whatever the user does with pen, fingers and keys, no device that is out of
\* proximity has anything pressed at the X server.
THEOREM UsbNothingStuck == UsbSpec => []NoStuckButton
<1>1. UsbInv => NoStuckButton
  BY StuckAndHeld DEF UsbInv
<1> QED
  BY <1>1, UsbInvariant, PTL

\* The whole USB path implements the abstract proximity sessions.
THEOREM UsbRefinement == UsbSpec => SessionSpec
<1>1. UsbInv => SessionInv
  BY SessionInvHolds DEF UsbInv
<1>2. UsbInit => Session!SessionInit
  BY SessionStart DEF UsbInit
<1>3. UsbInv /\ SessionInv' /\ [UsbNext]_allVars
        => [Session!SessionNext]_(Session!sessionVars)
  BY UsbStepInv, SessionStep DEF OneReport
<1>4. SessionInv => Session!SessionTypeOK
  BY DEF SessionInv
<1> QED
  BY <1>1, <1>2, <1>3, <1>4, UsbInitInv, UsbInvariant, PTL
  DEF UsbSpec, SessionSpec, Session!SessionSpec

-----------------------------------------------------------------------------
(* The pens follow the hand.                                               *)

IsGraphire == features = "WACOM_G4"

-----------------------------------------------------------------------------
(* Moments.                                                                *)

\* The keys that the kernel reports for a pen
Lit(pen) == pen.pressed \cup (IF pen.near THEN {pen.tool} ELSE {})

PadSide == PadButtons \cup {"BTN_TOOL_FINGER"}

\* A moment: the pen, the express keys, and what the input core keeps of them
Moments == [pen: PenHand, pads: SUBSET PadKeys,
            core: [on: SUBSET Switches, misc: Ids \cup {NoId}]]

GoodPen(pen) ==
    /\ pen.near => pen.tool \in PenTools /\ pen.pressed \subseteq PenSwitches[pen.tool]
    /\ ~pen.near => pen.pressed = {}

Good(h) ==
    /\ h \in Moments
    /\ GoodPen(h.pen)
    /\ h.core.on \ PadSide = Lit(h.pen)
    /\ h.core.on \cap PadButtons = h.pads
    /\ h.core.misc = "PAD" => h.pads # {}

\* What the hardware reports of the pen between two moments
ToolBetween(h, g) == IF g.pen.near THEN g.pen.tool ELSE h.pen.tool
PenReported(h, g, axes) ==
    PenReport(ToolBetween(h, g), IF g.pen.near THEN ToolId[g.pen.tool] ELSE NoId, g.pen,
              IsGraphire, IF IsGraphire THEN 1 ELSE NoSerial, axes)

\* The pen is near at one moment at least, and the same tool at both.
PenTurns(p, q) ==
    /\ p.near \/ q.near
    /\ p.near /\ q.near => p.tool = q.tool

PenFrame(h, f, g) ==
    /\ PenTurns(h.pen, g.pen) /\ g.pads = h.pads
    /\ \E axes \in BOOLEAN :
         /\ f = Changes(h.core, PenReported(h, g, axes))
         /\ g.core = Stored(h.core, PenReported(h, g, axes))

\* What a Graphire reports of its keys
PadReported(pads) ==
    Report(pads \cup {"BTN_TOOL_FINGER"}, PadKeys \ pads,
           IF pads # {} THEN "PAD" ELSE NoId, FALSE, PadSerial, FALSE)

PadFrame(h, f, g) ==
    /\ IsGraphire
    /\ g.pen = h.pen /\ (h.pads # {} \/ g.pads # {})
    /\ f = Changes(h.core, PadReported(g.pads))
    /\ g.core = Stored(h.core, PadReported(g.pads))

\* One frame tells moment h from moment g.
Tells(h, f, g) == Good(h) /\ Good(g) /\ (PenFrame(h, f, g) \/ PadFrame(h, f, g))

\* The frames in q lead from a to b, by way of members of S, if each of the
\* links is in L.
Linked(S, L, q, a, b) ==
    \E s \in [1 .. Len(q) + 1 -> S] :
       /\ s[1] = a /\ s[Len(q) + 1] = b
       /\ \A i \in 1 .. Len(q) : <<s[i], q[i], s[i + 1]>> \in L

\* The frames in q tell the way from moment a to moment b.
Links == {l \in Moments \X Frame \X Moments : Tells(l[1], l[2], l[3])}
Chain(q, a, b) == Linked(Moments, Links, q, a, b)

Now == [pen |-> hand.pen, pads |-> IF IsGraphire THEN hand.pads ELSE {}, core |-> core[PenPort]]

-----------------------------------------------------------------------------
(* Chains.                                                                 *)

\* Nothing unread: the way is none.
LEMMA NoLink ==
    ASSUME NEW S, NEW L, NEW a, NEW b, Linked(S, L, <<>>, a, b)
    PROVE  a = b
  BY DEF Linked

\* No frame: one place.
LEMMA LinkStarts ==
    ASSUME NEW S, NEW L, NEW a \in S
    PROVE  Linked(S, L, <<>>, a, a)
<1> DEFINE s == [i \in 1 .. 1 |-> a]
<1>1. Len(<<>>) + 1 = 1
  OBVIOUS
<1>2. s \in [1 .. Len(<<>>) + 1 -> S] /\ s[1] = a /\ s[Len(<<>>) + 1] = a
  BY <1>1
<1>3. \A i \in 1 .. Len(<<>>) : <<s[i], <<>>[i], s[i + 1]>> \in L
  OBVIOUS
<1> QED
  BY <1>2, <1>3 DEF Linked

\* A frame sent is one more link.
LEMMA LinkGrows ==
    ASSUME NEW S, NEW L, NEW q \in Seq(Frame), NEW f \in Frame, NEW a, NEW b, NEW c \in S,
           Linked(S, L, q, a, b), <<b, f, c>> \in L
    PROVE  Linked(S, L, Append(q, f), a, c)
<1>1. PICK s \in [1 .. Len(q) + 1 -> S] :
        /\ s[1] = a /\ s[Len(q) + 1] = b
        /\ \A i \in 1 .. Len(q) : <<s[i], q[i], s[i + 1]>> \in L
  BY DEF Linked
<1> DEFINE n == Len(q)
           r == Append(q, f)
           t == [i \in 1 .. n + 2 |-> IF i = n + 2 THEN c ELSE s[i]]
<1>2. n \in Nat /\ Len(r) = n + 1 /\ r[n + 1] = f /\ \A i \in 1 .. n : r[i] = q[i]
  OBVIOUS
<1> HIDE DEF n, r
<1>3. t \in [1 .. n + 2 -> S]
  BY <1>1, <1>2 DEF n
<1>4. t[1] = a /\ t[n + 2] = c
  BY <1>1, <1>2
<1>5. ASSUME NEW i \in 1 .. n + 1
      PROVE  <<t[i], r[i], t[i + 1]>> \in L
  <2>1. CASE i = n + 1
    <3>1. t[i] = b /\ t[i + 1] = c /\ r[i] = f
      BY <1>1, <1>2, <2>1 DEF n
    <3> QED
      BY <3>1
  <2>2. CASE i # n + 1
    <3>1. i \in 1 .. n /\ t[i] = s[i] /\ t[i + 1] = s[i + 1] /\ r[i] = q[i]
      BY <1>2, <2>2
    <3> QED
      BY <1>1, <3>1 DEF n
  <2> QED
    BY <2>1, <2>2
<1>6. Len(r) + 1 = n + 2
  BY <1>2
<1> HIDE DEF t
<1> QED
  BY <1>2, <1>3, <1>4, <1>5, <1>6 DEF Linked, r

\* A frame read is one link less.
LEMMA LinkShrinks ==
    ASSUME NEW S, NEW L, NEW q \in Seq(Frame), q # <<>>, NEW a, NEW b, Linked(S, L, q, a, b)
    PROVE  \E c \in S : <<a, Head(q), c>> \in L /\ Linked(S, L, Tail(q), c, b)
<1>1. PICK s \in [1 .. Len(q) + 1 -> S] :
        /\ s[1] = a /\ s[Len(q) + 1] = b
        /\ \A i \in 1 .. Len(q) : <<s[i], q[i], s[i + 1]>> \in L
  BY DEF Linked
<1> DEFINE n == Len(q) - 1
           r == Tail(q)
           t == [i \in 1 .. n + 1 |-> s[i + 1]]
<1>2. n \in Nat /\ Len(q) = n + 1 /\ Len(r) = n /\ Head(q) = q[1] /\ \A i \in 1 .. n : r[i] = q[i + 1]
  OBVIOUS
<1> HIDE DEF n, r
<1>3. t \in [1 .. n + 1 -> S]
  BY <1>1, <1>2
<1>4. t[1] = s[2] /\ t[n + 1] = b
  BY <1>1, <1>2
<1>5. ASSUME NEW i \in 1 .. n
      PROVE  <<t[i], r[i], t[i + 1]>> \in L
  <2>1. i + 1 \in 1 .. Len(q) /\ t[i] = s[i + 1] /\ t[i + 1] = s[i + 1 + 1] /\ r[i] = q[i + 1]
    BY <1>2
  <2> QED
    BY <1>1, <2>1
<1>6. <<a, Head(q), s[2]>> \in L /\ s[2] \in S
  <2>1. 1 \in 1 .. Len(q) /\ 2 \in 1 .. Len(q) + 1 /\ 1 + 1 = 2
    BY <1>2
  <2> QED
    BY <1>1, <1>2, <2>1
<1> HIDE DEF t
<1>7. Linked(S, L, r, s[2], b)
  BY <1>2, <1>3, <1>4, <1>5 DEF Linked
<1> QED
  BY <1>6, <1>7 DEF r

\* Nothing unread: the reader's moment is now.
LEMMA NoChain ==
    ASSUME NEW a, NEW b, Chain(<<>>, a, b)
    PROVE  a = b
  BY NoLink DEF Chain

LEMMA ChainStarts ==
    ASSUME NEW a \in Moments
    PROVE  Chain(<<>>, a, a)
  BY LinkStarts DEF Chain

LEMMA ChainGrows ==
    ASSUME NEW q \in Seq(Frame), NEW a, NEW b, NEW c, NEW f \in Frame, Chain(q, a, b), Tells(b, f, c)
    PROVE  Chain(Append(q, f), a, c)
<1>1. b \in Moments /\ c \in Moments
  BY DEF Tells, Good
<1>2. <<b, f, c>> \in Links
  BY <1>1 DEF Links
<1> QED
  BY <1>1, <1>2, LinkGrows DEF Chain

LEMMA ChainShrinks ==
    ASSUME NEW q \in Seq(Frame), q # <<>>, NEW a, NEW b, Chain(q, a, b)
    PROVE  \E c \in Moments : Tells(a, Head(q), c) /\ Chain(Tail(q), c, b)
<1>1. PICK c \in Moments : <<a, Head(q), c>> \in Links /\ Linked(Moments, Links, Tail(q), c, b)
  BY LinkShrinks DEF Chain
<1> QED
  BY <1>1 DEF Chain, Links

-----------------------------------------------------------------------------
(* The kernel, seen from the pen's port.                                   *)

\* What the kernel remembers of the pen and the keys is as they are.
Kernel ==
    /\ GoodPen(hand.pen)
    /\ hand.pen.near => wac.penTool = hand.pen.tool
    /\ IF IsGraphire
       THEN (wac.penId # NoId <=> hand.pen.near) /\ (wac.pad <=> hand.pads # {})
       ELSE near = hand.pen.near /\ (near => wac.penId = ToolId[hand.pen.tool])

\* Tools, their switches and the keys are different events.
LEMMA Apart ==
    /\ PenTools \cap PenButtons = {} /\ PenTools \cap PadSide = {} /\ PenButtons \cap PadSide = {}
    /\ PadKeys \subseteq PadButtons /\ PadKeys \subseteq PadSide
    /\ "BTN_TOOL_FINGER" \notin PadButtons
    /\ \A t \in PenTools : PenSwitches[t] \subseteq PenButtons /\ t \in DOMAIN ToolId
                           /\ ToolId[t] # NoId /\ ToolId[t] # "PAD" /\ t # NoId
  BY SwitchAssumption, TabletAssumption DEF PenButtons, PadSide, PadButtons, ToolId, NoId

\* What the input core keeps after a report is what was reported.
LEMMA StoredIs ==
    ASSUME NEW c, NEW on, NEW off, NEW misc, NEW first, NEW serial, NEW axes
    PROVE  LET r == Report(on, off, misc, first, serial, axes)
           IN  /\ Stored(c, r).on = (c.on \cup on) \ off /\ Stored(c, r).misc = misc
               /\ Changes(c, r) = [on |-> on \ c.on, off |-> off \cap c.on,
                                   misc |-> IF misc = c.misc THEN NoMisc ELSE misc,
                                   miscFirst |-> first, serial |-> serial, axes |-> axes]
<1> DEFINE r == Report(on, off, misc, first, serial, axes)
<1>1. r = [on |-> on, off |-> off, misc |-> misc, miscFirst |-> first, serial |-> serial, axes |-> axes]
  BY DEF Report
<1>2. r.on = on /\ r.off = off /\ r.misc = misc
  BY <1>1
<1>3. Changes(c, r) = [r EXCEPT !.on = on \ c.on, !.off = off \cap c.on,
                               !.misc = IF misc = c.misc THEN NoMisc ELSE misc]
  BY <1>2 DEF Changes
<1> HIDE DEF r
<1>4. Changes(c, r) = [on |-> on \ c.on, off |-> off \cap c.on,
                      misc |-> IF misc = c.misc THEN NoMisc ELSE misc,
                      miscFirst |-> first, serial |-> serial, axes |-> axes]
  BY <1>1, <1>3
<1> QED
  BY <1>2, <1>4 DEF Stored, r

\* The moment after the pen moved
AfterPen(h, pen, axes) ==
    LET g == [pen |-> pen, pads |-> h.pads, core |-> h.core]
    IN  [g EXCEPT !.core = Stored(h.core, PenReported(h, g, axes))]

\* A pen report tells the moment before from the one after.
LEMMA PenMoment ==
    ASSUME NEW h, Good(h), NEW pen \in PenHand, GoodPen(pen), PenTurns(h.pen, pen),
           NEW axes \in BOOLEAN, NEW g, g = AfterPen(h, pen, axes)
    PROVE  /\ Good(g) /\ g.pen = pen
           /\ PenReported(h, g, axes) \in Reports
           /\ Tells(h, Changes(h.core, PenReported(h, g, axes)), g)
           /\ g.core = Stored(h.core, PenReported(h, g, axes))
<1> DEFINE tool == IF pen.near THEN pen.tool ELSE h.pen.tool
           id == IF pen.near THEN ToolId[pen.tool] ELSE NoId
           on == pen.pressed \cup (IF pen.near THEN {tool} ELSE {})
           off == (PenSwitches[tool] \ pen.pressed) \cup (IF pen.near THEN {} ELSE {tool})
           serial == IF IsGraphire THEN 1 ELSE NoSerial
           r == PenReport(tool, id, pen, IsGraphire, serial, axes)
<1>1. /\ g.pen = pen /\ g.pads = h.pads
      /\ r = PenReported(h, g, axes)
      /\ g.core = Stored(h.core, r)
      /\ g = [pen |-> pen, pads |-> h.pads, core |-> g.core]
  BY DEF AfterPen, PenReported, ToolBetween
<1>2. r = Report(on, off, id, IsGraphire, serial, axes)
  BY DEF PenReport
<1>3. tool \in PenTools
  BY DEF PenTurns, GoodPen, Good
<1>4. id \in Ids \cup {NoId} /\ id # "PAD"
  BY Apart, SwitchTypes DEF GoodPen, NoId
<1>5. r \in Reports
  BY <1>3, <1>4, PenReportType DEF IsGraphire, NoSerial
<1> HIDE DEF r
<1>6. g.core.on = (h.core.on \cup on) \ off /\ g.core.misc = id
  BY <1>1, <1>2, StoredIs
<1>7. g.core \in [on: SUBSET Switches, misc: Ids \cup {NoId}]
  <2>1. Stored(h.core, r) = [on |-> (h.core.on \cup r.on) \ r.off, misc |-> r.misc]
    BY DEF Stored
  <2> QED
    BY <1>1, <1>5, <2>1 DEF Reports, Good, Moments
<1>8. h.core.on \ PadSide = Lit(h.pen) /\ h.core.on \cap PadButtons = h.pads
  BY DEF Good
<1>9. on \cap PadSide = {} /\ off \cap PadSide = {}
  BY <1>3, Apart DEF GoodPen
<1>10. (Lit(h.pen) \cup on) \ off = Lit(pen)
  <2>1. tool \notin PenSwitches[tool]
    BY <1>3, Apart
  <2>2. CASE pen.near /\ h.pen.near
    BY <2>1, <2>2 DEF PenTurns, GoodPen, Good, Lit
  <2>3. CASE pen.near /\ ~h.pen.near
    BY <2>1, <2>3 DEF PenTurns, GoodPen, Good, Lit
  <2>4. CASE ~pen.near
    BY <2>1, <2>4 DEF PenTurns, GoodPen, Good, Lit
  <2> QED
    BY <2>2, <2>3, <2>4
<1> HIDE DEF on, off
<1>11. g.core.on \ PadSide = Lit(g.pen)
  BY <1>1, <1>6, <1>8, <1>9, <1>10
<1>12. g.core.on \cap PadButtons = g.pads
  BY <1>1, <1>6, <1>8, <1>9 DEF PadSide
<1>13. g \in Moments
  BY <1>1, <1>7 DEF Good, Moments
<1>14. Good(g)
  BY <1>1, <1>4, <1>6, <1>11, <1>12, <1>13 DEF Good
<1> QED
  BY <1>1, <1>5, <1>14 DEF Tells, PenFrame

\* The moment after the keys of a Graphire were told
AfterPads(h, pads) == [pen |-> h.pen, pads |-> pads, core |-> Stored(h.core, PadReported(pads))]

\* A report of the keys does, too.
LEMMA PadMoment ==
    ASSUME IsGraphire, NEW h, Good(h), NEW pads \in SUBSET PadKeys, pads # {} \/ h.pads # {},
           NEW g, g = AfterPads(h, pads)
    PROVE  /\ Good(g) /\ PadReported(pads) \in Reports
           /\ Tells(h, Changes(h.core, PadReported(pads)), g)
<1> DEFINE r == PadReported(pads)
           id == IF pads # {} THEN "PAD" ELSE NoId
<1>1. g.pen = h.pen /\ g.pads = pads /\ g.core = Stored(h.core, r)
  BY DEF AfterPads
<1>2. r = Report(pads \cup {"BTN_TOOL_FINGER"}, PadKeys \ pads, id, FALSE, PadSerial, FALSE)
  BY DEF PadReported
<1>3. r \in Reports
  BY <1>2, SwitchTypes DEF Report, Reports, Ids
<1> HIDE DEF r
<1>4. /\ g.core.on = (h.core.on \cup (pads \cup {"BTN_TOOL_FINGER"})) \ (PadKeys \ pads)
      /\ g.core.misc = id
  <2> DEFINE on == pads \cup {"BTN_TOOL_FINGER"}
             off == PadKeys \ pads
  <2>1. r.on = on /\ r.off = off /\ r.misc = id
    BY <1>2 DEF Report
  <2> HIDE DEF on, off, id
  <2>2. g.core.on = (h.core.on \cup on) \ off /\ g.core.misc = id
    BY <1>1, <2>1 DEF Stored
  <2> QED
    BY <2>2 DEF on, off
<1>5. g.core \in [on: SUBSET Switches, misc: Ids \cup {NoId}]
  <2>1. Stored(h.core, r) = [on |-> (h.core.on \cup r.on) \ r.off, misc |-> r.misc]
    BY DEF Stored
  <2> QED
    BY <1>1, <1>3, <2>1 DEF Reports, Good, Moments
<1>6. g \in Moments
  BY <1>1, <1>5 DEF AfterPads, Good, Moments
<1>7. h.core.on \ PadSide = Lit(h.pen) /\ h.core.on \cap PadButtons = h.pads /\ h.pads \subseteq PadKeys
  BY DEF Good, Moments
<1>8. g.core.on \ PadSide = Lit(g.pen)
  BY <1>1, <1>4, <1>7, Apart DEF PadSide
<1>9. g.core.on \cap PadButtons = g.pads
  <2>1. pads \subseteq PadButtons /\ "BTN_TOOL_FINGER" \notin PadButtons
    BY Apart
  <2>2. ASSUME NEW b \in PadButtons
        PROVE  b \in g.core.on <=> b \in pads
    <3>1. b \in h.core.on <=> b \in h.pads
      BY <1>7
    <3>2. b \in g.core.on <=> (b \in h.core.on \/ b \in pads) /\ ~(b \in PadKeys /\ b \notin pads)
      BY <1>4, <2>1
    <3> QED
      BY <1>7, <3>1, <3>2
  <2> QED
    BY <1>1, <2>1, <2>2
<1>10. g.core.misc = "PAD" => g.pads # {}
  BY <1>1, <1>4 DEF NoId
<1>11. Good(g)
  BY <1>1, <1>6, <1>8, <1>9, <1>10 DEF Good
<1> QED
  BY <1>1, <1>3, <1>11 DEF Tells, PadFrame, r


\* Pens that are lit alike are alike, if one is near.
LEMMA LitTells ==
    ASSUME NEW p \in PenHand, NEW q \in PenHand, GoodPen(p), GoodPen(q), PenTurns(p, q),
           Lit(p) = Lit(q)
    PROVE  p = q
<1>1. p.near = TRUE /\ q.near = TRUE
  BY Apart DEF GoodPen, PenTurns, Lit, PenHand
<1>2. p.tool = q.tool /\ p.tool \notin p.pressed /\ p.tool \notin q.pressed
  BY <1>1, Apart DEF GoodPen, PenTurns
<1>3. p.pressed = q.pressed
  BY <1>1, <1>2 DEF Lit
<1> QED
  BY <1>1, <1>2, <1>3 DEF PenHand

\* A pen report is a link of the chain, or there is nothing to tell.
LEMMA PenSent ==
    ASSUME NEW input \in Inputs, NEW a, NEW h, Good(h), Chain(input.out, a, h),
           h.core = input.core,
           NEW pen \in PenHand, GoodPen(pen), PenTurns(h.pen, pen),
           NEW axes \in BOOLEAN, NEW g, g = AfterPen(h, pen, axes),
           NEW n, n = Send(input, PenReported(h, g, axes))
    PROVE  n \in Inputs /\ Chain(n.out, a, g) /\ n.core = g.core /\ Good(g)
<1> DEFINE r == PenReported(h, g, axes)
           f == Changes(h.core, r)
<1>1. /\ Good(g) /\ g.pen = pen /\ r \in Reports
      /\ Tells(h, f, g) /\ g.core = Stored(h.core, r)
  BY PenMoment
<1>2. n \in Inputs
  BY <1>1, SendType
<1>3. n.core = g.core /\ n.out = IF Silent(f) THEN input.out ELSE Append(input.out, f)
  BY <1>1 DEF Send
<1>4. input.out \in Seq(Frame) /\ h.core \in [on: SUBSET Switches, misc: Ids \cup {NoId}]
  BY DEF Inputs
<1>5. f \in Frame
  BY <1>1, <1>4 DEF Changes, Reports, Frame
<1>6. CASE ~Silent(f)
  <2> HIDE DEF f, r
  <2>1. Chain(Append(input.out, f), a, g)
    BY <1>1, <1>4, <1>5, ChainGrows
  <2> QED
    BY <1>1, <1>2, <1>3, <1>6, <2>1
<1>7. CASE Silent(f)
  <2>1. f.on = r.on \ h.core.on /\ f.off = r.off \cap h.core.on
        /\ f.misc = IF r.misc = h.core.misc THEN NoMisc ELSE r.misc
    BY <1>1 DEF Changes, Reports
  <2>2. r.misc # NoMisc
    BY <1>1 DEF Reports, Ids, NoId, NoMisc
  <2> HIDE DEF f, r
  <2>3. r.on \subseteq h.core.on /\ r.off \cap h.core.on = {} /\ r.misc = h.core.misc
    BY <1>7, <2>1, <2>2 DEF Silent
  <2>4. g.core = h.core
    BY <1>1, <1>4, <2>3 DEF Stored
  <2>5. Lit(g.pen) = Lit(h.pen) /\ g.pads = h.pads
    BY <1>1, <2>4 DEF Good, AfterPen
  <2>6. g.pen = h.pen
    BY <1>1, <2>5, LitTells DEF Good, Moments
  <2>7. g = h
    BY <1>1, <2>4, <2>5, <2>6 DEF Good, Moments
  <2> QED
    BY <1>1, <1>2, <1>3, <1>7, <2>7
<1> QED
  BY <1>6, <1>7

\* So is a report of a Graphire's keys.
LEMMA PadSent ==
    ASSUME IsGraphire, NEW input \in Inputs, NEW a, NEW h, Good(h), Chain(input.out, a, h),
           h.core = input.core,
           NEW pads \in SUBSET PadKeys, wac.pad <=> h.pads # {},
           NEW n, n = SendGraphirePad(input, pads)
    PROVE  LET g == [pen |-> h.pen, pads |-> pads, core |-> n.core]
           IN  n \in Inputs /\ Chain(n.out, a, g) /\ Good(g)
<1> DEFINE r == PadReported(pads)
           f == Changes(h.core, r)
           g == AfterPads(h, pads)
<1>1. CASE pads = {} /\ h.pads = {}
  <2>1. n = input
    BY <1>1 DEF SendGraphirePad
  <2>2. [pen |-> h.pen, pads |-> pads, core |-> n.core] = h
    BY <1>1, <2>1 DEF Good, Moments
  <2> QED
    BY <2>1, <2>2
<1>2. CASE pads # {} \/ h.pads # {}
  <2>1. Good(g) /\ r \in Reports /\ Tells(h, f, g)
    BY <1>2, PadMoment
  <2>2. n = Send(input, r)
    BY <1>2 DEF SendGraphirePad, PadReported
  <2>3. r.serial = PadSerial
    BY DEF PadReported, Report
  <2>4. f.serial = r.serial
    BY <2>1 DEF Changes, Reports
  <2>5. ~Silent(f)
    BY <2>3, <2>4 DEF Silent, PadSerial, NoSerial
  <2>6. input.out \in Seq(Frame) /\ h.core \in [on: SUBSET Switches, misc: Ids \cup {NoId}]
    BY DEF Inputs
  <2>7. f \in Frame
    BY <2>1, <2>6 DEF Changes, Reports, Frame
  <2>8. n \in Inputs
    BY <2>1, <2>2, SendType
  <2>9. n.core = Stored(h.core, r) /\ n.out = Append(input.out, f)
    BY <2>2, <2>5 DEF Send
  <2>10. [pen |-> h.pen, pads |-> pads, core |-> n.core] = g
    BY <2>9 DEF AfterPads
  <2> HIDE DEF f, r, g
  <2>11. Chain(n.out, a, g)
    BY <2>1, <2>6, <2>7, <2>9, ChainGrows
  <2> QED
    BY <2>1, <2>8, <2>10, <2>11
<1> QED
  BY <1>1, <1>2


\* The user's next pen is a good one, and it comes, goes or stays.
LEMMA PenNextTurns ==
    ASSUME WacTypeOK, GoodPen(hand.pen), NEW pen \in PenNext,
           pen.near => pen.pressed \subseteq PenSwitches[pen.tool]
    PROVE  /\ pen \in PenHand /\ pen.tool \in PenTools
           /\ GoodPen(pen) /\ PenTurns(hand.pen, pen)
           /\ ~pen.near \/ hand.pen.near => pen.tool = hand.pen.tool
<1>1. pen \in PenHand /\ pen.tool \in PenTools
  BY PenNextType
<1>2. CASE pen \in {[near |-> TRUE, tool |-> t, pressed |-> p] :
                      t \in (IF hand.pen.near THEN {hand.pen.tool} ELSE PenTools),
                      p \in UNION {SUBSET PenSwitches[u] : u \in PenTools}}
  <2>1. PICK t \in (IF hand.pen.near THEN {hand.pen.tool} ELSE PenTools),
             p \in UNION {SUBSET PenSwitches[u] : u \in PenTools} :
               pen = [near |-> TRUE, tool |-> t, pressed |-> p]
    BY <1>2
  <2>2. pen.near = TRUE /\ (hand.pen.near => pen.tool = hand.pen.tool)
    BY <2>1
  <2> QED
    BY <1>1, <2>2 DEF GoodPen, PenTurns
<1>3. CASE /\ hand.pen.near
           /\ pen = [hand.pen EXCEPT !.near = FALSE, !.pressed = {}]
  <2>1. hand.pen \in PenHand
    BY DEF WacTypeOK
  <2>2. pen.near = FALSE /\ pen.pressed = {} /\ pen.tool = hand.pen.tool
    BY <1>3, <2>1 DEF PenHand
  <2> QED
    BY <1>1, <1>3, <2>2 DEF GoodPen, PenTurns
<1> QED
  BY <1>2, <1>3 DEF PenNext

\* The moment now is one.
LEMMA NowFields ==
    /\ Now.pen = hand.pen /\ Now.pads = (IF IsGraphire THEN hand.pads ELSE {})
    /\ Now.core = core[PenPort]
  BY DEF Now

\* wacom_tpc_irq and wacom_bpt_irq tell the driver what the pen does.
LEMMA PenMovesChain ==
    ASSUME Kernel, WacTypeOK, Good(Now), NEW h, Chain(queue[PenPort], h, Now), PenMoves
    PROVE  Kernel' /\ Good(Now)' /\ Chain(queue[PenPort], h, Now)'
<1>1. PICK pen \in PenNext, axes \in Axes :
        /\ features # "WACOM_G4" /\ pen.pressed \subseteq PenSwitches[pen.tool]
        /\ PenPacket(pen, axes)
  BY DEF PenMoves
<1>2. /\ ~IsGraphire /\ axes \in BOOLEAN /\ GoodPen(hand.pen) /\ PenPort \in Ports
      /\ near = hand.pen.near
      /\ near => wac.penId = ToolId[hand.pen.tool] /\ wac.penTool = hand.pen.tool
  BY <1>1, TabletAssumption DEF IsGraphire, Kernel
<1>3. /\ pen \in PenHand /\ pen.tool \in PenTools
      /\ GoodPen(pen) /\ PenTurns(hand.pen, pen)
      /\ ~pen.near \/ hand.pen.near => pen.tool = hand.pen.tool
  BY <1>1, <1>2, PenNextTurns
<1> DEFINE now == Now
           g == AfterPen(now, pen, axes)
           r == PenReported(now, g, axes)
           n == Send(Input(PenPort), r)
<1>4. now.pen = hand.pen /\ now.core = core[PenPort] /\ now.pads = {} /\ now = Now /\ Good(now)
  BY <1>2, NowFields
<1> HIDE DEF now
<1>5. Input(PenPort) \in Inputs /\ Input(PenPort).core = core[PenPort]
      /\ Input(PenPort).out = queue[PenPort]
  BY <1>2, InputType DEF Input
<1>6. g.pen = pen /\ g.pads = {} /\ g = [pen |-> pen, pads |-> {}, core |-> g.core]
  BY <1>4 DEF AfterPen
<1>7. r = PenReport(pen.tool, IF pen.near THEN ToolId[pen.tool] ELSE NoId, pen, FALSE,
                    NoSerial, axes)
  <2>1. ToolBetween(now, g) = pen.tool
    BY <1>3, <1>4, <1>6 DEF ToolBetween
  <2>2. IsGraphire = FALSE
    BY <1>2 DEF IsGraphire
  <2> HIDE DEF g, now
  <2> QED
    BY <1>6, <2>1, <2>2 DEF PenReported
<1>8. n \in Inputs /\ Chain(n.out, h, g) /\ n.core = g.core /\ Good(g)
  <2>1. PenTurns(now.pen, pen) /\ Chain(Input(PenPort).out, h, now)
        /\ now.core = Input(PenPort).core
    BY <1>3, <1>4, <1>5
  <2> HIDE DEF g
  <2> QED
    BY <1>2, <1>3, <1>4, <1>5, <2>1, PenSent DEF g
<1>9. /\ Deliver(PenPort, n)
      /\ wac'.penTool = pen.tool
      /\ wac'.penId = IF pen.near THEN ToolId[pen.tool] ELSE NoId
      /\ near' = pen.near
      /\ hand' = [hand EXCEPT !.pen = pen]
  BY <1>1, <1>2, <1>3, <1>7 DEF PenPacket, WacTypeOK
<1> HIDE DEF g, n, r
<1>10. core'[PenPort] = n.core /\ queue'[PenPort] = n.out
  BY <1>2, <1>9 DEF Deliver, WacTypeOK
<1>11. hand'.pen = pen
  BY <1>9 DEF WacTypeOK
<1>12. Now' = g
  BY <1>2, <1>6, <1>8, <1>10, <1>11 DEF Now
<1>13. Kernel'
  BY <1>2, <1>3, <1>9, <1>11 DEF Kernel
<1> QED
  BY <1>8, <1>10, <1>12, <1>13

\* Their touch reports tell nothing of the pen.
LEMMA TouchMovesChain ==
    ASSUME Kernel, WacTypeOK, Good(Now), NEW h, Chain(queue[PenPort], h, Now), TouchMoves
    PROVE  Kernel' /\ Good(Now)' /\ Chain(queue[PenPort], h, Now)'
<1>1. PICK fingers \in SUBSET Fingers, pads \in SUBSET PadKeys, axes \in Axes :
        features # "WACOM_G4" /\ TouchPacket(fingers, pads, axes)
  BY DEF TouchMoves
<1>2. ~IsGraphire /\ PenPort # TouchPort /\ PenPort \in Ports
  BY <1>1, TabletAssumption DEF IsGraphire
<1>3. /\ core'[PenPort] = core[PenPort] /\ queue'[PenPort] = queue[PenPort]
      /\ near' = near /\ hand'.pen = hand.pen
      /\ wac'.penTool = wac.penTool /\ wac'.penId = wac.penId
  BY <1>1, <1>2 DEF TouchPacket, Deliver, WacTypeOK
<1>4. Now' = Now
  BY <1>2, <1>3 DEF Now
<1>5. Kernel'
  BY <1>2, <1>3 DEF Kernel
<1> QED
  BY <1>3, <1>4, <1>5

\* wacom_graphire_irq tells of the pen, then of the keys.
LEMMA GraphireMovesChain ==
    ASSUME Kernel, WacTypeOK, Good(Now), NEW h, Chain(queue[PenPort], h, Now), GraphireMoves
    PROVE  Kernel' /\ Good(Now)' /\ Chain(queue[PenPort], h, Now)'
<1>1. PICK pen \in PenNext \cup {hand.pen}, pads \in SUBSET PadKeys, axes \in Axes :
        /\ features = "WACOM_G4"
        /\ pen.near => pen.pressed \subseteq PenSwitches[pen.tool]
        /\ GraphirePacket(pen, pads, axes)
  BY DEF GraphireMoves
<1>2. /\ IsGraphire /\ axes \in BOOLEAN /\ GoodPen(hand.pen) /\ PenPort \in Ports
      /\ wac.penId # NoId <=> hand.pen.near
      /\ wac.pad <=> hand.pads # {}
      /\ hand.pen.near => wac.penTool = hand.pen.tool
      /\ hand.pen \in PenHand
  BY <1>1, TabletAssumption DEF IsGraphire, Kernel, WacTypeOK
<1>3. /\ pen \in PenHand /\ GoodPen(pen)
      /\ pen.near \/ hand.pen.near => PenTurns(hand.pen, pen)
      /\ ~pen.near /\ ~hand.pen.near => pen = hand.pen
  <2>1. CASE pen \in PenNext
    BY <1>1, <1>2, <2>1, PenNextTurns DEF PenTurns
  <2>2. CASE pen = hand.pen
    BY <1>2, <2>2 DEF PenTurns
  <2> QED
    BY <2>1, <2>2
<1> DEFINE now == Now
           input == Input(PenPort)
           tool == IF pen.near THEN pen.tool ELSE wac.penTool
           id == IF pen.near THEN ToolId[tool] ELSE NoId
           tools == IF pen.near \/ wac.penId # NoId
                    THEN Send(input, PenReport(tool, id, pen, TRUE, 1, axes))
                    ELSE input
           all == SendGraphirePad(tools, pads)
<1>4. now.pen = hand.pen /\ now.core = core[PenPort] /\ now.pads = hand.pads /\ now = Now
      /\ Good(now)
  BY <1>2, NowFields
<1> HIDE DEF now
<1>5. input \in Inputs /\ input.core = now.core /\ Chain(input.out, h, now)
  BY <1>2, <1>4, InputType DEF Input
<1> HIDE DEF input
<1>6. /\ Deliver(PenPort, all)
      /\ wac' = [wac EXCEPT !.penTool = tool, !.penId = id, !.pad = pads # {}]
      /\ hand' = [hand EXCEPT !.pen = pen, !.pads = pads]
      /\ near' = near
  BY <1>1 DEF GraphirePacket, input
<1>7. PICK g : /\ tools \in Inputs /\ Chain(tools.out, h, g) /\ tools.core = g.core /\ Good(g)
               /\ g.pen = pen /\ g.pads = hand.pads
  <2>1. CASE pen.near \/ hand.pen.near
    <3> DEFINE g == AfterPen(now, pen, axes)
               r == PenReported(now, g, axes)
               n == Send(input, r)
    <3>1. g.pen = pen /\ g.pads = hand.pads
      BY <1>4 DEF AfterPen
    <3>2. r = PenReport(tool, id, pen, TRUE, 1, axes)
      <4>1. ToolBetween(now, g) = tool
        BY <1>2, <1>4, <2>1, <3>1 DEF ToolBetween
      <4>2. IsGraphire = TRUE
        BY <1>2 DEF IsGraphire
      <4> HIDE DEF g, now, tool
      <4> QED
        BY <3>1, <4>1, <4>2 DEF PenReported, tool
    <3> HIDE DEF g, r, tool, id
    <3>3. PenTurns(now.pen, pen)
      BY <1>3, <1>4, <2>1
    <3>4. n \in Inputs /\ Chain(n.out, h, g) /\ n.core = g.core /\ Good(g)
      BY <1>2, <1>3, <1>4, <1>5, <3>3, PenSent DEF g, r
    <3>5. tools = n
      BY <1>2, <2>1, <3>2 DEF tool, id
    <3> HIDE DEF n, tools
    <3> QED
      BY <3>1, <3>4, <3>5
  <2>2. CASE ~pen.near /\ ~hand.pen.near
    <3>1. tools = input /\ pen = hand.pen
      BY <1>2, <1>3, <2>2
    <3> HIDE DEF tools
    <3> QED
      BY <1>4, <1>5, <3>1
  <2> QED
    BY <2>1, <2>2
<1> HIDE DEF tools
<1> DEFINE last == [pen |-> pen, pads |-> pads, core |-> all.core]
<1>8. all \in Inputs /\ Chain(all.out, h, last) /\ Good(last)
  <2>1. wac.pad <=> g.pads # {}
    BY <1>2, <1>7
  <2> HIDE DEF all
  <2> QED
    BY <1>2, <1>7, <2>1, PadSent DEF all
<1> HIDE DEF all
<1>9. core'[PenPort] = all.core /\ queue'[PenPort] = all.out
      /\ hand'.pen = pen /\ hand'.pads = pads
  BY <1>2, <1>6 DEF Deliver, WacTypeOK
<1>10. Now' = last
  BY <1>2, <1>9 DEF Now
<1>11. Kernel'
  <2>1. pen.near => id # NoId
    BY <1>3, Apart DEF GoodPen
  <2>2. wac'.penTool = tool /\ wac'.penId = id /\ (wac'.pad <=> pads # {})
    BY <1>6 DEF WacTypeOK
  <2> QED
    BY <1>2, <1>3, <1>9, <2>1, <2>2 DEF Kernel
<1> QED
  BY <1>8, <1>9, <1>10, <1>11

\* Whatever the hardware reports, the queue tells the way to now.
LEMMA HardwareChain ==
    ASSUME Kernel, WacTypeOK, Good(Now), NEW h, Chain(queue[PenPort], h, Now), WacNext
    PROVE  Kernel' /\ Good(Now)' /\ Chain(queue[PenPort], h, Now)'
  BY PenMovesChain, TouchMovesChain, GraphireMovesChain DEF WacNext

-----------------------------------------------------------------------------
(* The reader: what a frame makes of a channel's working state.            *)

\* A tool's switches are different buttons.
LEMMA ToolButtons ==
    /\ PenButtons \subseteq Switches
    /\ \A t \in PenTools : \A a, b \in PenSwitches[t] \ {"ABS_PRESSURE"} :
         a \in DOMAIN ButtonOf /\ (ButtonOf[a] = ButtonOf[b] => a = b)
    /\ \A a, b \in PadButtons : a \in DOMAIN ButtonOf /\ (ButtonOf[a] = ButtonOf[b] => a = b)
<1>1. ASSUME NEW t \in PenTools, NEW a \in PenSwitches[t] \ {"ABS_PRESSURE"},
             NEW b \in PenSwitches[t] \ {"ABS_PRESSURE"}
      PROVE  a \in DOMAIN ButtonOf /\ (ButtonOf[a] = ButtonOf[b] => a = b)
  <2>1. CASE t = "BTN_TOOL_MOUSE"
    <3>1. a \in {"BTN_LEFT", "BTN_MIDDLE", "BTN_RIGHT"} /\ b \in {"BTN_LEFT", "BTN_MIDDLE", "BTN_RIGHT"}
      BY <2>1, SwitchAssumption
    <3> QED
      BY <3>1 DEF ButtonOf, PenButtons, PadButtons
  <2>2. CASE t # "BTN_TOOL_MOUSE"
    <3>1. a \in {"BTN_STYLUS", "BTN_STYLUS2"} /\ b \in {"BTN_STYLUS", "BTN_STYLUS2"}
      BY <2>2, SwitchAssumption
    <3> QED
      BY <3>1 DEF ButtonOf, PenButtons, PadButtons
  <2> QED
    BY <2>1, <2>2
<1>2. ASSUME NEW a \in PadButtons, NEW b \in PadButtons
      PROVE  a \in DOMAIN ButtonOf /\ (ButtonOf[a] = ButtonOf[b] => a = b)
  BY DEF ButtonOf, PenButtons, PadButtons
<1> QED
  BY <1>1, <1>2, SwitchTypes

\* The switches of a set, none of them two of the same button
Distinct(S) ==
    \A a, b \in S : a \in DOMAIN ButtonOf /\ (ButtonOf[a] = ButtonOf[b] => a = b)

\* Of the switches S, p become q: the keys on go on, the keys off go off.
Pressing(S, p, q, on, off) ==
    /\ Distinct(S \ {"ABS_PRESSURE"})
    /\ p \subseteq S /\ q \subseteq S
    /\ on \cap DOMAIN ButtonOf = (q \ p) \ {"ABS_PRESSURE"}
    /\ off \cap DOMAIN ButtonOf = (p \ q) \ {"ABS_PRESSURE"}

\* The buttons follow the switches.
LEMMA ButtonsFollow ==
    ASSUME NEW S, NEW p, NEW q, NEW on, NEW off, Pressing(S, p, q, on, off)
    PROVE  (ButtonsOf(p) \cup ButtonsOf(on)) \ ButtonsOf(off) = ButtonsOf(q)
<1> USE DEF Pressing
<1> DEFINE D == DOMAIN ButtonOf
<1>1. "ABS_PRESSURE" \notin D
  BY DEF ButtonOf
<1>2. p \cap D = p \ {"ABS_PRESSURE"} /\ q \cap D = q \ {"ABS_PRESSURE"}
  BY <1>1 DEF Distinct
<1> DEFINE P == p \ {"ABS_PRESSURE"}
           Q == q \ {"ABS_PRESSURE"}
           B(s) == {ButtonOf[x] : x \in s}
<1>3. /\ ButtonsOf(p) = B(P) /\ ButtonsOf(q) = B(Q)
      /\ ButtonsOf(on) = B(Q \ P) /\ ButtonsOf(off) = B(P \ Q)
  <2>1. on \cap D = Q \ P /\ off \cap D = P \ Q
    OBVIOUS
  <2> QED
    BY <1>2, <2>1 DEF ButtonsOf
<1>4. P \subseteq S \ {"ABS_PRESSURE"} /\ Q \subseteq S \ {"ABS_PRESSURE"}
  OBVIOUS
<1>5. \A a, b \in P \cup Q : ButtonOf[a] = ButtonOf[b] => a = b
  BY <1>4 DEF Distinct
<1> HIDE DEF P, Q, D
<1>6. (B(P) \cup B(Q \ P)) \ B(P \ Q) = B(Q)
  BY <1>5
<1> QED
  BY <1>3, <1>6

\* A tool's key sets the type, and the proximity.
LEMMA ToolKeyParsed ==
    ASSUME NEW s \in WorkState, NEW f, NEW tool \in PenTools \cup {"BTN_TOOL_FINGER"},
           (f.on \cup f.off) \cap DOMAIN KeyType \subseteq {tool},
           NEW n, n = ParseToolKey(s, f)
    PROVE  /\ n \in WorkState
           /\ n.serial = s.serial /\ n.buttons = s.buttons /\ n.pressed = s.pressed
           /\ IF tool \in f.on \cup f.off
              THEN n.type = KeyType[tool] /\ (n.proximity <=> tool \in f.on)
              ELSE n = s
<1> DEFINE keys == (f.on \cup f.off) \cap DOMAIN KeyType
           key == CHOOSE k \in keys : TRUE
<1>1. tool \in DOMAIN KeyType /\ tool # "BTN_TOOL_DOUBLETAP" /\ KeyType[tool] \in Types
  BY TabletAssumption DEF KeyType, ToolKeys, ToolId, Types
<1>2. CASE tool \in f.on \cup f.off
  <2>1. keys = {tool}
    BY <1>1, <1>2
  <2>2. key = tool
    BY <2>1
  <2> DEFINE type == KeyType[tool]
             on == tool \in f.on
  <2>3. n = [s EXCEPT !.type = type, !.id = type, !.proximity = on]
    BY <1>1, <2>1, <2>2 DEF ParseToolKey
  <2>4. type \in Types /\ on \in BOOLEAN
    BY <1>1
  <2> HIDE DEF type, on
  <2>5. /\ n \in WorkState /\ n.serial = s.serial /\ n.buttons = s.buttons
        /\ n.pressed = s.pressed /\ n.type = type /\ n.proximity = on
    BY <2>3, <2>4 DEF WorkState
  <2> QED
    BY <1>2, <2>5 DEF type, on
<1>3. CASE tool \notin f.on \cup f.off
  <2>1. keys = {}
    BY <1>3
  <2> QED
    BY <1>3, <2>1 DEF ParseToolKey
<1> QED
  BY <1>2, <1>3

\* What a tool's id makes of a state
MiscSays(s, f, n) ==
    /\ n \in WorkState
    /\ n.serial = s.serial /\ n.buttons = s.buttons /\ n.pressed = s.pressed
    /\ f.misc = NoMisc => n = s
    /\ f.misc = NoId => n.type = s.type /\ n.proximity = FALSE
    /\ f.misc \notin {NoId, NoMisc} => n.type = f.misc /\ n.proximity = TRUE

\* A tool's id sets the type and the proximity, too.
LEMMA MiscParsed ==
    ASSUME NEW s \in WorkState, NEW f, f.misc \in Ids \cup {NoId, NoMisc},
           NEW n, n = ParseMisc(s, f)
    PROVE  MiscSays(s, f, n)
<1>1. CASE f.misc = NoMisc
  BY <1>1 DEF ParseMisc, NoId, NoMisc, MiscSays
<1>2. CASE f.misc = NoId
  BY <1>2 DEF ParseMisc, NoId, NoMisc, WorkState, MiscSays
<1>3. CASE f.misc \notin {NoId, NoMisc}
  <2> DEFINE m == f.misc
  <2>1. n = [s EXCEPT !.proximity = TRUE, !.id = m, !.type = m]
    BY <1>3 DEF ParseMisc
  <2>2. m \in Types
    BY <1>3 DEF Ids, Types
  <2> HIDE DEF m
  <2>3. /\ n \in WorkState /\ n.type = m /\ n.proximity = TRUE
        /\ n.serial = s.serial /\ n.buttons = s.buttons /\ n.pressed = s.pressed
    BY <2>1, <2>2 DEF WorkState
  <2> QED
    BY <1>3, <2>3 DEF m, MiscSays
<1> QED
  BY <1>1, <1>2, <1>3

\* A state with a type keeps it.
LEMMA TypedKept ==
    ASSUME NEW w, w.type # NoType, NEW now
    PROVE  Retyped(w, now) = w
  BY DEF Retyped

\* The pens' serial number
PenSerial == IF IsGraphire THEN 1 ELSE NoSerial

\* A pen's frame says what was lit and what was put out.
LEMMA PenFrameSays ==
    ASSUME NEW h, NEW f, NEW g, Good(h), Good(g), PenFrame(h, f, g),
           NEW tool, tool = ToolBetween(h, g)
    PROVE  /\ tool \in PenTools
           /\ h.pen.near => tool = h.pen.tool
           /\ g.pen.near => tool = g.pen.tool
           /\ f.on = Lit(g.pen) \ Lit(h.pen) /\ f.off = Lit(h.pen) \ Lit(g.pen)
           /\ f.serial = PenSerial
           /\ f.miscFirst = IsGraphire
           /\ LET id == IF g.pen.near THEN ToolId[tool] ELSE NoId
              IN  f.misc = IF id = h.core.misc THEN NoMisc ELSE id
<1> DEFINE p == h.pen
           q == g.pen
           on == q.pressed \cup (IF q.near THEN {tool} ELSE {})
           off == (PenSwitches[tool] \ q.pressed) \cup (IF q.near THEN {} ELSE {tool})
           id == IF q.near THEN ToolId[tool] ELSE NoId
<1>1. /\ GoodPen(p) /\ GoodPen(q) /\ PenTurns(p, q)
      /\ h.core.on \ PadSide = Lit(p)
  BY DEF Good, PenFrame
<1>2. tool = IF q.near THEN q.tool ELSE p.tool
  BY DEF ToolBetween
<1>3. tool \in PenTools /\ (p.near => tool = p.tool) /\ (q.near => tool = q.tool)
  BY <1>1, <1>2 DEF PenTurns, GoodPen
<1>4. PICK axes \in BOOLEAN : f = Changes(h.core, PenReported(h, g, axes))
  BY DEF PenFrame
<1>5. PenReported(h, g, axes) = Report(on, off, id, IsGraphire, PenSerial, axes)
  <2>1. id = IF q.near THEN ToolId[q.tool] ELSE NoId
    BY <1>3
  <2> HIDE DEF id
  <2> QED
    BY <2>1 DEF PenReported, PenReport, PenSerial
<1> DEFINE first == IsGraphire
<1> HIDE DEF on, off, id
<1>6. LET changes == Changes(h.core, Report(on, off, id, first, PenSerial, axes))
      IN  /\ changes.on = on \ h.core.on /\ changes.off = off \cap h.core.on
          /\ changes.misc = IF id = h.core.misc THEN NoMisc ELSE id
          /\ changes.miscFirst = first /\ changes.serial = PenSerial
  <2> DEFINE serial == PenSerial
             core0 == h.core
             sent == Changes(core0, Report(on, off, id, first, serial, axes))
  <2> HIDE DEF first, serial, core0
  <2>1. sent = [on |-> on \ core0.on, off |-> off \cap core0.on,
                   misc |-> IF id = core0.misc THEN NoMisc ELSE id,
                   miscFirst |-> first, serial |-> serial, axes |-> axes]
    BY StoredIs
  <2> HIDE DEF sent
  <2>2. /\ sent.on = on \ core0.on /\ sent.off = off \cap core0.on
        /\ sent.misc = IF id = core0.misc THEN NoMisc ELSE id
        /\ sent.miscFirst = first /\ sent.serial = serial
    BY <2>1
  <2> QED
    BY <2>2 DEF sent, core0, serial
<1>7. /\ f.on = on \ h.core.on /\ f.off = off \cap h.core.on
      /\ f.misc = IF id = h.core.misc THEN NoMisc ELSE id
      /\ f.miscFirst = IsGraphire /\ f.serial = PenSerial
  BY <1>4, <1>5, <1>6
<1>8. on \cap PadSide = {} /\ off \cap PadSide = {} /\ on = Lit(q) /\ tool \notin PenSwitches[tool]
  BY <1>1, <1>3, Apart DEF on, off, GoodPen, Lit
<1>9. f.on = Lit(q) \ Lit(p) /\ f.off = off \cap Lit(p)
  BY <1>1, <1>7, <1>8
<1>10. off \cap Lit(p) = Lit(p) \ Lit(q)
  <2>1. CASE p.near
    <3>1. p.pressed \subseteq PenSwitches[tool] /\ p.tool = tool
      BY <1>1, <1>3, <2>1 DEF GoodPen
    <3>2. q.pressed \subseteq PenSwitches[tool]
      BY <1>1, <1>3 DEF GoodPen
    <3> QED
      BY <1>3, <1>8, <2>1, <3>1, <3>2 DEF off, Lit
  <2>2. CASE ~p.near
    <3>1. Lit(p) = {}
      BY <1>1, <2>2 DEF GoodPen, Lit
    <3> QED
      BY <3>1
  <2> QED
    BY <2>1, <2>2
<1> QED
  BY <1>3, <1>7, <1>9, <1>10 DEF id

\* A working state shows a pen ...
Shows(w, pen) ==
    /\ w.buttons = ButtonsOf(pen.pressed)
    /\ w.pressed <=> "ABS_PRESSURE" \in pen.pressed
    /\ pen.near => w.type = ToolId[pen.tool]

\* ... or that there is none.
PenRep(w, pen) ==
    /\ w.proximity <=> pen.near
    /\ pen.near => Shows(w, pen)

\* A channel that is opened shows the pen of before.
LEMMA OpenedShows ==
    ASSUME NEW chan \in ChannelState, NEW pen \in PenHand, GoodPen(pen), PenRep(chan.work, pen),
           NEW open, open = Opened(chan)
    PROVE  /\ open \in ChannelState /\ open.work.proximity = TRUE /\ Shows(open.work, pen)
           /\ pen.near => open = chan
<1>1. CASE pen.near
  <2>1. chan.work.proximity = TRUE /\ open = chan
    BY <1>1 DEF PenRep, Opened, ChannelState, WorkState
  <2> QED
    BY <1>1, <2>1 DEF PenRep
<1>2. CASE ~pen.near
  <2> DEFINE w == [Blank EXCEPT !.proximity = TRUE]
  <2>1. open = [work |-> w, valid |-> NoneValid, nSamples |-> 0]
    BY <1>2 DEF PenRep, Opened
  <2>2. w \in WorkState /\ w.proximity = TRUE /\ w.buttons = {} /\ w.pressed = FALSE
    BY BlankType
  <2>3. NoneValid \in ValidState
    BY DEF NoneValid, ValidState, Distances
  <2>4. pen.pressed = {} /\ ButtonsOf({}) = {}
    BY <1>2 DEF GoodPen, ButtonsOf
  <2> HIDE DEF w
  <2>5. open \in ChannelState /\ open.work = w
    BY <2>1, <2>2, <2>3 DEF ChannelState
  <2> QED
    BY <1>2, <2>2, <2>4, <2>5 DEF Shows
<1> QED
  BY <1>1, <1>2

\* A state with the serial number and the distance of a frame
Stamped(w, serial, distance) == [w EXCEPT !.serial = serial, !.distance = distance]

Stamps(w, f, serial, distance) ==
    /\ w \in WorkState /\ f \in Frame
    /\ serial \in {0, 1, 2, PadSerial} /\ distance \in Distances

\* The state v is w with the switches of a frame in it.
Switched(v, w, f, serial) ==
    /\ v \in WorkState /\ v.serial = serial /\ v.type = w.type
    /\ v.proximity = w.proximity
    /\ v.buttons = (w.buttons \cup ButtonsOf(f.on)) \ ButtonsOf(f.off)
    /\ v.pressed <=> "ABS_PRESSURE" \in f.on \/ (w.pressed /\ "ABS_PRESSURE" \notin f.off)

\* The switches of a frame, as buttons and tip
LEMMA SwitchesParsed ==
    ASSUME NEW w, NEW f, NEW serial, NEW distance, Stamps(w, f, serial, distance)
    PROVE  Switched(ParseSwitches(Stamped(w, serial, distance), f), w, f, serial)
<1> DEFINE u == Stamped(w, serial, distance)
           v == ParseSwitches(u, f)
<1> DEFINE bs == (w.buttons \cup ButtonsOf(f.on)) \ ButtonsOf(f.off)
           tip == ("ABS_PRESSURE" \in f.on) \/ (w.pressed /\ "ABS_PRESSURE" \notin f.off)
<1>1. u \in WorkState /\ u.serial = serial /\ u.type = w.type /\ u.proximity = w.proximity
      /\ u.buttons = w.buttons /\ u.pressed = w.pressed
  BY DEF Stamps, Stamped, WorkState
<1> HIDE DEF u
<1>2. v = [u EXCEPT !.buttons = bs, !.pressed = tip]
  BY <1>1 DEF ParseSwitches
<1>3. bs \in SUBSET Buttons
  BY ButtonsOfType DEF Stamps, WorkState
<1>4. tip \in BOOLEAN
  BY DEF Stamps, WorkState
<1> HIDE DEF v, bs, tip
<1>5. /\ v \in WorkState /\ v.serial = u.serial /\ v.type = u.type
      /\ v.proximity = u.proximity /\ v.buttons = bs /\ v.pressed = tip
  BY <1>1, <1>2, <1>3, <1>4 DEF WorkState
<1> QED
  BY <1>1, <1>5 DEF Switched, u, v, bs, tip

\* What a pen's frame between two moments makes of a state
PenSays(n, serial, h, g) ==
    /\ n \in WorkState /\ n.serial = serial /\ n.type = ToolId[ToolBetween(h, g)]
    /\ PenRep(n, g.pen)

\* A pen's frame turns a state that shows the pen of before into one that
\* shows the pen of after.
LEMMA PenParsed ==
    ASSUME NEW h, NEW f \in Frame, NEW g, Good(h), Good(g), PenFrame(h, f, g),
           NEW w \in WorkState, w.proximity = TRUE, Shows(w, h.pen),
           NEW serial \in {0, 1, 2, PadSerial}, NEW now,
           NEW distance \in Distances, NEW n, n = Parsed(w, f, serial, distance, now)
    PROVE  PenSays(n, serial, h, g)
<1> DEFINE tool == ToolBetween(h, g)
           p == h.pen
           q == g.pen
           id == IF q.near THEN ToolId[tool] ELSE NoId
           v == ParseSwitches([w EXCEPT !.serial = serial, !.distance = distance], f)
<1>1. /\ tool \in PenTools
      /\ p.near => tool = p.tool
      /\ q.near => tool = q.tool
      /\ f.on = Lit(q) \ Lit(p) /\ f.off = Lit(p) \ Lit(q)
      /\ f.misc = IF id = h.core.misc THEN NoMisc ELSE id
  BY PenFrameSays
<1>2. GoodPen(p) /\ GoodPen(q) /\ PenTurns(p, q)
  BY DEF Good, PenFrame
<1>3. /\ v \in WorkState /\ v.serial = serial /\ v.type = w.type /\ v.proximity = TRUE
      /\ v.buttons = (w.buttons \cup ButtonsOf(f.on)) \ ButtonsOf(f.off)
      /\ v.pressed <=> "ABS_PRESSURE" \in f.on \/ (w.pressed /\ "ABS_PRESSURE" \notin f.off)
  <2>1. Stamps(w, f, serial, distance)
    BY DEF Stamps
  <2>2. v = ParseSwitches(Stamped(w, serial, distance), f)
    BY DEF Stamped
  <2> HIDE DEF v
  <2>3. Switched(v, w, f, serial)
    BY ONLY <2>1, <2>2, SwitchesParsed
  <2> QED
    BY <2>3 DEF Switched
<1> HIDE DEF v, tool, p, q
<1>4. p.pressed \subseteq PenSwitches[tool] /\ q.pressed \subseteq PenSwitches[tool]
      /\ tool \notin PenSwitches[tool] /\ tool \notin DOMAIN ButtonOf /\ tool # "ABS_PRESSURE"
  <2>1. tool \notin PenButtons \cup PadButtons
    BY <1>1, Apart DEF PadSide
  <2>2. "ABS_PRESSURE" \in PenButtons
    BY DEF PenButtons
  <2> QED
    BY <1>1, <1>2, <2>1, <2>2, Apart DEF GoodPen, ButtonOf
<1>5. v.buttons = ButtonsOf(q.pressed)
  <2>1. Distinct(PenSwitches[tool] \ {"ABS_PRESSURE"})
    BY <1>1, ToolButtons DEF Distinct
  <2>2. \A s \in PenSwitches[tool] \ {"ABS_PRESSURE"} : s \in DOMAIN ButtonOf
    BY <2>1 DEF Distinct
  <2>3. f.on \cap DOMAIN ButtonOf = (q.pressed \ p.pressed) \ {"ABS_PRESSURE"}
    <3>1. "ABS_PRESSURE" \notin DOMAIN ButtonOf
      BY DEF ButtonOf
    <3> QED
      BY <1>1, <1>4, <2>2, <3>1 DEF Lit
  <2>4. f.off \cap DOMAIN ButtonOf = (p.pressed \ q.pressed) \ {"ABS_PRESSURE"}
    <3>1. "ABS_PRESSURE" \notin DOMAIN ButtonOf
      BY DEF ButtonOf
    <3> QED
      BY <1>1, <1>4, <2>2, <3>1 DEF Lit
  <2>5. w.buttons = ButtonsOf(p.pressed)
    BY DEF Shows, p
  <2>6. Pressing(PenSwitches[tool], p.pressed, q.pressed, f.on, f.off)
    BY <1>4, <2>1, <2>3, <2>4 DEF Pressing
  <2>7. (ButtonsOf(p.pressed) \cup ButtonsOf(f.on)) \ ButtonsOf(f.off) = ButtonsOf(q.pressed)
    BY <2>6, ButtonsFollow
  <2> QED
    BY <1>3, <2>5, <2>7
<1>6. v.pressed <=> "ABS_PRESSURE" \in q.pressed
  <2>1. w.pressed <=> "ABS_PRESSURE" \in p.pressed
    BY DEF Shows, p
  <2>2. "ABS_PRESSURE" \in f.on <=> "ABS_PRESSURE" \in q.pressed \ p.pressed
    BY <1>1, <1>4 DEF Lit
  <2>3. "ABS_PRESSURE" \in f.off <=> "ABS_PRESSURE" \in p.pressed \ q.pressed
    BY <1>1, <1>4 DEF Lit
  <2> QED
    BY <1>3, <2>1, <2>2, <2>3
<1>7. (f.on \cup f.off) \cap DOMAIN KeyType \subseteq {tool} /\ KeyType[tool] = ToolId[tool]
  <2>1. PenButtons \cap DOMAIN KeyType = {}
    BY DEF PenButtons, KeyType, ToolKeys, ToolId
  <2>2. PenSwitches[tool] \subseteq PenButtons
    BY <1>1, Apart
  <2>3. f.on \cup f.off \subseteq PenSwitches[tool] \cup {tool}
    BY <1>1, <1>4 DEF Lit
  <2>4. KeyType[tool] = ToolId[tool]
    BY <1>1, TabletAssumption DEF KeyType, ToolKeys, ToolId
  <2> QED
    BY <2>1, <2>2, <2>3, <2>4
<1>8. /\ q.near => tool \notin f.off /\ (tool \notin f.on => p.near)
      /\ ~q.near => tool \in f.off /\ tool \notin f.on
  <2>1. CASE q.near
    <3>1. tool \in Lit(q)
      BY <1>1, <2>1 DEF Lit
    <3>2. ~p.near => Lit(p) = {}
      BY <1>2 DEF GoodPen, Lit
    <3> QED
      BY <1>1, <2>1, <3>1, <3>2
  <2>2. CASE ~q.near
    <3>1. Lit(q) = {}
      BY <1>2, <2>2 DEF GoodPen, Lit
    <3>2. tool \in Lit(p)
      BY <1>1, <1>2, <2>2 DEF PenTurns, Lit
    <3> QED
      BY <1>1, <2>2, <3>1, <3>2
  <2> QED
    BY <2>1, <2>2
<1>9. f.misc \in Ids \cup {NoId, NoMisc} /\ id \in Ids \cup {NoId} /\ (id = NoId <=> ~q.near)
      /\ ToolId[tool] \in Ids /\ ToolId[tool] # NoId /\ ToolId[tool] # NoMisc
      /\ (f.misc = NoMisc \/ f.misc = id)
  <2>1. ToolId[tool] \in Ids /\ ToolId[tool] # NoId
    BY <1>1, Apart, SwitchTypes
  <2> QED
    BY <1>1, <2>1 DEF Ids, NoMisc, NoId
<1>10. p.near => w.type = ToolId[tool]
  BY <1>1 DEF Shows, p
<1> DEFINE Right(s) ==
      /\ s \in WorkState /\ s.serial = serial /\ s.buttons = v.buttons /\ s.pressed = v.pressed
      /\ s.type = ToolId[tool] /\ (s.proximity <=> q.near)
<1>11. Right(ParseToolKey(ParseMisc(v, f), f))
  <2> DEFINE m == ParseMisc(v, f)
             k == ParseToolKey(m, f)
  <2>0. MiscSays(v, f, m)
    BY <1>3, <1>9, MiscParsed
  <2>1. /\ m \in WorkState
        /\ m.serial = v.serial /\ m.buttons = v.buttons /\ m.pressed = v.pressed
        /\ f.misc = NoMisc => m = v
        /\ f.misc = NoId => m.type = v.type /\ m.proximity = FALSE
        /\ f.misc \notin {NoId, NoMisc} => m.type = f.misc /\ m.proximity = TRUE
    BY <2>0 DEF MiscSays
  <2> HIDE DEF m
  <2>2. /\ k \in WorkState
        /\ k.serial = m.serial /\ k.buttons = m.buttons /\ k.pressed = m.pressed
        /\ IF tool \in f.on \cup f.off
           THEN k.type = KeyType[tool] /\ (k.proximity <=> tool \in f.on)
           ELSE k = m
    BY <1>1, <1>7, <2>1, ToolKeyParsed
  <2> HIDE DEF k
  <2>3. k.type = ToolId[tool] /\ (k.proximity <=> q.near)
    BY <1>3, <1>7, <1>8, <1>9, <1>10, <2>1, <2>2
  <2> QED
    BY <1>3, <2>1, <2>2, <2>3 DEF k, m
<1>12. Right(ParseMisc(ParseToolKey(v, f), f))
  <2> DEFINE k == ParseToolKey(v, f)
             m == ParseMisc(k, f)
  <2>0. k = ParseToolKey(v, f)
    OBVIOUS
  <2> HIDE DEF k
  <2>1. /\ k \in WorkState
        /\ k.serial = v.serial /\ k.buttons = v.buttons /\ k.pressed = v.pressed
        /\ IF tool \in f.on \cup f.off
           THEN k.type = KeyType[tool] /\ (k.proximity <=> tool \in f.on)
           ELSE k = v
    <3>1. v \in WorkState
      BY <1>3
    <3>2. tool \in PenTools \cup {"BTN_TOOL_FINGER"}
      BY <1>1
    <3>3. (f.on \cup f.off) \cap DOMAIN KeyType \subseteq {tool}
      BY <1>7
    <3> QED
      BY <2>0, <3>1, <3>2, <3>3, ToolKeyParsed
  <2>2. /\ m \in WorkState
        /\ m.serial = k.serial /\ m.buttons = k.buttons /\ m.pressed = k.pressed
        /\ f.misc = NoMisc => m = k
        /\ f.misc = NoId => m.type = k.type /\ m.proximity = FALSE
        /\ f.misc \notin {NoId, NoMisc} => m.type = f.misc /\ m.proximity = TRUE
    <3>1. MiscSays(k, f, m)
      BY <1>9, <2>1, MiscParsed
    <3> QED
      BY <3>1 DEF MiscSays
  <2> HIDE DEF m
  <2>3. m.type = ToolId[tool] /\ (m.proximity <=> q.near)
    BY <1>3, <1>7, <1>8, <1>9, <1>10, <2>1, <2>2
  <2> QED
    BY <1>3, <2>1, <2>2, <2>3 DEF k, m
<1> DEFINE parsed == IF f.miscFirst THEN ParseToolKey(ParseMisc(v, f), f)
                     ELSE ParseMisc(ParseToolKey(v, f), f)
<1>13. Right(parsed)
  BY <1>11, <1>12
<1> HIDE DEF parsed
<1>14. parsed.type # NoType
  BY <1>9, <1>13 DEF Ids, NoType
<1>15. n = parsed
  <2>1. n = Retyped(parsed, now)
    BY DEF Parsed, parsed, v
  <2> QED
    BY <1>14, <2>1, TypedKept
<1>16. PenRep(n, q)
  BY <1>1, <1>5, <1>6, <1>13, <1>15 DEF PenRep, Shows
<1> QED
  BY <1>13, <1>15, <1>16 DEF tool, q, PenSays

-----------------------------------------------------------------------------
(* Dispatch: what becomes of a pen's record.                               *)

\* A sample in proximity that the serial number lets through leaves its
\* buttons in the device's record; any other sample takes the device out.
LEMMA SendEventsButtons ==
    ASSUME NEW v \in Views, ViewInv(v), NEW ds, ds.type # "PAD", ds.buttons \in SUBSET Buttons,
           v.p.serial = 0 \/ v.p.serial = ds.serial
    PROVE  LET w == SendEvents(v, ds)
           IN  w.xprox => ds.proximity /\ w.p.oldButtons = ds.buttons
  BY InProximityInv, OutOfProximityInv DEF SendEvents

\* Posting for d leaves the devices alone that are not sent out.
LEMMA PostLeaves ==
    ASSUME NEW outs, NEW d, NEW v, Post(outs, d, v), NEW e \in Devices, e # d
    PROVE  /\ e \notin outs => priv'[e] = priv[e]
           /\ d \in Devices => priv'[d] = v.p
  BY DEF Post, View

\* A device that is in proximity after something is posted for another one was
\* in proximity before, and was not sent out.
LEMMA PostLetsOut ==
    ASSUME IInv, NEW outs \in SUBSET Devices, NEW a, NEW v,
           a \in Devices => v \in Views /\ ViewInv(v) /\ v.dev = a,
           Post(outs, a, v),
           wcmTPCButton' = wcmTPCButton,
           NEW d \in Devices, d # a, priv'[d].oldProximity
    PROVE  xprox[d] /\ ~(d \in outs /\ priv[d].serial = 0)
<1>1. /\ \A e \in Devices : ViewInv(View(e))'
      /\ \A e \in Devices \ {a} :
           /\ \/ xprox'[e] = xprox[e] /\ down'[e] = down[e]
              \/ ~xprox'[e] /\ down'[e] = {}
           /\ e \in outs /\ priv[e].serial = 0 => ~xprox'[e]
  BY ZenonT(40), PostInv
<1>2. xprox'[d] = priv'[d].oldProximity
  BY <1>1 DEF ViewInv, View
<1> QED
  BY <1>1, <1>2

\* A sample leaves the devices of other tools alone, but for touch.
LEMMA OthersKept ==
    ASSUME IInv, NEW c, NEW ds \in Packet, NEW suppress, Dispatch(c, ds, suppress),
           NEW e \in Devices, DevType[e] # "TOUCH",
           \A t \in ToolsFor(c, ds) : e \notin DevicesOf(t)
    PROVE  priv'[e] = priv[e] /\ enabled' = enabled
<1>1. PICK t \in ToolsFor(c, ds) :
        \/ DispatchNowhere(t, ds)
        \/ DispatchIdle(t, ds, suppress)
        \/ DispatchSend(t, ds, suppress)
  BY DEF Dispatch
<1> DEFINE d == AreaFor(t, ds.x)
           outs == AreaOuts(t, ds.x) \cup TouchOuts(d)
<1>2. /\ t \in Tools /\ e \notin DevicesOf(t)
      /\ AreaOuts(t, ds.x) \subseteq DevicesOf(t) /\ d \in DevicesOf(t) \cup {NoDevice}
      /\ e \notin TouchOuts(d) /\ NoDevice \notin Devices
  BY <1>1, ToolsForType, AreaForType, DeviceAssumption DEF IInv, TouchOuts
<1>3. e # d /\ e # NoDevice /\ e \notin outs /\ e \notin AreaOuts(t, ds.x)
  BY <1>2
<1>4. \E out \in {outs, AreaOuts(t, ds.x)}, to \in {d, NoDevice} : \E v : Post(out, to, v)
  BY <1>1 DEF DispatchNowhere, DispatchIdle, DispatchSend, PostOuts
<1>5. enabled' = enabled
  BY <1>1 DEF DispatchNowhere, DispatchIdle, DispatchSend
<1> HIDE DEF d, outs
<1> QED
  BY <1>3, <1>4, <1>5, PostLeaves

\* Every device of a port has its tool's serial number.
Numbered == \A d \in Devices : priv[d].serial = ToolSerial[ToolOf(d)]

\* What the sample of a tool makes of the tool's devices.
LEMMA ToolDispatched ==
    ASSUME IInv, Numbered, Unshared,
           NEW c, NEW ds \in Packet, ds.type # "PAD", NEW suppress,
           NEW t \in ToolsFor(c, ds),
           \/ DispatchNowhere(t, ds)
           \/ DispatchIdle(t, ds, suppress)
           \/ DispatchSend(t, ds, suppress),
           NEW d \in DevicesOf(t), priv[d].oldProximity => d \in enabled,
           priv'[d].oldProximity
    PROVE  /\ d \in enabled
           /\ \/ /\ priv[d].oldProximity /\ suppress # 1
                 /\ priv'[d].oldButtons = priv[d].oldButtons
              \/ ds.proximity /\ priv'[d].oldButtons = Filtered(d, ds).buttons
<1> DEFINE a == AreaFor(t, ds.x)
           outs == AreaOuts(t, ds.x) \cup TouchOuts(a)
           noted == [View(a) EXCEPT !.p = Noted(a, ds)]
           filtered == Filtered(a, ds)
           sent == SendEvents(noted, filtered)
<1>1. /\ t \in Tools /\ ToolType[t] # "PAD" /\ d \in Devices
      /\ NoDevice \notin Devices /\ d # NoDevice
      /\ a \in DevicesOf(t) \cup {NoDevice}
      /\ current[t] # NoDevice => a = current[t] \/ current[t] \in AreaOuts(t, ds.x)
      /\ AreaOuts(t, ds.x) \in SUBSET Devices /\ outs \in SUBSET Devices
      /\ ToolSerial[t] = 0 \/ ToolSerial[t] = ds.serial
      /\ ToolOf(d) = t /\ priv[d].serial = ToolSerial[t]
  <2>1. t \in Tools /\ ToolType[t] = ds.type
    BY ToolsForType
  <2>2. ToolSerial[t] = 0 \/ ToolSerial[t] = ds.serial
    BY DEF ToolsFor
  <2>3. d \in Devices /\ DevicesOf(t) \subseteq Devices
    BY <2>1, AreaTypes
  <2>4. ToolOf(d) = t
    BY <2>1, ToolOfDevice
  <2>5. outs \in SUBSET Devices
    BY <2>1, <2>3, AreaForType DEF IInv, TouchOuts
  <2>6. /\ a \in DevicesOf(t) \cup {NoDevice}
        /\ current[t] # NoDevice => a = current[t] \/ current[t] \in AreaOuts(t, ds.x)
        /\ AreaOuts(t, ds.x) \in SUBSET Devices
    BY <2>1, <2>3, AreaForType DEF IInv
  <2> QED
    BY <2>1, <2>2, <2>3, <2>4, <2>5, <2>6, DeviceAssumption DEF Numbered
<1>2. xprox[d] = priv[d].oldProximity
  BY <1>1, ViewType DEF ViewInv
<1>3. xprox[d] => d = a \/ (current[t] = d /\ Shared(t) /\ priv[d].serial = 0)
  <2>1. CASE Shared(t)
    BY <1>1, <2>1 DEF IInv, OneInProxPerTool, Unshared
  <2>2. CASE ~Shared(t)
    BY <1>1, <2>2, OnlyArea DEF IInv
  <2> QED
    BY <2>1, <2>2
<1>4. ASSUME NEW out \in {outs, AreaOuts(t, ds.x)}, NEW to \in {a, NoDevice}, to # d, NEW v,
             to \in Devices => v \in Views /\ ViewInv(v) /\ v.dev = to,
             Post(out, to, v), wcmTPCButton' = wcmTPCButton
      PROVE  xprox[d] /\ d = a
  <2>1. out \in SUBSET Devices /\ AreaOuts(t, ds.x) \subseteq out
    BY <1>1, <1>4
  <2> HIDE DEF a, outs
  <2>2. xprox[d] /\ ~(d \in out /\ priv[d].serial = 0)
    BY <1>1, <1>4, <2>1, PostLetsOut
  <2> QED
    BY <1>1, <1>3, <2>1, <2>2
<1>5. CASE DispatchNowhere(t, ds)
  <2>1. Post(AreaOuts(t, ds.x), NoDevice, <<>>) /\ wcmTPCButton' = wcmTPCButton /\ a \notin enabled
    BY <1>5 DEF DispatchNowhere, PostOuts, commonVars
  <2> HIDE DEF a, outs
  <2>2. xprox[d] /\ d = a
    BY <1>1, <1>4, <2>1
  <2> QED
    BY <1>2, <2>1, <2>2
<1>6. a \in enabled => a \in Devices
  BY DEF IInv, TypeOK
<1>7. ASSUME a \in enabled
      PROVE  /\ noted \in Views /\ ViewInv(noted) /\ noted.dev = a
             /\ noted.p.oldProximity = priv[a].oldProximity
             /\ noted.p.oldButtons = priv[a].oldButtons
             /\ noted.p.serial = priv[a].serial
             /\ filtered.buttons \in SUBSET Buttons /\ filtered.type = ds.type
             /\ filtered.serial = ds.serial /\ (filtered.proximity => ds.proximity)
  <2>1. a \in Devices
    BY <1>6, <1>7
  <2> HIDE DEF a
  <2>2. /\ noted \in Views /\ ViewInv(noted) /\ noted.dev = a
        /\ noted.p.serial = priv[a].serial
        /\ filtered.buttons \in SUBSET Buttons /\ filtered.type = ds.type
    BY <2>1, NotedView
  <2>3. filtered.serial = ds.serial /\ (filtered.proximity => ds.proximity)
    BY DEF Filtered, Packet
  <2>4. priv[a] \in PrivState
    BY <2>1 DEF IInv, TypeOK
  <2>5. /\ Noted(a, ds).oldProximity = priv[a].oldProximity
        /\ Noted(a, ds).oldButtons = priv[a].oldButtons
    BY <2>4 DEF Noted, PrivState
  <2>6. noted.p = Noted(a, ds)
    BY DEF View
  <2> QED
    BY <2>2, <2>3, <2>5, <2>6
<1>8. CASE DispatchIdle(t, ds, suppress)
  <2>1. /\ Post(outs, a, noted) /\ wcmTPCButton' = wcmTPCButton /\ a \in enabled
        /\ Idles(a, ds, suppress) \/ HeldOut(a, ds)
    BY <1>8 DEF DispatchIdle, commonVars
  <2>2. suppress # 1 \/ ~priv[a].oldProximity
    BY <2>1 DEF Idles, HeldOut
  <2> HIDE DEF a, outs, noted, filtered
  <2>3. d = a
    BY <1>4, <1>7, <2>1
  <2>4. priv'[d] = noted.p
    BY <1>1, <2>1, <2>3 DEF Post
  <2> QED
    BY <1>7, <2>1, <2>2, <2>3, <2>4
<1>9. CASE DispatchSend(t, ds, suppress)
  <2>1. Post(outs, a, sent) /\ wcmTPCButton' = wcmTPCButton /\ a \in enabled
    BY <1>9 DEF DispatchSend, commonVars
  <2> HIDE DEF a, outs, noted, filtered
  <2>2. sent \in Views /\ ViewInv(sent) /\ sent.dev = a
    BY <1>7, <2>1, SendEventsInv
  <2> HIDE DEF sent
  <2>3. d = a
    BY <1>4, <2>1, <2>2
  <2>4. priv'[d] = sent.p
    BY <1>1, <2>1, <2>3 DEF Post
  <2>5. sent.xprox
    BY <2>2, <2>4 DEF ViewInv
  <2>6. filtered.proximity /\ sent.p.oldButtons = filtered.buttons
    BY <1>1, <1>7, <2>1, <2>3, <2>5, SendEventsButtons DEF sent
  <2> QED
    BY <1>7, <2>1, <2>3, <2>4, <2>6 DEF filtered
<1> QED
  BY <1>5, <1>8, <1>9

-----------------------------------------------------------------------------
(* The pens' records.                                                      *)

PenTypes == {"STYLUS", "ERASER", "CURSOR"}

\* The tools that a pen's samples are for
PenTool(type) == ToolsFor(PenPort, [type |-> type, serial |-> PenSerial])

\* What is pressed in a working state, the tip being button 1
Presses(w) == w.buttons \cup (IF w.pressed THEN {1} ELSE {})

\* Only pens have tips, and pens have no other button 1.
PenLike(w) == IF w.type = "CURSOR" THEN ~w.pressed ELSE 1 \notin w.buttons

\* The pens in proximity have what is pressed in the channel's working state,
\* which is the one used last.
PensIn(chan) ==
    \A d \in Pens : priv[d].oldProximity =>
       /\ d \in enabled
       /\ chan.work.proximity /\ chan.nSamples = 2 /\ chan.valid.proximity /\ Same(chan)
       /\ DevType[d] = chan.work.type
       /\ ToolOf(d) \in PenTool(DevType[d])
       /\ TipFelt => priv[d].oldButtons = Presses(chan.work)

\* Full pressure is the full range.
LEMMA FullPressure ==
    Normalized(wcmMaxZ, 0) = FILTER_PRESSURE_RES /\ Normalized(0, 0) = 0
<1>1. wcmMaxZ \in Nat \ {0} /\ FILTER_PRESSURE_RES \in Nat \ {0}
  BY ValueAssumption
<1>2. \A m, r \in Nat \ {0} : (m * r) \div m = r
  BY SMT
<1>3. wcmMaxZ - 0 = wcmMaxZ /\ wcmMaxZ > 0 /\ ~(0 > 0)
  BY <1>1
<1> QED
  BY <1>1, <1>2, <1>3 DEF Normalized

\* Dispatch gives a pen the buttons of the working state, and the tip.
LEMMA TipRight ==
    ASSUME TypeOK, TipFelt, NEW s \in WorkState, s.type \in PenTypes, PenLike(s),
           NEW x \in Positions, NEW moved \in BOOLEAN, NEW d \in Devices, DevType[d] = s.type
    PROVE  Filtered(d, PacketOf(s, x, moved)).buttons = Presses(s)
<1> DEFINE ds == PacketOf(s, x, moved)
           threshold == wcmThreshold[Common[d]]
<1>1. /\ ds \in Packet /\ ds.buttons = s.buttons
      /\ ds.pressure = IF s.pressed THEN wcmMaxZ ELSE 0
  BY PacketOfType DEF PacketOf
<1>2. threshold \in Thresholds
  BY DeviceAssumption DEF TypeOK
<1>3. /\ threshold \in Nat \ {0} /\ FILTER_PRESSURE_RES \in Nat \ {0}
      /\ FILTER_PRESSURE_RES \div 75 \in Nat
      /\ threshold + FILTER_PRESSURE_RES \div 75 < FILTER_PRESSURE_RES
  <2>1. FILTER_PRESSURE_RES \in Nat \ {0} /\ threshold \in 1 .. FILTER_PRESSURE_RES
    BY <1>2, ValueAssumption
  <2>2. threshold + FILTER_PRESSURE_RES \div 75 < FILTER_PRESSURE_RES
    BY <1>2 DEF TipFelt
  <2>3. \A r \in Nat \ {0} : r \div 75 \in Nat
    BY SMT
  <2> HIDE DEF threshold
  <2> QED
    BY <2>1, <2>2, <2>3
<1> DEFINE full == Normalized(ds.pressure, 0)
           tol == FILTER_PRESSURE_RES \div 75
<1>4. full = IF s.pressed THEN FILTER_PRESSURE_RES ELSE 0
  BY <1>1, FullPressure
<1>5. MinPressure(priv[d], ds) = 0
  BY DEF TipFelt, MinPressure
<1>6. TipButton(ds, 0, threshold) =
        IF full < threshold + 0 THEN ds.buttons \ {1}
        ELSE IF full > threshold + tol + 0 THEN ds.buttons \cup {1}
        ELSE ds.buttons
  BY DEF TipButton
<1>7. Filtered(d, ds).buttons = IF HasTip(d) THEN TipButton(ds, 0, threshold) ELSE s.buttons
  BY <1>1, <1>5 DEF Filtered, Packet
<1> HIDE DEF ds, full, tol, threshold
<1>8. CASE s.type = "CURSOR"
  BY <1>7, <1>8 DEF HasTip, PenLike, Presses, ds
<1>9. CASE s.type # "CURSOR"
  <2>1. HasTip(d) /\ 1 \notin s.buttons
    BY <1>9 DEF HasTip, PenTypes, PenLike
  <2>2. CASE s.pressed
    <3>1. ~(full < threshold + 0) /\ full > threshold + tol + 0
      BY <1>3, <1>4, <2>2 DEF tol
    <3> QED
      BY <1>1, <1>6, <1>7, <2>1, <2>2, <3>1 DEF Presses, ds
  <2>3. CASE ~s.pressed
    <3>1. full < threshold + 0
      BY <1>3, <1>4, <2>3
    <3> QED
      BY <1>1, <1>6, <1>7, <2>1, <2>3, <3>1 DEF Presses, ds
  <2> QED
    BY <2>2, <2>3
<1> QED
  BY <1>8, <1>9

\* A device is one of its tool's.
LEMMA ToolHas ==
    ASSUME NEW d \in Devices
    PROVE  ToolOf(d) \in Tools /\ d \in DevicesOf(ToolOf(d))
<1>1. PICK t \in Tools : d \in DevicesOf(t)
  BY ToolAssumption DEF DevicesOf
<1> QED
  BY <1>1 DEF ToolOf

\* A state with a type is dispatched as it is.
LEMMA SampleOf ==
    ASSUME NEW c, NEW s \in WorkState, s.type # NoType, NEW suppress,
           DispatchState(c, s, suppress)
    PROVE  \E x \in Positions, moved \in BOOLEAN :
             \/ Dispatch(c, PacketOf(s, x, moved), suppress)
             \/ ToolsFor(c, PacketOf(s, x, moved)) = {} /\ UNCHANGED vars
<1>1. PICK x \in Positions, moved \in BOOLEAN :
        \E ds \in Typed(c, PacketOf(s, x, moved)) :
          \/ Dispatch(c, ds, suppress)
          \/ ToolsFor(c, ds) = {} /\ UNCHANGED vars
  BY DEF DispatchState
<1>2. Typed(c, PacketOf(s, x, moved)) = {PacketOf(s, x, moved)}
  BY DEF Typed, PacketOf
<1> QED
  BY <1>1, <1>2

\* What is pressed in a pen's working state is what its device gets.
LEMMA PenUsed ==
    ASSUME IInv, Numbered, Unshared,
           NEW s \in WorkState, s.type \in PenTypes, s.serial = PenSerial,
           s.proximity => PenLike(s),
           NEW suppress, DispatchState(PenPort, s, suppress),
           \A d \in Pens : priv[d].oldProximity =>
             /\ d \in enabled /\ DevType[d] = s.type /\ ToolOf(d) \in PenTool(s.type)
             /\ suppress # 1 => s.proximity /\ (TipFelt => priv[d].oldButtons = Presses(s)),
           NEW d \in Pens, priv'[d].oldProximity
    PROVE  /\ d \in enabled' /\ s.proximity /\ DevType[d] = s.type
           /\ ToolOf(d) \in PenTool(s.type)
           /\ TipFelt => priv'[d].oldButtons = Presses(s)
<1>1. PICK x \in Positions, moved \in BOOLEAN :
        \/ Dispatch(PenPort, PacketOf(s, x, moved), suppress)
        \/ ToolsFor(PenPort, PacketOf(s, x, moved)) = {} /\ UNCHANGED vars
  BY SampleOf DEF PenTypes, NoType
<1> DEFINE ds == PacketOf(s, x, moved)
<1>2. /\ ds \in Packet /\ ds.type = s.type /\ ds.serial = PenSerial
      /\ ds.proximity = s.proximity
  BY PacketOfType DEF PacketOf
<1>3. ToolsFor(PenPort, ds) = PenTool(s.type)
  BY <1>2 DEF PenTool, ToolsFor
<1>4. d \in Devices /\ DevType[d] # "TOUCH" /\ DevType[d] \in PenTypes
  BY DEF Pens, PenTypes
<1>5. ToolOf(d) \in Tools /\ d \in DevicesOf(ToolOf(d))
  BY <1>4, ToolHas
<1>6. CASE ToolsFor(PenPort, ds) = {} /\ UNCHANGED vars
  BY <1>3, <1>6 DEF vars
<1>7. CASE Dispatch(PenPort, ds, suppress)
  <2> HIDE DEF ds
  <2>1. PICK t \in ToolsFor(PenPort, ds) :
          \/ DispatchNowhere(t, ds)
          \/ DispatchIdle(t, ds, suppress)
          \/ DispatchSend(t, ds, suppress)
    BY <1>7 DEF Dispatch
  <2>2. t \in Tools /\ ToolType[t] = s.type /\ enabled' = enabled
    BY <1>2, <2>1, ToolsForType DEF DispatchNowhere, DispatchIdle, DispatchSend
  <2>3. CASE d \notin DevicesOf(t)
    <3>1. \A u \in ToolsFor(PenPort, ds) : u = t
      BY SMTT(20), ToolAssumption DEF ToolsFor
    <3>2. priv'[d] = priv[d]
      BY <1>2, <1>4, <1>7, <2>3, <3>1, OthersKept
    <3>3. ToolOf(d) = t
      BY <1>3, <3>1, <3>2
    <3> QED
      BY <1>5, <2>3, <3>3
  <2>4. CASE d \in DevicesOf(t)
    <3>1. /\ d \in enabled
          /\ \/ /\ priv[d].oldProximity /\ suppress # 1
                /\ priv'[d].oldButtons = priv[d].oldButtons
             \/ ds.proximity /\ priv'[d].oldButtons = Filtered(d, ds).buttons
      <4>1. ds.type # "PAD"
        BY <1>2 DEF PenTypes
      <4> QED
        BY SMTT(20), <1>2, <2>1, <2>4, <4>1, ToolDispatched
    <3>2. ToolOf(d) = t /\ t \in PenTool(s.type)
      BY <1>3, <2>1, <2>2, <2>4, ToolOfDevice
    <3>3. DevType[d] = s.type
      BY <2>2, <2>4, ToolAssumption DEF DevicesOf
    <3>4. TipFelt /\ s.proximity => Filtered(d, ds).buttons = Presses(s)
      BY <1>4, <3>3, TipRight DEF IInv, ds
    <3> QED
      BY <1>2, <2>2, <3>1, <3>2, <3>3, <3>4
  <2> QED
    BY <2>3, <2>4
<1> QED
  BY <1>1, <1>6, <1>7

\* A sample of a type that comes from port c is not for device d.
Elsewhere(c, type, d) ==
    Common[d] # c \/ (type \in {"STYLUS", "ERASER", "CURSOR", "PAD"} /\ type # DevType[d])

\* A device that is not for touch is left alone by the samples of other ports
\* and of other types.
LEMMA SampleElsewhere ==
    ASSUME IInv, NEW c, NEW s \in WorkState, NEW suppress, DispatchState(c, s, suppress),
           NEW d \in Devices, DevType[d] # "TOUCH", Elsewhere(c, s.type, d)
    PROVE  priv'[d] = priv[d] /\ enabled' = enabled
<1>1. PICK x \in Positions, moved \in BOOLEAN :
        \E ds \in Typed(c, PacketOf(s, x, moved)) :
          \/ Dispatch(c, ds, suppress)
          \/ ToolsFor(c, ds) = {} /\ UNCHANGED vars
  BY DEF DispatchState
<1>2. PICK ds \in Typed(c, PacketOf(s, x, moved)) :
        \/ Dispatch(c, ds, suppress)
        \/ ToolsFor(c, ds) = {} /\ UNCHANGED vars
  BY <1>1
<1>3. ds \in Packet
  BY PacketOfType, TypedType
<1>4. s.type # NoType => ds.type = s.type
  BY DEF Typed, PacketOf
<1>6. \A t \in ToolsFor(c, ds) : d \notin DevicesOf(t)
  <2> SUFFICES ASSUME NEW t \in ToolsFor(c, ds), d \in DevicesOf(t)
               PROVE  FALSE
    OBVIOUS
  <2>1. t \in Tools /\ ToolType[t] = ds.type /\ ToolCommon[t] = c
    BY DEF ToolsFor
  <2>2. DevType[d] = ToolType[t] /\ Common[d] = ToolCommon[t]
    BY <2>1, ToolAssumption DEF DevicesOf
  <2> QED
    BY <1>4, <2>1, <2>2 DEF Elsewhere, NoType
<1>7. CASE Dispatch(c, ds, suppress)
  BY <1>3, <1>6, <1>7, OthersKept
<1>8. CASE UNCHANGED vars
  BY <1>8 DEF vars
<1> QED
  BY <1>2, <1>7, <1>8

\* So do the frames.
LEMMA HeardElsewhere ==
    ASSUME IInv, NEW c, NEW ch, NEW chan \in ChannelState,
           \/ Discard(c, ch, chan)
           \/ DiscardJump(c, ch, chan)
           \/ Suppress(c, ch, chan)
           \/ Use(c, ch, chan),
           NEW d \in Devices, DevType[d] # "TOUCH", Elsewhere(c, chan.work.type, d)
    PROVE  priv'[d] = priv[d] /\ enabled' = enabled
<1>1. CASE UNCHANGED vars
  BY <1>1 DEF vars
<1>2. CASE \E suppress : DispatchState(c, chan.work, suppress)
  <2>1. PICK suppress : DispatchState(c, chan.work, suppress)
    BY <1>2
  <2>2. chan.work \in WorkState
    BY DEF ChannelState
  <2> QED
    BY <2>1, <2>2, SampleElsewhere
<1> QED
  BY <1>1, <1>2 DEF Discard, DiscardJump, Suppress, Use

\* What becomes of the pens in proximity when a pen's working state is heard
LEMMA HeardPen ==
    ASSUME IInv, channel \in [Commons -> [Channels -> ChannelState]],
           Numbered, Unshared, PenPort \in Commons,
           NEW old, old = channel[PenPort][0], PensIn(old),
           NEW chan \in ChannelState, chan.work.type \in PenTypes, chan.work.serial = PenSerial,
           chan.work.proximity => PenLike(chan.work),
           old.work.proximity => /\ chan.valid = old.valid /\ chan.nSamples = old.nSamples
                                 /\ chan.work.type = old.work.type,
           \/ Discard(PenPort, 0, chan)
           \/ DiscardJump(PenPort, 0, chan)
           \/ Suppress(PenPort, 0, chan)
           \/ Use(PenPort, 0, chan)
    PROVE  PensIn(channel[PenPort][0])' /\ channel'[PenPort][0].work = chan.work
<1> DEFINE new == channel'[PenPort][0]
<1>1. 0 \in Channels /\ chan.work \in WorkState /\ chan.valid \in ValidState
      /\ chan.nSamples \in 0 .. 2
  BY DEF Channels, MAX_CHANNELS, ChannelState
<1>2. ASSUME NEW put, Put(PenPort, 0, put)
      PROVE  new = put
  BY <1>1, <1>2 DEF Put
<1>3. \A d \in Pens : priv[d].oldProximity =>
        /\ d \in enabled /\ old.work.proximity /\ chan.nSamples = 2
        /\ chan.valid.proximity /\ chan.valid = old.valid /\ Same(old)
        /\ DevType[d] = chan.work.type /\ ToolOf(d) \in PenTool(DevType[d])
        /\ TipFelt => priv[d].oldButtons = Presses(old.work)
  BY DEF PensIn
<1>4. Same(chan) /\ TipFelt =>
        \A d \in Pens : priv[d].oldProximity => priv[d].oldButtons = Presses(chan.work)
  BY <1>3 DEF Same, Presses
<1>5. CASE Discard(PenPort, 0, chan)
  <2>1. new = [chan EXCEPT !.nSamples = chan.nSamples + 1] /\ UNCHANGED vars /\ chan.nSamples < 2
    BY <1>2, <1>5 DEF Discard
  <2>2. new.work = chan.work
    BY <2>1 DEF ChannelState
  <2>3. \A d \in Pens : ~priv[d].oldProximity
    BY <1>3, <2>1
  <2> QED
    BY <2>1, <2>2, <2>3 DEF PensIn, vars
<1>6. CASE DiscardJump(PenPort, 0, chan)
  BY <1>6 DEF DiscardJump, PenTypes
<1>7. CASE Suppress(PenPort, 0, chan)
  <2>1. new = chan /\ UNCHANGED vars /\ Stayed(chan) /\ Same(chan)
    BY <1>2, <1>7 DEF Suppress
  <2> QED
    BY <1>3, <1>4, <2>1 DEF PensIn, vars, Stayed
<1>8. CASE Use(PenPort, 0, chan)
  <2> DEFINE put == [work |-> chan.work,
                     valid |-> [f \in DOMAIN chan.valid |-> chan.work[f]],
                     nSamples |-> IF chan.work.proximity THEN 2 ELSE 0]
  <2>1. new = put
    BY <1>2, <1>8 DEF Use
  <2>2. PICK suppress \in {1, 2} : /\ DispatchState(PenPort, chan.work, suppress)
                                   /\ suppress # 1 => Stayed(chan) /\ Same(chan)
    BY <1>8 DEF Use, PenTypes
  <2>3. /\ new.work = chan.work
        /\ new.valid.proximity = chan.work.proximity
        /\ new.valid.buttons = chan.work.buttons /\ new.valid.pressed = chan.work.pressed
        /\ chan.work.proximity => new.nSamples = 2
    BY <1>1, <2>1 DEF ValidState
  <2> HIDE DEF new
  <2>4. ASSUME NEW d \in Pens, priv'[d].oldProximity
        PROVE  /\ d \in enabled' /\ chan.work.proximity /\ DevType[d] = chan.work.type
               /\ ToolOf(d) \in PenTool(chan.work.type)
               /\ TipFelt => priv'[d].oldButtons = Presses(chan.work)
    <3>1. \A e \in Pens : priv[e].oldProximity =>
             /\ e \in enabled /\ DevType[e] = chan.work.type
             /\ ToolOf(e) \in PenTool(chan.work.type)
             /\ suppress # 1 => /\ chan.work.proximity
                                /\ TipFelt => priv[e].oldButtons = Presses(chan.work)
      BY <1>3, <1>4, <2>2 DEF Stayed
    <3> DEFINE s == chan.work
    <3>2. /\ s \in WorkState /\ s.type \in PenTypes /\ s.serial = PenSerial
          /\ s.proximity => PenLike(s)
      BY <1>1
    <3>3. DispatchState(PenPort, s, suppress)
      BY <2>2
    <3> HIDE DEF s
    <3>4. \A e \in Pens : priv[e].oldProximity =>
             /\ e \in enabled /\ DevType[e] = s.type
             /\ ToolOf(e) \in PenTool(s.type)
             /\ suppress # 1 => s.proximity /\ (TipFelt => priv[e].oldButtons = Presses(s))
      BY <3>1 DEF s
    <3>5. /\ d \in enabled' /\ s.proximity /\ DevType[d] = s.type
          /\ ToolOf(d) \in PenTool(s.type)
          /\ TipFelt => priv'[d].oldButtons = Presses(s)
      BY <2>4, <3>2, <3>3, <3>4, PenUsed
    <3> QED
      BY <3>5 DEF s
  <2>5. chan.work.proximity => Same(new)
    BY <2>3 DEF Same
  <2>6. PensIn(channel[PenPort][0])'
    BY <2>3, <2>4, <2>5 DEF PensIn, new
  <2> QED
    BY <2>3, <2>6 DEF new
<1> QED
  BY <1>5, <1>6, <1>7, <1>8

-----------------------------------------------------------------------------
(* The pads' records.                                                      *)

\* The tools that the keys' samples are for
PadTool == ToolsFor(PenPort, [type |-> "PAD", serial |-> PadSerial])

\* The keys are a Graphire's, and reach their devices.
PadsHere == IsGraphire /\ PadsReached

\* The pads have the buttons of the channel's working state, which is the one
\* used last.
PadsIn(chan) ==
    /\ chan.work.proximity => chan.valid.buttons = chan.work.buttons
    /\ \A d \in Pads : d \in enabled /\ priv[d].oldButtons = chan.work.buttons

\* A sample of the keys that the serial number lets through leaves its buttons
\* in the device's record.
LEMMA SendEventsPad ==
    ASSUME NEW v \in Views, ViewInv(v), NEW ds, ds.type = "PAD", ds.other = FALSE,
           ds.buttons \in SUBSET Buttons, v.p.serial = 0 \/ v.p.serial = ds.serial
    PROVE  SendEvents(v, ds).p.oldButtons = ds.buttons
<1>1. CASE ds.buttons # {}
  BY <1>1, InProximityInv DEF SendEvents
<1>2. CASE ds.buttons = {}
  <2>1. SendEvents(v, ds) = OutOfProximity(v)
    BY <1>2 DEF SendEvents
  <2> DEFINE w == OutOfProximity(v)
  <2>2. w \in Views /\ ViewInv(w) /\ ~w.xprox
    BY OutOfProximityInv
  <2> HIDE DEF w
  <2>3. w.p.oldButtons = {}
    BY <2>2 DEF ViewInv
  <2> QED
    BY <1>2, <2>1, <2>3 DEF w
<1> QED
  BY <1>1, <1>2

\* What is pressed in the keys' working state is what the pads get.
LEMMA PadUsed ==
    ASSUME IInv, Numbered, PadsHere, Pads \subseteq enabled,
           NEW s \in WorkState, s.type = "PAD", s.serial = PadSerial,
           NEW suppress, DispatchState(PenPort, s, suppress), NEW d \in Pads
    PROVE  d \in enabled' /\ priv'[d].oldButtons = s.buttons
<1>1. PICK x \in Positions, moved \in BOOLEAN :
        \/ Dispatch(PenPort, PacketOf(s, x, moved), suppress)
        \/ ToolsFor(PenPort, PacketOf(s, x, moved)) = {} /\ UNCHANGED vars
  BY SampleOf DEF NoType
<1> DEFINE ds == PacketOf(s, x, moved)
           t == ToolOf(d)
           noted == [View(d) EXCEPT !.p = Noted(d, ds)]
           filtered == Filtered(d, ds)
           sent == SendEvents(noted, filtered)
<1>2. /\ ds \in Packet /\ ds.type = "PAD" /\ ds.serial = PadSerial
      /\ ds.buttons = s.buttons /\ ds.other = FALSE
  BY PacketOfType DEF PacketOf
<1>3. ToolsFor(PenPort, ds) = PadTool
  BY <1>2 DEF PadTool, ToolsFor
<1>4. PenPort = TouchPort
  BY TabletAssumption DEF PadsHere, IsGraphire
<1>5. d \in Devices /\ DevType[d] = "PAD" /\ d \in enabled
  BY DEF Pads
<1>6. /\ t \in Tools /\ d \in DevicesOf(t) /\ ~Shared(t) /\ t \in PadTool
  BY <1>4, <1>5, ToolHas DEF PadsHere, PadsReached, PadTool
<1>7. priv[d].serial = 0 \/ priv[d].serial = PadSerial
  <2>1. ToolSerial[t] = 0 \/ ToolSerial[t] = PadSerial
    BY <1>6 DEF PadTool, ToolsFor
  <2> QED
    BY <1>5, <2>1 DEF Numbered
<1> HIDE DEF ds
<1>8. \A u \in ToolsFor(PenPort, ds) : u = t
  <2>1. t \in ToolsFor(PenPort, ds)
    BY <1>3, <1>6
  <2> HIDE DEF t
  <2> QED
    BY SMTT(20), <2>1, ToolAssumption DEF ToolsFor
<1>9. Dispatch(PenPort, ds, suppress)
  BY <1>1, <1>3, <1>6 DEF ds
<1>10. \/ DispatchNowhere(t, ds)
       \/ DispatchIdle(t, ds, suppress)
       \/ DispatchSend(t, ds, suppress)
  BY <1>8, <1>9 DEF Dispatch
<1>11. AreaFor(t, ds.x) = d
  BY <1>6, OnlyArea DEF IInv
<1>12. DispatchSend(t, ds, suppress)
  <2>1. ~DispatchNowhere(t, ds)
    BY <1>5, <1>11 DEF DispatchNowhere
  <2>2. ~Idles(d, ds, suppress) /\ ~HeldOut(d, ds)
    BY <1>5 DEF Idles, HeldOut
  <2>3. ~DispatchIdle(t, ds, suppress)
    BY <1>11, <2>2 DEF DispatchIdle
  <2> QED
    BY <1>10, <2>1, <2>3
<1>13. enabled' = enabled /\ \E outs : Post(outs, d, sent)
  BY <1>11, <1>12 DEF DispatchSend
<1>14. priv'[d] = sent.p
  BY <1>5, <1>13 DEF Post
<1>15. /\ filtered.type = "PAD" /\ filtered.serial = PadSerial /\ filtered.other = FALSE
       /\ filtered.buttons = s.buttons
  BY <1>2, <1>5 DEF Filtered, HasTip, Packet
<1>16. noted \in Views /\ ViewInv(noted) /\ noted.p.serial = priv[d].serial
  BY <1>2, <1>5, NotedView
<1>17. s.buttons \in SUBSET Buttons
  BY DEF WorkState
<1> HIDE DEF noted, filtered
<1>18. sent.p.oldButtons = filtered.buttons
  BY <1>7, <1>15, <1>16, <1>17, SendEventsPad
<1> QED
  BY <1>5, <1>13, <1>14, <1>15, <1>18

\* What becomes of the pads when the keys' working state is heard
LEMMA HeardPad ==
    ASSUME IInv, channel \in [Commons -> [Channels -> ChannelState]],
           Numbered, PadsHere, PenPort \in Commons, NEW pad \in Channels,
           NEW old, old = channel[PenPort][pad], PadsIn(old),
           NEW chan \in ChannelState, chan.work.type = "PAD", chan.work.serial = PadSerial,
           chan.valid.proximity => old.work.proximity /\ chan.valid = old.valid,
           \/ Discard(PenPort, pad, chan)
           \/ DiscardJump(PenPort, pad, chan)
           \/ Suppress(PenPort, pad, chan)
           \/ Use(PenPort, pad, chan)
    PROVE  PadsIn(channel[PenPort][pad])'
<1> DEFINE new == channel'[PenPort][pad]
<1>1. chan.work \in WorkState /\ chan.valid \in ValidState
  BY DEF ChannelState
<1>2. ASSUME NEW put, Put(PenPort, pad, put)
      PROVE  new = put
  BY <1>2 DEF Put
<1>3. CASE Discard(PenPort, pad, chan)
  BY <1>3 DEF Discard
<1>4. CASE DiscardJump(PenPort, pad, chan)
  BY <1>4 DEF DiscardJump
<1>5. CASE Suppress(PenPort, pad, chan)
  <2>1. new = chan /\ UNCHANGED vars /\ Stayed(chan) /\ Same(chan)
    BY <1>2, <1>5 DEF Suppress
  <2>2. chan.work.buttons = chan.valid.buttons /\ chan.valid = old.valid /\ old.work.proximity
    BY <2>1 DEF Stayed, Same
  <2>3. old.work.buttons = chan.work.buttons
    BY <2>2 DEF PadsIn
  <2> QED
    BY <2>1, <2>2, <2>3 DEF PadsIn, vars
<1>6. CASE Use(PenPort, pad, chan)
  <2> DEFINE put == [work |-> chan.work,
                     valid |-> [f \in DOMAIN chan.valid |-> chan.work[f]],
                     nSamples |-> IF chan.work.proximity THEN 2 ELSE 0]
  <2>1. new = put
    BY <1>2, <1>6 DEF Use
  <2>2. new.work = chan.work /\ new.valid.buttons = chan.work.buttons
    BY <1>1, <2>1 DEF ValidState
  <2>3. PICK suppress : DispatchState(PenPort, chan.work, suppress)
    BY <1>6 DEF Use
  <2> HIDE DEF new
  <2>4. Pads \subseteq enabled
    BY DEF PadsIn
  <2>5. ASSUME NEW d \in Pads
        PROVE  d \in enabled' /\ priv'[d].oldButtons = chan.work.buttons
    <3> DEFINE s == chan.work
    <3>1. s \in WorkState /\ s.type = "PAD" /\ s.serial = PadSerial
          /\ DispatchState(PenPort, s, suppress)
      BY <1>1, <2>3
    <3> HIDE DEF s
    <3>2. d \in enabled' /\ priv'[d].oldButtons = s.buttons
      BY <2>4, <3>1, PadUsed
    <3> QED
      BY <3>2 DEF s
  <2> QED
    BY <2>2, <2>5 DEF PadsIn, new
<1> QED
  BY <1>3, <1>4, <1>5, <1>6

-----------------------------------------------------------------------------
(* What no step changes.                                                   *)

\* Posting leaves the serial numbers.
LEMMA PostNumbered ==
    ASSUME IInv, Numbered, NEW outs \in SUBSET Devices, NEW d, NEW v,
           d \in Devices => /\ v \in Views /\ ViewInv(v) /\ v.dev = d
                           /\ v.p.serial = priv[d].serial,
           Post(outs, d, v), wcmTPCButton' = wcmTPCButton
    PROVE  Numbered'
<1>1. /\ d \in Devices => priv'[d].serial = v.p.serial
      /\ \A e \in Devices \ {d} : priv'[e].serial = priv[e].serial
  BY ZenonT(40), PostInv
<1>2. \A e \in Devices : priv'[e].serial = priv[e].serial
  BY <1>1
<1> QED
  BY <1>2 DEF Numbered

\* Dispatch does.
LEMMA DispatchNumbered ==
    ASSUME IInv, Numbered, NEW c, NEW ds \in Packet, NEW suppress, Dispatch(c, ds, suppress)
    PROVE  Numbered'
<1>1. PICK t \in ToolsFor(c, ds) :
        \/ DispatchNowhere(t, ds)
        \/ DispatchIdle(t, ds, suppress)
        \/ DispatchSend(t, ds, suppress)
  BY DEF Dispatch
<1> DEFINE d == AreaFor(t, ds.x)
           outs == AreaOuts(t, ds.x) \cup TouchOuts(d)
           noted == [View(d) EXCEPT !.p = Noted(d, ds)]
           sent == SendEvents(noted, Filtered(d, ds))
<1>2. /\ AreaOuts(t, ds.x) \in SUBSET Devices /\ outs \in SUBSET Devices
      /\ NoDevice \notin Devices
  <2>1. t \in Tools
    BY ToolsForType
  <2> QED
    BY <2>1, AreaForType, AreaTypes, DeviceAssumption DEF IInv, TouchOuts
<1>3. CASE DispatchNowhere(t, ds)
  <2>1. Post(AreaOuts(t, ds.x), NoDevice, <<>>) /\ wcmTPCButton' = wcmTPCButton
    BY <1>3 DEF DispatchNowhere, PostOuts, commonVars
  <2> QED
    BY <1>2, <2>1, PostNumbered
<1>4. CASE DispatchIdle(t, ds, suppress)
  <2>1. Post(outs, d, noted) /\ wcmTPCButton' = wcmTPCButton /\ d \in Devices
    BY <1>4 DEF DispatchIdle, commonVars, IInv, TypeOK
  <2>2. noted \in Views /\ ViewInv(noted) /\ noted.dev = d /\ noted.p.serial = priv[d].serial
    BY <2>1, NotedView
  <2> HIDE DEF d, outs, noted
  <2> QED
    BY <1>2, <2>1, <2>2, PostNumbered
<1>5. CASE DispatchSend(t, ds, suppress)
  <2>1. Post(outs, d, sent) /\ wcmTPCButton' = wcmTPCButton /\ d \in Devices
    BY <1>5 DEF DispatchSend, commonVars, IInv, TypeOK
  <2>2. /\ noted \in Views /\ ViewInv(noted) /\ noted.dev = d /\ noted.p.serial = priv[d].serial
        /\ Filtered(d, ds).buttons \in SUBSET Buttons
    BY <2>1, NotedView
  <2> HIDE DEF d, outs, noted
  <2>3. sent \in Views /\ ViewInv(sent) /\ sent.dev = d /\ sent.p.serial = priv[d].serial
    BY <2>2, SendEventsInv
  <2> HIDE DEF sent
  <2> QED
    BY <1>2, <2>1, <2>3, PostNumbered
<1> QED
  BY <1>1, <1>3, <1>4, <1>5

\* So does a frame that is heard.
LEMMA HeardNumbered ==
    ASSUME IInv, Numbered, NEW c, NEW ch, NEW chan \in ChannelState,
           \/ Discard(c, ch, chan)
           \/ DiscardJump(c, ch, chan)
           \/ Suppress(c, ch, chan)
           \/ Use(c, ch, chan)
    PROVE  Numbered'
<1>1. CASE UNCHANGED vars
  BY <1>1 DEF vars, Numbered
<1>2. CASE \E suppress : DispatchState(c, chan.work, suppress)
  <2>1. PICK suppress : DispatchState(c, chan.work, suppress)
    BY <1>2
  <2>2. PICK x \in Positions, moved \in BOOLEAN :
          \E ds \in Typed(c, PacketOf(chan.work, x, moved)) :
            \/ Dispatch(c, ds, suppress)
            \/ ToolsFor(c, ds) = {} /\ UNCHANGED vars
    BY <2>1 DEF DispatchState
  <2>3. PICK ds \in Typed(c, PacketOf(chan.work, x, moved)) :
          \/ Dispatch(c, ds, suppress)
          \/ ToolsFor(c, ds) = {} /\ UNCHANGED vars
    BY <2>2
  <2>4. chan.work \in WorkState
    BY DEF ChannelState
  <2>5. ds \in Packet
    BY <2>4, PacketOfType, TypedType
  <2> QED
    BY <1>1, <2>3, <2>5, DispatchNumbered
<1> QED
  BY <1>1, <1>2 DEF Discard, DiscardJump, Suppress, Use

\* A frame that is heard is put in its channel.
LEMMA HeardPut ==
    ASSUME channel \in [Commons -> [Channels -> ChannelState]],
           NEW c \in Commons, NEW ch \in Channels, NEW chan \in ChannelState,
           \/ Discard(c, ch, chan)
           \/ DiscardJump(c, ch, chan)
           \/ Suppress(c, ch, chan)
           \/ Use(c, ch, chan)
    PROVE  /\ channel'[c][ch].work = chan.work
           /\ \A b \in Commons, i \in Channels :
                b # c \/ i # ch => channel'[b][i] = channel[b][i]
<1>1. ASSUME NEW put, Put(c, ch, put)
      PROVE  /\ channel'[c][ch] = put
             /\ \A b \in Commons, i \in Channels :
                  b # c \/ i # ch => channel'[b][i] = channel[b][i]
  BY <1>1 DEF Put
<1>2. PICK put : Put(c, ch, put) /\ put.work = chan.work
  <2>1. CASE Use(c, ch, chan)
    BY <2>1 DEF Use
  <2>2. CASE Suppress(c, ch, chan)
    BY <2>2 DEF Suppress
  <2>3. CASE \E n : Put(c, ch, [chan EXCEPT !.nSamples = n])
    <3>1. PICK n : Put(c, ch, [chan EXCEPT !.nSamples = n])
      BY <2>3
    <3> DEFINE put == [chan EXCEPT !.nSamples = n]
    <3>2. put.work = chan.work
      BY DEF ChannelState
    <3>3. Put(c, ch, put)
      BY <3>1
    <3> HIDE DEF put
    <3> QED
      BY <3>2, <3>3
  <2> QED
    BY <2>1, <2>2, <2>3 DEF Discard, DiscardJump
<1> QED
  BY <1>1, <1>2

\* A setting leaves what a device is in, and disables none.
LEMMA SettingKeeps ==
    ASSUME IInv, CarefulSettings
    PROVE  /\ enabled \subseteq enabled'
           /\ \A d \in Devices : /\ priv'[d].oldProximity = priv[d].oldProximity
                                 /\ priv'[d].oldButtons = priv[d].oldButtons
                                 /\ priv'[d].serial = priv[d].serial
<1>1. priv \in [Devices -> PrivState] /\ \A d \in Devices : priv[d] \in PrivState
  BY DEF IInv, TypeOK
<1>2. ASSUME NEW d \in Devices, NEW absolute \in BOOLEAN, SetMode(d, absolute)
      PROVE  /\ enabled' = enabled
             /\ \A e \in Devices : /\ priv'[e].oldProximity = priv[e].oldProximity
                                   /\ priv'[e].oldButtons = priv[e].oldButtons
                                   /\ priv'[e].serial = priv[e].serial
  BY <1>1, <1>2 DEF SetMode, PrivState
<1>3. ASSUME NEW d \in Devices, NEW b \in Buttons, NEW action \in Actions, SetButton(d, b, action)
      PROVE  /\ enabled' = enabled
             /\ \A e \in Devices : /\ priv'[e].oldProximity = priv[e].oldProximity
                                   /\ priv'[e].oldButtons = priv[e].oldButtons
                                   /\ priv'[e].serial = priv[e].serial
  BY <1>1, <1>3 DEF SetButton, PrivState
<1>4. ASSUME NEW d, NEW serial, SetSerial(d, serial)
      PROVE  FALSE
  BY <1>4, UsbAssumption DEF SetSerial
<1>5. ASSUME \/ \E c \in Commons, on \in TouchModes : SetTouch(c, on)
             \/ \E c \in Commons, value \in Thresholds : SetThreshold(c, value)
             \/ \E d \in Devices : Enable(d)
             \/ \E c \in Commons, on \in TPCButtonModes : SetTPCButton(c, on)
      PROVE  priv' = priv /\ enabled \subseteq enabled'
  BY <1>5 DEF SetTouch, SetThreshold, Enable, SetTPCButton
<1>6. Remapped \subseteq Devices /\ Late \subseteq Devices
  BY DeviceAssumption
<1>7. CASE \E d \in Devices, absolute \in BOOLEAN : SetMode(d, absolute)
  BY <1>2, <1>7
<1>8. CASE \E d \in Devices, b \in Buttons, action \in Actions : SetButton(d, b, action)
  BY <1>3, <1>8
<1>9. CASE \/ \E c \in Commons, on \in TouchModes : SetTouch(c, on)
           \/ \E c \in Commons, value \in Thresholds : SetThreshold(c, value)
           \/ \E d \in Devices : Enable(d)
           \/ \E c \in Commons, on \in TPCButtonModes : SetTPCButton(c, on)
  BY <1>5, <1>9
<1> QED
  BY <1>4, <1>6, <1>7, <1>8, <1>9 DEF CarefulSettings, SafeSettings

-----------------------------------------------------------------------------
(* The frames of a Graphire's keys, and the frames without information.    *)

\* A pad's working state has the keys for buttons, its type while it is in
\* proximity, and is in proximity while a key is pressed.
PadRep(w, pads) ==
    /\ w.buttons = ButtonsOf(pads)
    /\ pads # {} => w.proximity
    /\ w.proximity => w.type = "PAD"

\* What a frame of the keys says
LEMMA PadFrameSays ==
    ASSUME NEW h, NEW f, NEW g, Good(h), Good(g), PadFrame(h, f, g)
    PROVE  /\ f.on = (g.pads \cup {"BTN_TOOL_FINGER"}) \ h.core.on
           /\ f.off = (PadKeys \ g.pads) \cap h.core.on
           /\ f.serial = PadSerial /\ ~f.miscFirst
           /\ LET id == IF g.pads # {} THEN "PAD" ELSE NoId
              IN  f.misc = IF id = h.core.misc THEN NoMisc ELSE id
<1> DEFINE on == g.pads \cup {"BTN_TOOL_FINGER"}
           off == PadKeys \ g.pads
           id == IF g.pads # {} THEN "PAD" ELSE NoId
           core0 == h.core
           serial == PadSerial
           no == FALSE
           r == Report(on, off, id, no, serial, no)
<1>1. f = Changes(core0, r)
  BY DEF PadFrame, PadReported
<1> HIDE DEF on, off, id, core0, serial, no
<1>2. Changes(core0, r) = [on |-> on \ core0.on, off |-> off \cap core0.on,
                          misc |-> IF id = core0.misc THEN NoMisc ELSE id,
                          miscFirst |-> no, serial |-> serial, axes |-> no]
  BY StoredIs
<1>3. /\ f.on = on \ core0.on /\ f.off = off \cap core0.on
      /\ f.misc = IF id = core0.misc THEN NoMisc ELSE id
      /\ f.miscFirst = no /\ f.serial = serial
  BY <1>1, <1>2
<1> QED
  BY <1>3 DEF on, off, id, core0, serial, no

\* The pad's channel, when it is opened
LEMMA OpenedPad ==
    ASSUME NEW chan \in ChannelState, NEW pads, PadRep(chan.work, pads),
           NEW open, open = Opened(chan)
    PROVE  /\ open \in ChannelState /\ open.work.proximity = TRUE
           /\ open.work.buttons = ButtonsOf(pads)
           /\ pads # {} => open.work.type = "PAD"
<1>1. CASE chan.work.proximity
  BY <1>1 DEF Opened, PadRep, ChannelState, WorkState
<1>2. CASE ~chan.work.proximity
  <2> DEFINE w == [Blank EXCEPT !.proximity = TRUE]
  <2>1. open = [work |-> w, valid |-> NoneValid, nSamples |-> 0]
    BY <1>2 DEF Opened
  <2>2. w \in WorkState /\ w.proximity = TRUE /\ w.buttons = {}
    BY BlankType
  <2>3. NoneValid \in ValidState /\ ButtonsOf({}) = {}
    BY DEF NoneValid, ValidState, ButtonsOf, Distances
  <2> HIDE DEF w
  <2>4. open \in ChannelState /\ open.work = w
    BY <2>1, <2>2, <2>3 DEF ChannelState
  <2> QED
    BY <1>2, <2>2, <2>3, <2>4 DEF PadRep
<1> QED
  BY <1>1, <1>2

\* What a frame of the keys makes of a state
PadSays(n, serial, g) == n.type = "PAD" /\ n.serial = serial /\ PadRep(n, g.pads)

\* A frame of the keys makes a pad's state of it.
LEMMA PadParsed ==
    ASSUME NEW h, NEW f \in Frame, NEW g, Good(h), Good(g), PadFrame(h, f, g),
           NEW w \in WorkState, w.proximity = TRUE, h.pads # {} => w.type = "PAD",
           w.buttons = ButtonsOf(h.pads),
           NEW serial \in {0, 1, 2, PadSerial}, NEW now,
           NEW distance \in Distances, NEW n, n = Parsed(w, f, serial, distance, now)
    PROVE  PadSays(n, serial, g)
<1> DEFINE u == [w EXCEPT !.serial = serial, !.distance = distance]
           v == ParseSwitches(u, f)
           k == ParseToolKey(v, f)
           m == ParseMisc(k, f)
           F == "BTN_TOOL_FINGER"
           id == IF g.pads # {} THEN "PAD" ELSE NoId
<1>1. /\ f.on = (g.pads \cup {F}) \ h.core.on
      /\ f.off = (PadKeys \ g.pads) \cap h.core.on
      /\ ~f.miscFirst
      /\ f.misc = IF id = h.core.misc THEN NoMisc ELSE id
  BY PadFrameSays
<1>2. /\ h.pads # {} \/ g.pads # {}
      /\ h.core.misc = "PAD" => h.pads # {}
      /\ g.pads \subseteq PadKeys
  BY DEF PadFrame, Good, Moments
<1>3. n = Retyped(m, now)
  BY <1>1 DEF Parsed
<1>4. /\ v = ParseSwitches(Stamped(w, serial, distance), f)
      /\ k = ParseToolKey(v, f) /\ m = ParseMisc(k, f)
  BY DEF Stamped
<1> HIDE DEF u, v, k, m, id
<1>5. /\ v \in WorkState /\ v.type = w.type /\ v.proximity = TRUE
      /\ v.serial = serial /\ v.buttons = ButtonsOf(g.pads)
  <2>1. Switched(v, w, f, serial)
    <3>1. Stamps(w, f, serial, distance)
      BY DEF Stamps
    <3> QED
      BY ONLY <1>4, <3>1, SwitchesParsed
  <2>1a. /\ v \in WorkState /\ v.type = w.type /\ v.proximity = w.proximity /\ v.serial = serial
        /\ v.buttons = (w.buttons \cup ButtonsOf(f.on)) \ ButtonsOf(f.off)
    BY <2>1 DEF Switched
  <2>2. Pressing(PadButtons, h.pads, g.pads, f.on, f.off)
    <3>1. /\ PadKeys \subseteq PadButtons /\ h.pads \subseteq PadKeys
          /\ h.core.on \cap PadButtons = h.pads
      BY SwitchAssumption DEF Good, Moments
    <3>2. PadButtons \subseteq DOMAIN ButtonOf /\ F \notin DOMAIN ButtonOf
          /\ "ABS_PRESSURE" \notin PadButtons /\ "ABS_PRESSURE" \notin DOMAIN ButtonOf
      BY DEF ButtonOf, PenButtons, PadButtons
    <3>3. Distinct(PadButtons \ {"ABS_PRESSURE"})
      BY ToolButtons DEF Distinct
    <3>4. h.core.on \cap PadKeys = h.pads
      BY <3>1
    <3>5. /\ f.on \cap DOMAIN ButtonOf = (g.pads \ h.pads) \ {"ABS_PRESSURE"}
          /\ f.off \cap DOMAIN ButtonOf = (h.pads \ g.pads) \ {"ABS_PRESSURE"}
      BY <1>1, <1>2, <3>1, <3>2, <3>4
    <3> QED
      BY <1>2, <3>1, <3>3, <3>5 DEF Pressing
  <2>3. v.buttons = ButtonsOf(g.pads)
    BY <2>1a, <2>2, ButtonsFollow
  <2> QED
    BY <2>1a, <2>3
<1>6. (f.on \cup f.off) \cap DOMAIN KeyType \subseteq {F} /\ F \notin f.off /\ KeyType[F] = "PAD"
  <2>1. PadKeys \subseteq PadButtons
    BY SwitchAssumption
  <2>2. PadButtons \cap DOMAIN KeyType = {} /\ F \notin PadButtons
    BY DEF PadButtons, KeyType, ToolKeys, ToolId
  <2>3. KeyType[F] = "PAD"
    BY DEF KeyType, ToolKeys
  <2> QED
    BY <1>1, <1>2, <2>1, <2>2, <2>3
<1>7. /\ k \in WorkState /\ k.buttons = v.buttons /\ k.serial = v.serial
      /\ IF F \in f.on \cup f.off
         THEN k.type = KeyType[F] /\ (k.proximity <=> F \in f.on)
         ELSE k = v
  <2>1. F \in PenTools \cup {"BTN_TOOL_FINGER"}
    OBVIOUS
  <2>2. (f.on \cup f.off) \cap DOMAIN KeyType \subseteq {F}
    BY <1>6
  <2>3. v \in WorkState
    BY <1>5
  <2> DEFINE tool == F
  <2> HIDE DEF tool
  <2>4. tool \in PenTools \cup {"BTN_TOOL_FINGER"} /\ (f.on \cup f.off) \cap DOMAIN KeyType \subseteq {tool}
    BY <2>1, <2>2 DEF tool
  <2>5. /\ k \in WorkState /\ k.buttons = v.buttons /\ k.serial = v.serial
        /\ IF tool \in f.on \cup f.off
           THEN k.type = KeyType[tool] /\ (k.proximity <=> tool \in f.on)
           ELSE k = v
    BY <1>4, <2>3, <2>4, ToolKeyParsed
  <2> QED
    BY <2>5 DEF tool
<1>8. k.proximity = TRUE /\ (w.type = "PAD" => k.type = "PAD")
  <2>1. k.proximity \in BOOLEAN
    BY <1>7 DEF WorkState
  <2> QED
    BY <1>5, <1>6, <1>7, <2>1
<1>9. f.misc \in {"PAD", NoId, NoMisc} /\ "PAD" # NoId /\ "PAD" # NoMisc /\ NoId # NoMisc
  BY <1>1 DEF id, NoId, NoMisc
<1>10. /\ m \in WorkState /\ m.buttons = k.buttons /\ m.serial = k.serial
       /\ f.misc = NoMisc => m = k
       /\ f.misc = NoId => m.type = k.type /\ m.proximity = FALSE
       /\ f.misc \notin {NoId, NoMisc} => m.type = f.misc /\ m.proximity = TRUE
  <2>1. f.misc \in Ids \cup {NoId, NoMisc}
    BY <1>9 DEF Ids
  <2>2. k \in WorkState
    BY <1>7
  <2>3. m = ParseMisc(k, f)
    BY <1>4
  <2>4. MiscSays(k, f, m)
    BY <2>1, <2>2, <2>3, MiscParsed
  <2> QED
    BY <2>4 DEF MiscSays
<1>11. m.type = "PAD"
  <2>1. CASE h.pads # {}
    BY <1>8, <1>9, <1>10, <2>1
  <2>2. CASE h.pads = {}
    <3>1. f.misc = "PAD"
      BY <1>1, <1>2, <2>2 DEF id
    <3> QED
      BY <1>9, <1>10, <3>1
  <2> QED
    BY <2>1, <2>2
<1>12. g.pads # {} => m.proximity
  BY <1>1, <1>8, <1>9, <1>10 DEF id
<1>13. n = m
  BY <1>3, <1>11, TypedKept DEF NoType
<1>14. n.buttons = ButtonsOf(g.pads) /\ n.serial = serial
  BY <1>5, <1>7, <1>10, <1>13
<1> QED
  BY <1>10, <1>11, <1>12, <1>13, <1>14 DEF PadRep, PadSays

\* A frame that is dropped because nothing is in it says nothing.
LEMMA EmptySays ==
    ASSUME NEW c, NEW f \in Frame, EmptyFrame(c, f)
    PROVE  f.serial # NoSerial => f.on = {} /\ f.off = {} /\ f.misc = NoMisc
<1> SUFFICES ASSUME f.serial # NoSerial
             PROVE  f.on = {} /\ f.off = {} /\ f.misc = NoMisc
  OBVIOUS
<1> DEFINE s == f.on \cup f.off
<1>1. IsFiniteSet(s)
  <2>1. s \subseteq Switches
    BY DEF Frame
  <2>2. IsFiniteSet(Switches)
    <3>1. Switches = {"BTN_TOOL_PEN", "BTN_TOOL_RUBBER", "BTN_TOOL_MOUSE", "BTN_TOOL_DOUBLETAP",
                      "BTN_TOOL_TRIPLETAP", "BTN_TOOL_FINGER"}
                     \cup {"ABS_PRESSURE", "BTN_STYLUS", "BTN_STYLUS2", "BTN_LEFT", "BTN_MIDDLE",
                           "BTN_RIGHT"}
                     \cup {"BTN_0", "BTN_1", "BTN_2", "BTN_3", "BTN_4"} \cup {NoId}
      BY DEF Switches, ToolKeys, ToolId, PenButtons, PadButtons
    <3>2. \A a, b, c1, d, e, g : IsFiniteSet({a, b, c1, d, e, g})
      <4> SUFFICES ASSUME NEW a, NEW b, NEW c1, NEW d, NEW e, NEW g
                   PROVE  IsFiniteSet({a, b, c1, d, e, g})
        OBVIOUS
      <4>1. IsFiniteSet({a}) /\ IsFiniteSet({b}) /\ IsFiniteSet({c1})
            /\ IsFiniteSet({d}) /\ IsFiniteSet({e}) /\ IsFiniteSet({g})
        BY FS_Singleton
      <4>2. IsFiniteSet({a} \cup {b}) /\ IsFiniteSet({c1} \cup {d}) /\ IsFiniteSet({e} \cup {g})
        BY <4>1, FS_Union
      <4>3. IsFiniteSet(({a} \cup {b}) \cup ({c1} \cup {d}))
        BY <4>2, FS_Union
      <4>4. IsFiniteSet((({a} \cup {b}) \cup ({c1} \cup {d})) \cup ({e} \cup {g}))
        BY <4>2, <4>3, FS_Union
      <4>5. {a, b, c1, d, e, g} = (({a} \cup {b}) \cup ({c1} \cup {d})) \cup ({e} \cup {g})
        OBVIOUS
      <4> QED
        BY <4>4, <4>5
    <3> DEFINE tools == {"BTN_TOOL_PEN", "BTN_TOOL_RUBBER", "BTN_TOOL_MOUSE",
                         "BTN_TOOL_DOUBLETAP", "BTN_TOOL_TRIPLETAP", "BTN_TOOL_FINGER"}
               pens == {"ABS_PRESSURE", "BTN_STYLUS", "BTN_STYLUS2", "BTN_LEFT", "BTN_MIDDLE",
                        "BTN_RIGHT"}
               pads == {"BTN_0", "BTN_1", "BTN_2", "BTN_3", "BTN_4", NoId}
    <3>3. IsFiniteSet(tools) /\ IsFiniteSet(pens) /\ IsFiniteSet(pads)
      BY <3>2
    <3>4. Switches = (tools \cup pens) \cup pads
      BY <3>1
    <3> HIDE DEF tools, pens, pads
    <3>5. IsFiniteSet(tools \cup pens)
      BY <3>3, FS_Union
    <3>6. IsFiniteSet((tools \cup pens) \cup pads)
      BY <3>3, <3>5, FS_Union
    <3> QED
      BY <3>4, <3>6
  <2> QED
    BY <2>1, <2>2, FS_Subset
<1>2. Cardinality(s) \in Nat /\ (Cardinality(s) = 0 <=> s = {})
  BY <1>1, FS_CardinalityType, FS_EmptySet
<1>3. Cardinality(s) + (IF f.misc # NoMisc THEN 1 ELSE 0) + (IF f.axes THEN 2 ELSE 0) + 1 + 1 <= 2
  BY DEF EmptyFrame, Count
<1> HIDE DEF s
<1>4. Cardinality(s) = 0 /\ f.misc = NoMisc
  BY <1>2, <1>3
<1> QED
  BY <1>2, <1>4 DEF s

\* So the moments before and after it are alike.
LEMMA EmptyTells ==
    ASSUME NEW h, NEW f \in Frame, NEW g, Tells(h, f, g), EmptyFrame(PenPort, f),
           ~IsGraphire => wcmLastToolSerial[PenPort] = 0
    PROVE  g.pen = h.pen /\ g.pads = h.pads
<1>1. Good(h) /\ Good(g)
  BY DEF Tells
<1>2. CASE PenFrame(h, f, g)
  <2> DEFINE tool == ToolBetween(h, g)
  <2>1. /\ f.on = Lit(g.pen) \ Lit(h.pen) /\ f.off = Lit(h.pen) \ Lit(g.pen)
        /\ f.serial = PenSerial
    BY <1>1, <1>2, PenFrameSays
  <2>2. f.serial # NoSerial
    BY <2>1 DEF EmptyFrame, SerialOf, PenSerial, NoSerial
  <2>3. Lit(h.pen) = Lit(g.pen)
    BY <2>1, <2>2, EmptySays
  <2>4. /\ h.pen \in PenHand /\ g.pen \in PenHand /\ GoodPen(h.pen) /\ GoodPen(g.pen)
        /\ PenTurns(h.pen, g.pen) /\ g.pads = h.pads
    BY <1>1, <1>2 DEF Good, Moments, PenFrame
  <2> QED
    BY <2>3, <2>4, LitTells
<1>3. CASE PadFrame(h, f, g)
  <2>1. /\ f.on = (g.pads \cup {"BTN_TOOL_FINGER"}) \ h.core.on
        /\ f.off = (PadKeys \ g.pads) \cap h.core.on
        /\ f.serial = PadSerial
    BY <1>1, <1>3, PadFrameSays
  <2>2. f.on = {} /\ f.off = {}
    BY <2>1, EmptySays DEF NoSerial, PadSerial
  <2>3. /\ h.core.on \cap PadButtons = h.pads /\ h.pads \subseteq PadKeys
        /\ g.pads \subseteq PadKeys /\ PadKeys \subseteq PadButtons
    BY <1>1, SwitchAssumption DEF Good, Moments
  <2> QED
    BY <1>3, <2>1, <2>2, <2>3 DEF PadFrame
<1> QED
  BY <1>2, <1>3 DEF Tells

\* What shows a pen is like a pen.
LEMMA PenLikeShown ==
    ASSUME NEW n \in WorkState, NEW pen, GoodPen(pen), PenRep(n, pen), n.proximity
    PROVE  PenLike(n) /\ n.type \in PenTypes
<1> DEFINE tool == pen.tool
           S == PenSwitches[tool]
<1>1. /\ pen.near /\ tool \in PenTools /\ pen.pressed \subseteq S
      /\ n.buttons = ButtonsOf(pen.pressed)
      /\ n.pressed <=> "ABS_PRESSURE" \in pen.pressed
      /\ n.type = ToolId[tool]
  BY DEF PenRep, Shows, GoodPen
<1>2. tool \in {"BTN_TOOL_PEN", "BTN_TOOL_RUBBER", "BTN_TOOL_MOUSE"}
  BY <1>1, TabletAssumption
<1>3. /\ tool = "BTN_TOOL_MOUSE" => ToolId[tool] = "CURSOR"
      /\ tool # "BTN_TOOL_MOUSE" => ToolId[tool] \in {"STYLUS", "ERASER"}
  BY <1>2 DEF ToolId
<1> HIDE DEF tool
<1>4. CASE tool = "BTN_TOOL_MOUSE"
  <2>1. "ABS_PRESSURE" \notin S
    BY <1>1, <1>4, SwitchAssumption
  <2>2. ~n.pressed
    BY <1>1, <2>1
  <2> QED
    BY <1>1, <1>3, <1>4, <2>2 DEF PenLike, PenTypes
<1>5. CASE tool # "BTN_TOOL_MOUSE"
  <2>1. S \subseteq {"ABS_PRESSURE", "BTN_STYLUS", "BTN_STYLUS2"}
    BY <1>1, <1>5, SwitchAssumption
  <2>2. \A s \in S \cap DOMAIN ButtonOf : s \in {"BTN_STYLUS", "BTN_STYLUS2"}
    BY <2>1 DEF ButtonOf
  <2>3. \A s \in {"BTN_STYLUS", "BTN_STYLUS2"} : ButtonOf[s] # 1
    BY DEF ButtonOf, PenButtons, PadButtons
  <2>4. 1 \notin n.buttons
    BY <1>1, <2>2, <2>3 DEF ButtonsOf
  <2> QED
    BY <1>1, <1>3, <1>5, <2>4 DEF PenLike, PenTypes
<1> QED
  BY <1>4, <1>5

-----------------------------------------------------------------------------
(* The inductive invariant.                                                *)

\* The pen's and the pad's channel show the moment that the frames read so far
\* lead to, from which the frames not read lead to now.
Told(h) ==
    /\ Good(h)
    /\ Chain(queue[PenPort], h, Now)
    /\ PenRep(channel[PenPort][0].work, h.pen)
    /\ IsGraphire => PadRep(channel[PenPort][MAX_CHANNELS - 1].work, h.pads)

HandInv ==
    /\ Kernel /\ Good(Now)
    /\ Numbered
    /\ ~IsGraphire => wcmLastToolSerial[PenPort] = 0
    /\ \E h : Told(h)

\* The devices' records are as their channels are.
PensInv == PensIn(channel[PenPort][0])
PadsInv == PadsIn(channel[PenPort][MAX_CHANNELS - 1])

\* With the tablet unplugged from all hands
LEMMA HandStarts ==
    ASSUME UsbInit
    PROVE  HandInv /\ PensInv /\ (PadsReached => PadsInv)
<1>1. /\ hand = [pen |-> NoPen, fingers |-> {}, pads |-> {}]
      /\ wac = [penTool |-> NoId, penId |-> NoId, touchId |-> NoId, fingers |-> {}, pad |-> FALSE]
      /\ near = FALSE
      /\ core[PenPort] = [on |-> {}, misc |-> NoId] /\ queue[PenPort] = <<>>
  BY TabletAssumption DEF UsbInit, WacInit
<1>2. PenPort \in Commons /\ {0, MAX_CHANNELS - 1} \subseteq Channels
  BY TabletAssumption, UsbAssumption DEF Channels, MAX_CHANNELS
<1>3. /\ hand.pen = NoPen /\ hand.pads = {}
      /\ NoPen.near = FALSE /\ NoPen.pressed = {} /\ NoPen \in PenHand
  BY <1>1 DEF NoPen, PenHand
<1>4. Kernel
  <2>1. hand.pen.near = FALSE /\ hand.pen.pressed = {}
    BY <1>3
  <2>2. wac.penId = NoId /\ wac.pad = FALSE
    BY <1>1
  <2>3. GoodPen(hand.pen)
    BY <2>1 DEF GoodPen
  <2> QED
    BY <1>1, <1>3, <2>1, <2>2, <2>3 DEF Kernel
<1>5. Now = [pen |-> NoPen, pads |-> {}, core |-> [on |-> {}, misc |-> NoId]]
  BY <1>1, <1>3 DEF Now
<1>6. Good(Now)
  <2>1. Now \in Moments
    BY <1>3, <1>5 DEF Moments
  <2>2. GoodPen(NoPen) /\ Lit(NoPen) = {} /\ NoId # "PAD"
    BY <1>3 DEF GoodPen, Lit, NoId
  <2> QED
    BY <1>5, <2>1, <2>2 DEF Good
<1>7. ASSUME NEW d \in Devices
      PROVE  /\ priv[d].oldProximity = FALSE /\ priv[d].oldButtons = {}
             /\ priv[d].serial = ToolSerial[ToolOf(d)]
             /\ d \notin Late => d \in enabled
  <2>1. priv[d] = InitPriv(d) /\ enabled = Devices \ Late
    BY DEF UsbInit, Init
  <2> QED
    BY <2>1 DEF InitPriv
<1>8. /\ channel[PenPort][0].work = Blank /\ channel[PenPort][MAX_CHANNELS - 1].work = Blank
      /\ wcmLastToolSerial[PenPort] = 0
  BY <1>2 DEF UsbInit
<1>9. Told(Now)
  <2>1. Chain(queue[PenPort], Now, Now)
    BY <1>1, <1>6, ChainStarts DEF Good
  <2>2. ~Blank.proximity /\ Blank.buttons = {} /\ ButtonsOf({}) = {}
    BY DEF Blank, ButtonsOf
  <2>3. PenRep(Blank, Now.pen) /\ PadRep(Blank, Now.pads)
    BY <1>3, <1>5, <2>2 DEF PenRep, PadRep
  <2> QED
    BY <1>6, <1>8, <2>1, <2>3 DEF Told
<1>10. PadsReached => PadsInv
  <2>1. ~Blank.proximity /\ Blank.buttons = {}
    BY DEF Blank
  <2> QED
    BY <1>7, <1>8, <2>1 DEF PadsInv, PadsIn, Pads, PadsReached
<1> QED
  BY <1>4, <1>6, <1>7, <1>8, <1>9, <1>10 DEF HandInv, Numbered, PensInv, PensIn, Pens

-----------------------------------------------------------------------------
(* The steps.                                                              *)

\* The pen's port is one, and its channels are.
LEMMA PenPortTypes ==
    /\ PenPort \in Commons /\ 0 \in Channels /\ MAX_CHANNELS - 1 \in Channels
    /\ MAX_CHANNELS - 1 # 0
  BY TabletAssumption, UsbAssumption DEF Channels, MAX_CHANNELS

\* The hardware
LEMMA HardwareHand ==
    ASSUME UsbInv, HandInv, Hardware
    PROVE  HandInv'
<1>1. WacTypeOK /\ WacNext /\ UNCHANGED vars /\ UNCHANGED usbVars
  BY DEF UsbInv, UsbTypeOK, Hardware
<1>2. PICK h : Told(h)
  BY DEF HandInv
<1>3. Kernel /\ Good(Now) /\ Chain(queue[PenPort], h, Now)
  BY <1>2 DEF HandInv, Told
<1>4. Kernel' /\ Good(Now)' /\ Chain(queue[PenPort], h, Now)'
  BY <1>1, <1>3, HardwareChain
<1>5. channel' = channel /\ wcmLastToolSerial' = wcmLastToolSerial /\ priv' = priv /\ enabled' = enabled
  BY <1>1 DEF vars, usbVars
<1>6. Told(h)'
  BY <1>2, <1>4, <1>5 DEF Told
<1> QED
  BY <1>4, <1>5, <1>6 DEF HandInv, Numbered

\* A client
LEMMA ConfigureHand ==
    ASSUME UsbInv, HandInv, Configure
    PROVE  HandInv'
<1>1. IInv /\ CarefulSettings /\ UNCHANGED wacVars /\ UNCHANGED usbVars
  BY DEF UsbInv, Configure
<1>2. /\ enabled \subseteq enabled'
      /\ \A e \in Devices : /\ priv'[e].oldProximity = priv[e].oldProximity
                            /\ priv'[e].oldButtons = priv[e].oldButtons
                            /\ priv'[e].serial = priv[e].serial
  BY <1>1, SettingKeeps
<1>3. /\ channel' = channel /\ wcmLastToolSerial' = wcmLastToolSerial
      /\ hand' = hand /\ wac' = wac /\ near' = near /\ core' = core /\ queue' = queue
  BY <1>1 DEF wacVars, usbVars
<1>4. Kernel' /\ Good(Now)'
  BY <1>3 DEF HandInv, Kernel, Now
<1>5. \E h : Told(h)'
  BY <1>3 DEF HandInv, Told, Now
<1>6. Numbered'
  BY <1>2 DEF HandInv, Numbered
<1> QED
  BY <1>3, <1>4, <1>5, <1>6 DEF HandInv

\* Nothing
LEMMA StutterHand ==
    ASSUME HandInv, UNCHANGED allVars
    PROVE  HandInv'
<1>1. /\ channel' = channel /\ wcmLastToolSerial' = wcmLastToolSerial
      /\ hand' = hand /\ wac' = wac /\ near' = near /\ core' = core /\ queue' = queue
      /\ priv' = priv /\ enabled' = enabled
  BY DEF allVars, vars, wacVars, usbVars
<1> QED
  BY <1>1 DEF HandInv, Told, Now, Kernel, Numbered

\* Reading leaves the kernel and the hand as they are.
LEMMA KernelKept ==
    ASSUME HandInv, UNCHANGED <<hand, wac, near, core>>
    PROVE  Kernel' /\ Good(Now)' /\ Now' = Now
  BY DEF HandInv, Kernel, Now

\* A frame f is parsed into channel ch, which becomes chan.
Parsing(c, f, serial, ch, chan) ==
    /\ f = Head(queue[c]) /\ f \in Frame /\ ~EmptyFrame(c, f)
    /\ serial = SerialOf(c, f) /\ serial \in {0, 1, 2, PadSerial}
    /\ ch = ChooseChannel(serial) /\ ch \in Channels
    /\ chan \in ChannelState
    /\ LET open == Opened(channel[c][ch])
       IN  /\ \E distance \in Distances :
                chan.work = Parsed(open.work, f, serial, distance, core[c])
           /\ chan.valid = open.valid /\ chan.nSamples = open.nSamples
    /\ \/ Deaf(c, ch, chan.work) /\ ParseDeaf(c, ch, chan, serial)
       \/ ~Deaf(c, ch, chan.work) /\ ParseHeard(c, ch, chan, serial)

\* Reading a frame is parsing it.
LEMMA FrameParsed ==
    ASSUME UsbTypeOK, NEW c \in Commons, ReadFrame(c)
    PROVE  \E f, serial, ch, chan : Parsing(c, f, serial, ch, chan)
<1> DEFINE frame == Head(queue[c])
           serial == SerialOf(c, frame)
           ch == ChooseChannel(serial)
           open == Opened(channel[c][ch])
           read(distance) ==
             [open EXCEPT !.work = Parsed(open.work, frame, serial, distance, core[c])]
           parsed(chan) ==
             \/ Deaf(c, ch, chan.work) /\ ParseDeaf(c, ch, chan, serial)
             \/ ~Deaf(c, ch, chan.work) /\ ParseHeard(c, ch, chan, serial)
<1>1. /\ queue[c] # <<>> /\ ~EmptyFrame(c, frame)
      /\ \E distance \in Lifts(open.work, frame) : parsed(read(distance))
  BY DEF ReadFrame
<1>2. frame \in Frame /\ serial \in {0, 1, 2, PadSerial} /\ ch \in Channels
  BY <1>1, FrameTypes
<1>3. core[c] \in [on: SUBSET Switches, misc: Ids \cup {NoId}]
  BY UsbAssumption DEF UsbTypeOK, WacTypeOK
<1>4. serial = SerialOf(c, frame) /\ ch = ChooseChannel(serial)
  OBVIOUS
<1> HIDE DEF frame, serial, ch
<1>5. open \in ChannelState
  <2>1. channel[c][ch] \in ChannelState
    BY <1>2 DEF UsbTypeOK
  <2>2. [Blank EXCEPT !.proximity = TRUE] \in WorkState
    BY BlankType
  <2>3. NoneValid \in ValidState /\ 0 \in 0 .. 2
    BY DEF NoneValid, ValidState, Distances
  <2> QED
    BY <2>1, <2>2, <2>3 DEF Opened, ChannelState
<1>6. open = Opened(channel[c][ch])
  OBVIOUS
<1> HIDE DEF open
<1>6a. PICK distance \in Lifts(open.work, frame) : parsed(read(distance))
  BY <1>1
<1> DEFINE work == Parsed(open.work, frame, serial, distance, core[c])
           chan == [open EXCEPT !.work = work]
<1>6b. distance \in Distances
  BY <1>5, LiftsType DEF ChannelState
<1>7. work \in WorkState
  BY <1>2, <1>3, <1>5, <1>6b, ParsedType DEF ChannelState
<1>8. \E e \in Distances : work = Parsed(open.work, frame, serial, e, core[c])
  BY <1>6b
<1>8a. parsed(chan)
  BY <1>6a
<1> HIDE DEF work
<1>9. chan \in ChannelState /\ chan.work = work /\ chan.valid = open.valid
      /\ chan.nSamples = open.nSamples
  BY <1>5, <1>7 DEF ChannelState
<1> HIDE DEF chan
<1>10. Parsing(c, frame, serial, ch, chan)
  BY <1>1, <1>2, <1>4, <1>6, <1>8, <1>8a, <1>9 DEF Parsing, frame
<1> QED
  BY <1>10

\* What parsing a frame leaves
LEMMA ParsingKeeps ==
    ASSUME UsbInv, Numbered, NEW c \in Commons, NEW f, NEW serial, NEW ch, NEW chan,
           Parsing(c, f, serial, ch, chan)
    PROVE  /\ channel'[c][ch].work = chan.work
           /\ \A b \in Commons, i \in Channels : b # c \/ i # ch => channel'[b][i] = channel[b][i]
           /\ wcmLastToolSerial'[c] \in {0, serial}
           /\ \A b \in Commons \ {c} : wcmLastToolSerial'[b] = wcmLastToolSerial[b]
           /\ Numbered'
<1>1. /\ IInv /\ channel \in [Commons -> [Channels -> ChannelState]]
      /\ wcmLastToolSerial \in [Commons -> {0, 1, 2, PadSerial}]
      /\ ch \in Channels /\ chan \in ChannelState
  BY DEF UsbInv, UsbTypeOK, Parsing
<1>2. CASE ParseDeaf(c, ch, chan, serial)
  BY <1>1, <1>2 DEF ParseDeaf, Put, Numbered, vars
<1>3. CASE ParseHeard(c, ch, chan, serial)
  <2>1. /\ \/ Discard(c, ch, chan)
           \/ DiscardJump(c, ch, chan)
           \/ Suppress(c, ch, chan)
           \/ Use(c, ch, chan)
        /\ wcmLastToolSerial' = [wcmLastToolSerial EXCEPT ![c] =
              IF chan.work.proximity THEN serial ELSE 0]
    BY <1>3 DEF ParseHeard
  <2>2. /\ channel'[c][ch].work = chan.work
        /\ \A b \in Commons, i \in Channels : b # c \/ i # ch => channel'[b][i] = channel[b][i]
    BY <1>1, <2>1, HeardPut
  <2>3. Numbered'
    BY <1>1, <2>1, HeardNumbered
  <2> QED
    BY <1>1, <2>1, <2>2, <2>3
<1> QED
  BY <1>2, <1>3 DEF Parsing

\* A device that is not for touch is left alone by the frames of other ports
\* and of other types.
LEMMA ParsingElsewhere ==
    ASSUME UsbInv, NEW c \in Commons, NEW f, NEW serial, NEW ch, NEW chan,
           Parsing(c, f, serial, ch, chan),
           NEW d \in Devices, DevType[d] # "TOUCH", Elsewhere(c, chan.work.type, d)
    PROVE  enabled' = enabled /\ priv'[d] = priv[d]
<1>1. IInv /\ chan \in ChannelState
  BY DEF UsbInv, Parsing
<1>2. CASE ParseDeaf(c, ch, chan, serial)
  BY <1>2 DEF ParseDeaf, vars
<1>3. CASE ParseHeard(c, ch, chan, serial)
  <2>1. \/ Discard(c, ch, chan)
        \/ DiscardJump(c, ch, chan)
        \/ Suppress(c, ch, chan)
        \/ Use(c, ch, chan)
    BY <1>3 DEF ParseHeard
  <2> QED
    BY <1>1, <2>1, HeardElsewhere
<1> QED
  BY <1>2, <1>3 DEF Parsing

\* The frames of other ports
LEMMA ReadOtherHand ==
    ASSUME UsbInv, HandInv, NEW c \in Commons, c # PenPort, Read(c)
    PROVE  HandInv' /\ \A ch \in Channels : channel'[PenPort][ch] = channel[PenPort][ch]
<1>1. /\ queue[c] # <<>>
      /\ queue' = [queue EXCEPT ![c] = Tail(@)]
      /\ UNCHANGED <<hand, wac, near, core>>
  BY DEF Read, ReadEmpty, ReadFrame
<1>2. UsbTypeOK /\ WacTypeOK
  BY DEF UsbInv, UsbTypeOK
<1>3. queue'[PenPort] = queue[PenPort]
  BY <1>1, <1>2, UsbAssumption, TabletAssumption DEF WacTypeOK
<1>4. /\ wcmLastToolSerial'[PenPort] = wcmLastToolSerial[PenPort]
      /\ \A ch \in Channels : channel'[PenPort][ch] = channel[PenPort][ch]
      /\ Numbered'
  <2>1. CASE ReadEmpty(c)
    BY <1>2, <2>1, PenPortTypes DEF ReadEmpty, UsbTypeOK, HandInv, Numbered, vars
  <2>2. CASE ReadFrame(c)
    <3>1. PICK f, serial, ch, chan : Parsing(c, f, serial, ch, chan)
      BY <1>2, <2>2, FrameParsed
    <3>2. Numbered
      BY DEF HandInv
    <3> QED
      BY <3>1, <3>2, ParsingKeeps, PenPortTypes
  <2> QED
    BY <2>1, <2>2 DEF Read
<1>5. \E h : Told(h)'
  BY <1>1, <1>3, <1>4, KernelKept, PenPortTypes DEF HandInv, Told
<1> QED
  BY <1>1, <1>4, <1>5, KernelKept DEF HandInv

\* A frame without information at the pen's port
LEMMA ReadEmptyHand ==
    ASSUME UsbInv, HandInv, ReadEmpty(PenPort)
    PROVE  HandInv'
<1>1. /\ queue[PenPort] # <<>> /\ EmptyFrame(PenPort, Head(queue[PenPort]))
      /\ queue' = [queue EXCEPT ![PenPort] = Tail(@)]
      /\ wcmLastToolSerial' = [wcmLastToolSerial EXCEPT
                                 ![PenPort] = SerialOf(PenPort, Head(queue[PenPort]))]
      /\ UNCHANGED vars /\ UNCHANGED <<hand, wac, near, core>> /\ channel' = channel
  BY DEF ReadEmpty
<1> DEFINE f == Head(queue[PenPort])
<1>2. PICK h : Told(h)
  BY DEF HandInv
<1>3. queue[PenPort] \in Seq(Frame) /\ queue'[PenPort] = Tail(queue[PenPort]) /\ f \in Frame
  BY <1>1, PenPortTypes, UsbAssumption DEF UsbInv, UsbTypeOK, WacTypeOK
<1>4. PICK g : Tells(h, f, g) /\ Chain(Tail(queue[PenPort]), g, Now)
  BY <1>1, <1>2, <1>3, ChainShrinks DEF Told
<1>5. ~IsGraphire => wcmLastToolSerial[PenPort] = 0
  BY DEF HandInv
<1>6. g.pen = h.pen /\ g.pads = h.pads /\ Good(g)
  BY <1>1, <1>3, <1>4, <1>5, EmptyTells DEF Tells
<1>7. ~IsGraphire => f.serial = NoSerial
  <2>1. ~IsGraphire => PenFrame(h, f, g)
    BY <1>4 DEF Tells, PadFrame
  <2>2. PenFrame(h, f, g) => f.serial = PenSerial
    BY <1>4, PenFrameSays DEF Tells
  <2> QED
    BY <2>1, <2>2 DEF PenSerial
<1>8. ~IsGraphire => wcmLastToolSerial'[PenPort] = 0
  BY <1>1, <1>5, <1>7, PenPortTypes DEF SerialOf, UsbInv, UsbTypeOK
<1>9. Told(g)'
  BY <1>1, <1>2, <1>3, <1>4, <1>6, KernelKept DEF Told
<1> QED
  BY <1>1, <1>8, <1>9, KernelKept DEF HandInv, Numbered, vars

\* The frame f that is read at the pen's port leads from moment h to moment g.
Reading(f, serial, ch, chan, h, g) ==
    /\ Parsing(PenPort, f, serial, ch, chan)
    /\ Told(h) /\ Tells(h, f, g) /\ Chain(queue'[PenPort], g, Now)

\* Every frame does.
LEMMA FrameTold ==
    ASSUME UsbInv, HandInv, ReadFrame(PenPort)
    PROVE  /\ UNCHANGED <<hand, wac, near, core>>
           /\ \E f, serial, ch, chan, h, g : Reading(f, serial, ch, chan, h, g)
<1>1. /\ queue[PenPort] # <<>>
      /\ queue' = [queue EXCEPT ![PenPort] = Tail(@)]
      /\ UNCHANGED <<hand, wac, near, core>>
  BY DEF ReadFrame
<1>2. UsbTypeOK /\ PenPort \in Commons
  BY PenPortTypes DEF UsbInv
<1>3. PICK f, serial, ch, chan : Parsing(PenPort, f, serial, ch, chan)
  BY <1>2, FrameParsed
<1>4. PICK h : Told(h)
  BY DEF HandInv
<1>5. queue[PenPort] \in Seq(Frame) /\ queue'[PenPort] = Tail(queue[PenPort])
      /\ f = Head(queue[PenPort])
  BY <1>1, <1>2, <1>3, UsbAssumption DEF UsbTypeOK, WacTypeOK, Parsing
<1>6. PICK g : Tells(h, f, g) /\ Chain(queue'[PenPort], g, Now)
  BY <1>1, <1>4, <1>5, ChainShrinks DEF Told
<1>7. Reading(f, serial, ch, chan, h, g)
  BY <1>3, <1>4, <1>6 DEF Reading
<1> QED
  BY <1>1, <1>7

\* What a pen's frame makes of the pen's channel
LEMMA PenRead ==
    ASSUME UsbInv, HandInv, NEW f, NEW serial, NEW ch, NEW chan, NEW h, NEW g,
           Reading(f, serial, ch, chan, h, g), PenFrame(h, f, g),
           NEW old, old = channel[PenPort][0]
    PROVE  /\ ch = 0 /\ serial = PenSerial
           /\ chan \in ChannelState /\ chan.work.type \in PenTypes
           /\ chan.work.serial = PenSerial /\ PenRep(chan.work, g.pen)
           /\ chan.work.proximity => PenLike(chan.work)
           /\ old.work.proximity => /\ chan.valid = old.valid /\ chan.nSamples = old.nSamples
                                    /\ chan.work.type = old.work.type
           /\ ParseHeard(PenPort, 0, chan, serial)
<1> DEFINE open == Opened(old)
           n == chan.work
           now == core[PenPort]
<1>1. /\ channel \in [Commons -> [Channels -> ChannelState]]
      /\ f \in Frame /\ chan \in ChannelState /\ Parsing(PenPort, f, serial, ch, chan)
      /\ Told(h) /\ Good(h) /\ Good(g)
  BY DEF UsbInv, UsbTypeOK, Reading, Parsing, Tells
<1>2. /\ PenRep(old.work, h.pen)
      /\ ~IsGraphire => wcmLastToolSerial[PenPort] = 0
  BY <1>1 DEF HandInv, Told
<1>3. f.serial = PenSerial
  BY <1>1, PenFrameSays
<1>4. serial = PenSerial /\ ch = 0
  <2>1. serial = IF f.serial # NoSerial THEN f.serial ELSE wcmLastToolSerial[PenPort]
    BY <1>1 DEF Parsing, SerialOf
  <2>2. serial = PenSerial
    BY <1>2, <1>3, <2>1 DEF PenSerial, NoSerial
  <2>3. ChooseChannel(1) = 0 /\ ChooseChannel(0) = 0
    BY DEF ChooseChannel, PadSerial
  <2>4. ch = ChooseChannel(serial)
    BY <1>1 DEF Parsing
  <2> QED
    BY <2>2, <2>3, <2>4 DEF PenSerial, NoSerial
<1>5. /\ \E distance \in Distances : n = Parsed(open.work, f, serial, distance, now)
      /\ chan.valid = open.valid /\ chan.nSamples = open.nSamples
  BY <1>1, <1>4 DEF Parsing
<1>6. old \in ChannelState /\ h.pen \in PenHand /\ GoodPen(h.pen) /\ GoodPen(g.pen)
  BY <1>1, PenPortTypes DEF Good, Moments
<1>7. /\ open \in ChannelState /\ open.work.proximity = TRUE /\ Shows(open.work, h.pen)
      /\ h.pen.near => open = old
  <2>1. open = Opened(old)
    OBVIOUS
  <2> HIDE DEF open
  <2> QED
    BY <1>2, <1>6, <2>1, OpenedShows
<1>8. open.work \in WorkState /\ old.work \in WorkState
  BY <1>6, <1>7 DEF ChannelState
<1>9. serial \in {0, 1, 2, PadSerial}
  BY <1>1 DEF Parsing
<1> HIDE DEF open, n, now
<1>10. /\ n \in WorkState /\ n.serial = serial /\ n.type = ToolId[ToolBetween(h, g)]
       /\ PenRep(n, g.pen)
  <2> DEFINE w == open.work
  <2>0. PICK distance \in Distances : n = Parsed(w, f, serial, distance, now)
    BY <1>5
  <2>1. /\ w \in WorkState /\ w.proximity = TRUE /\ Shows(w, h.pen)
        /\ n = Parsed(w, f, serial, distance, now)
    BY <1>7, <1>8, <2>0
  <2> HIDE DEF w
  <2>2. QED
    <3>1. Good(h) /\ Good(g) /\ PenFrame(h, f, g) /\ f \in Frame
      BY <1>1
    <3>2. PenSays(n, serial, h, g)
      BY <1>9, <2>1, <3>1, PenParsed
    <3> QED
      BY <3>2 DEF PenSays
<1>11. n.type \in PenTypes
  <2>1. ToolBetween(h, g) \in PenTools
    BY <1>1, PenFrameSays
  <2> QED
    BY <1>10, <2>1, TabletAssumption DEF ToolId, PenTypes
<1>12. n.proximity => PenLike(n)
  BY <1>6, <1>10, PenLikeShown
<1>13. old.work.proximity => /\ chan.valid = old.valid /\ chan.nSamples = old.nSamples
                             /\ chan.work.type = old.work.type
  <2> SUFFICES ASSUME old.work.proximity
               PROVE  /\ chan.valid = old.valid /\ chan.nSamples = old.nSamples
                      /\ chan.work.type = old.work.type
    OBVIOUS
  <2>1. h.pen.near /\ old.work.type = ToolId[h.pen.tool]
    BY <1>2 DEF PenRep, Shows
  <2>2. ToolBetween(h, g) = h.pen.tool
    BY <1>1, <2>1, PenFrameSays
  <2> QED
    BY <1>5, <1>7, <1>10, <2>1, <2>2 DEF n
<1>14. ParseHeard(PenPort, 0, chan, serial)
  BY <1>1, <1>4, <1>11 DEF Parsing, Deaf, PenTypes, n
<1> QED
  BY <1>1, <1>4, <1>10, <1>11, <1>12, <1>13, <1>14 DEF n

\* What a frame of the keys makes of the pad's channel
LEMMA PadRead ==
    ASSUME UsbInv, HandInv, NEW f, NEW serial, NEW ch, NEW chan, NEW h, NEW g,
           Reading(f, serial, ch, chan, h, g), PadFrame(h, f, g),
           NEW pad, pad = MAX_CHANNELS - 1, NEW old, old = channel[PenPort][pad]
    PROVE  /\ ch = pad /\ IsGraphire /\ g.pen = h.pen
           /\ chan \in ChannelState /\ chan.work.type = "PAD"
           /\ chan.work.serial = PadSerial /\ PadRep(chan.work, g.pads)
           /\ chan.valid.proximity => old.work.proximity /\ chan.valid = old.valid
           /\ ParseHeard(PenPort, pad, chan, serial)
<1> DEFINE open == Opened(old)
           n == chan.work
           now == core[PenPort]
<1>1. /\ channel \in [Commons -> [Channels -> ChannelState]]
      /\ f \in Frame /\ chan \in ChannelState /\ Parsing(PenPort, f, serial, ch, chan)
      /\ Told(h) /\ Good(h) /\ Good(g) /\ IsGraphire /\ g.pen = h.pen
  BY DEF UsbInv, UsbTypeOK, Reading, Parsing, Tells, PadFrame
<1>2. PadRep(old.work, h.pads)
  BY <1>1 DEF Told
<1>3. f.serial = PadSerial
  BY <1>1, PadFrameSays
<1>4. serial = PadSerial /\ ch = pad /\ serial \in {0, 1, 2, PadSerial}
  <2>0. serial = SerialOf(PenPort, f)
    BY ONLY <1>1 DEF Parsing
  <2>1. serial = PadSerial
    BY ONLY <1>3, <2>0 DEF SerialOf, PadSerial, NoSerial
  <2>2. ch = ChooseChannel(serial)
    BY <1>1 DEF Parsing
  <2> QED
    BY <2>1, <2>2 DEF ChooseChannel
<1>5. /\ \E distance \in Distances : n = Parsed(open.work, f, serial, distance, now)
      /\ chan.valid = open.valid
  BY <1>1, <1>4 DEF Parsing
<1>6. old \in ChannelState /\ open = Opened(old)
  BY <1>1, PenPortTypes
<1>7. open.valid.proximity => old.work.proximity /\ open.valid = old.valid
  BY DEF Opened, NoneValid
<1> HIDE DEF open, n, now
<1>8. /\ open \in ChannelState /\ open.work.proximity = TRUE
      /\ open.work.buttons = ButtonsOf(h.pads)
      /\ h.pads # {} => open.work.type = "PAD"
  BY <1>2, <1>6, OpenedPad
<1>9. open.work \in WorkState
  BY <1>8 DEF ChannelState
<1>10. n.type = "PAD" /\ n.serial = serial /\ PadRep(n, g.pads)
  <2> DEFINE w == open.work
  <2>0. PICK distance \in Distances : n = Parsed(w, f, serial, distance, now)
    BY <1>5
  <2>1. /\ w \in WorkState /\ w.proximity = TRUE
        /\ n = Parsed(w, f, serial, distance, now)
        /\ w.buttons = ButtonsOf(h.pads)
        /\ h.pads # {} => w.type = "PAD"
    BY <1>8, <1>9, <2>0
  <2>2. PadFrame(h, f, g) /\ Good(h) /\ Good(g) /\ f \in Frame
    BY <1>1
  <2>3. serial \in {0, 1, 2, PadSerial}
    BY <1>4
  <2> HIDE DEF w
  <2>4. PadSays(n, serial, g)
    BY <2>1, <2>2, <2>3, PadParsed
  <2> QED
    BY <2>4 DEF PadSays
<1>11. ParseHeard(PenPort, pad, chan, serial)
  BY <1>1, <1>4, <1>10 DEF Parsing, Deaf, n
<1> QED
  BY <1>1, <1>4, <1>5, <1>7, <1>10, <1>11 DEF n

\* A frame at the pen's port
LEMMA ReadPortHand ==
    ASSUME UsbInv, HandInv, ReadFrame(PenPort)
    PROVE  HandInv'
<1>1. /\ UNCHANGED <<hand, wac, near, core>>
      /\ \E f, serial, ch, chan, h, g : Reading(f, serial, ch, chan, h, g)
  BY FrameTold
<1>2. PICK f, serial, ch, chan, h, g : Reading(f, serial, ch, chan, h, g)
  BY <1>1
<1>3. /\ Parsing(PenPort, f, serial, ch, chan) /\ Told(h) /\ Tells(h, f, g) /\ Good(g)
      /\ Chain(queue'[PenPort], g, Now) /\ Numbered
      /\ ~IsGraphire => wcmLastToolSerial[PenPort] = 0
  BY <1>2 DEF Reading, Tells, HandInv
<1> DEFINE pad == MAX_CHANNELS - 1
<1>4. /\ channel'[PenPort][ch].work = chan.work
      /\ \A i \in Channels : i # ch => channel'[PenPort][i] = channel[PenPort][i]
      /\ wcmLastToolSerial'[PenPort] \in {0, serial}
      /\ Numbered'
  BY <1>3, PenPortTypes, ParsingKeeps
<1>5. 0 \in Channels /\ pad \in Channels /\ pad # 0
  BY PenPortTypes
<1> HIDE DEF pad
<1>6. CASE PenFrame(h, f, g)
  <2>1. ch = 0 /\ serial = PenSerial /\ PenRep(chan.work, g.pen)
    BY <1>2, <1>6, PenRead
  <2>2. PenRep(channel'[PenPort][0].work, g.pen) /\ channel'[PenPort][pad] = channel[PenPort][pad]
    BY <1>4, <1>5, <2>1
  <2>3. ~IsGraphire => wcmLastToolSerial'[PenPort] = 0
    BY <1>4, <2>1 DEF PenSerial, NoSerial
  <2>4. Told(g)'
    BY <1>1, <1>3, <1>6, <2>2, KernelKept DEF Told, PenFrame, pad
  <2> QED
    BY <1>1, <1>4, <2>3, <2>4, KernelKept DEF HandInv
<1>7. CASE PadFrame(h, f, g)
  <2>1. ch = pad /\ IsGraphire /\ g.pen = h.pen /\ PadRep(chan.work, g.pads)
    BY <1>2, <1>7, PadRead DEF pad
  <2>2. PadRep(channel'[PenPort][pad].work, g.pads) /\ channel'[PenPort][0] = channel[PenPort][0]
    BY <1>4, <1>5, <2>1
  <2>3. Told(g)'
    BY <1>1, <1>3, <2>1, <2>2, KernelKept DEF Told, pad
  <2> QED
    BY <1>1, <1>4, <2>1, <2>3, KernelKept DEF HandInv
<1> QED
  BY <1>3, <1>6, <1>7 DEF Tells

\* Every step keeps the invariant.
LEMMA HandStep ==
    ASSUME UsbInv, HandInv, [UsbNext]_allVars
    PROVE  HandInv'
<1>1. CASE Hardware
  BY <1>1, HardwareHand
<1>2. CASE Configure
  BY <1>2, ConfigureHand
<1>3. ASSUME NEW c \in Commons, Read(c)
      PROVE  HandInv'
  <2>1. CASE c = PenPort
    BY <1>3, <2>1, ReadEmptyHand, ReadPortHand DEF Read
  <2>2. CASE c # PenPort
    BY <1>3, <2>2, ReadOtherHand
  <2> QED
    BY <2>1, <2>2
<1>4. CASE UNCHANGED allVars
  BY <1>4, StutterHand
<1> QED
  BY <1>1, <1>2, <1>3, <1>4 DEF UsbNext

\* A step that reads no frame of the pen's port
ReadsNone ==
    \/ Hardware
    \/ Configure
    \/ ReadEmpty(PenPort)
    \/ \E c \in Commons \ {PenPort} : Read(c)
    \/ UNCHANGED allVars

\* The device's record is as it was.
Undisturbed(d) ==
    /\ d \in enabled => d \in enabled'
    /\ priv'[d].oldProximity = priv[d].oldProximity
    /\ priv'[d].oldButtons = priv[d].oldButtons

\* Such a step leaves the port's channels and its devices as they are.
LEMMA ReadsNoneKeeps ==
    ASSUME UsbInv, HandInv, ReadsNone
    PROVE  /\ \A ch \in Channels : channel'[PenPort][ch] = channel[PenPort][ch]
           /\ \A d \in Devices : DevType[d] # "TOUCH" /\ Common[d] = PenPort => Undisturbed(d)
<1>1. CASE UNCHANGED vars /\ channel' = channel
  BY <1>1 DEF vars, Undisturbed
<1>2. CASE Configure
  <2>1. IInv /\ CarefulSettings /\ channel' = channel
    BY <1>2 DEF UsbInv, Configure, usbVars
  <2>2. \A d \in Devices : Undisturbed(d)
    BY <2>1, SettingKeeps DEF Undisturbed
  <2> QED
    BY <2>1, <2>2
<1>3. ASSUME NEW c \in Commons, c # PenPort, Read(c)
      PROVE  /\ \A ch \in Channels : channel'[PenPort][ch] = channel[PenPort][ch]
             /\ \A d \in Devices : DevType[d] # "TOUCH" /\ Common[d] = PenPort => Undisturbed(d)
  <2>1. \A ch \in Channels : channel'[PenPort][ch] = channel[PenPort][ch]
    BY <1>3, ReadOtherHand
  <2>2. CASE ReadEmpty(c)
    BY <2>1, <2>2 DEF ReadEmpty, vars, Undisturbed
  <2>3. CASE ReadFrame(c)
    <3>1. PICK f, serial, ch, chan : Parsing(c, f, serial, ch, chan)
      BY <2>3, FrameParsed DEF UsbInv
    <3>2. ASSUME NEW d \in Devices, DevType[d] # "TOUCH", Common[d] = PenPort
          PROVE  enabled' = enabled /\ priv'[d] = priv[d]
      <4>1. Elsewhere(c, chan.work.type, d)
        BY <1>3, <3>2 DEF Elsewhere
      <4> QED
        BY <3>1, <3>2, <4>1, ParsingElsewhere
    <3> QED
      BY <2>1, <3>2 DEF Undisturbed
  <2> QED
    BY <1>3, <2>2, <2>3 DEF Read
<1> QED
  BY <1>1, <1>2, <1>3 DEF ReadsNone, Hardware, ReadEmpty, usbVars, allVars

\* All other steps read one.
LEMMA ReadsOrNot ==
    ASSUME [UsbNext]_allVars
    PROVE  ReadsNone \/ ReadFrame(PenPort)
  BY DEF UsbNext, ReadsNone, Read

\* The pens' records follow their channel.
LEMMA PensStep ==
    ASSUME UsbInv, HandInv, PensInv, PensAtPort, Unshared, [UsbNext]_allVars
    PROVE  PensInv'
<1>1. ASSUME channel'[PenPort][0] = channel[PenPort][0], \A d \in Pens : Undisturbed(d)
      PROVE  PensInv'
  BY <1>1 DEF PensInv, PensIn, Undisturbed
<1>2. \A d \in Pens : d \in Devices /\ DevType[d] \in PenTypes /\ Common[d] = PenPort
  BY DEF Pens, PenTypes, PensAtPort
<1>3. CASE ReadsNone
  <2>1. \A d \in Pens : Undisturbed(d)
    BY <1>2, <1>3, ReadsNoneKeeps DEF PenTypes
  <2> QED
    BY <1>1, <1>3, <2>1, ReadsNoneKeeps, PenPortTypes
<1>4. CASE ReadFrame(PenPort)
  <2>1. PICK f, serial, ch, chan, h, g : Reading(f, serial, ch, chan, h, g)
    BY <1>4, FrameTold
  <2>2. /\ Parsing(PenPort, f, serial, ch, chan) /\ Numbered
        /\ PenFrame(h, f, g) \/ PadFrame(h, f, g)
    BY <2>1 DEF Reading, Tells, HandInv
  <2>3. CASE PenFrame(h, f, g)
    <3> DEFINE old == channel[PenPort][0]
    <3>1. /\ ch = 0 /\ serial = PenSerial
          /\ chan \in ChannelState /\ chan.work.type \in PenTypes
          /\ chan.work.serial = PenSerial
          /\ chan.work.proximity => PenLike(chan.work)
          /\ old.work.proximity => /\ chan.valid = old.valid /\ chan.nSamples = old.nSamples
                                   /\ chan.work.type = old.work.type
          /\ ParseHeard(PenPort, 0, chan, serial)
      BY <2>1, <2>3, PenRead
    <3>2. IInv /\ channel \in [Commons -> [Channels -> ChannelState]] /\ PensIn(old)
      BY DEF UsbInv, UsbTypeOK, PensInv
    <3>3. \/ Discard(PenPort, 0, chan)
          \/ DiscardJump(PenPort, 0, chan)
          \/ Suppress(PenPort, 0, chan)
          \/ Use(PenPort, 0, chan)
      BY <3>1 DEF ParseHeard
    <3>4. old = channel[PenPort][0]
      OBVIOUS
    <3> HIDE DEF old
    <3>5. PensIn(channel[PenPort][0])'
      BY <2>2, <3>1, <3>2, <3>3, <3>4, PenPortTypes, HeardPen
    <3> QED
      BY <3>5 DEF PensInv
  <2>4. CASE PadFrame(h, f, g)
    <3>1. ch = MAX_CHANNELS - 1 /\ chan.work.type = "PAD"
      BY <2>1, <2>4, PadRead
    <3>2. channel'[PenPort][0] = channel[PenPort][0]
      <4>1. \A i \in Channels : i # ch => channel'[PenPort][i] = channel[PenPort][i]
        BY <2>2, PenPortTypes, ParsingKeeps
      <4> QED
        BY <3>1, <4>1, PenPortTypes
    <3>3. ASSUME NEW d \in Pens
          PROVE  enabled' = enabled /\ priv'[d] = priv[d]
      <4>1. d \in Devices /\ DevType[d] # "TOUCH" /\ Elsewhere(PenPort, chan.work.type, d)
        BY <1>2, <3>1 DEF Elsewhere, PenTypes
      <4> QED
        BY <2>2, <4>1, PenPortTypes, ParsingElsewhere
    <3> QED
      BY <1>1, <3>2, <3>3 DEF Undisturbed
  <2> QED
    BY <2>2, <2>3, <2>4
<1> QED
  BY <1>3, <1>4, ReadsOrNot

\* So do the pads' of a Graphire.
LEMMA PadsStep ==
    ASSUME UsbInv, HandInv, PadsInv, PadsHere, [UsbNext]_allVars
    PROVE  PadsInv'
<1> DEFINE pad == MAX_CHANNELS - 1
<1>1. ASSUME channel'[PenPort][pad] = channel[PenPort][pad], \A d \in Pads : Undisturbed(d)
      PROVE  PadsInv'
  BY <1>1 DEF PadsInv, PadsIn, Undisturbed
<1>2. \A d \in Pads : d \in Devices /\ DevType[d] = "PAD" /\ Common[d] = PenPort
  BY TabletAssumption DEF Pads, PadsHere, PadsReached, IsGraphire
<1>3. pad \in Channels /\ pad # 0 /\ pad = MAX_CHANNELS - 1
  BY PenPortTypes
<1>4. CASE ReadsNone
  <2>1. \A d \in Pads : Undisturbed(d)
    BY <1>2, <1>4, ReadsNoneKeeps
  <2> QED
    BY <1>1, <1>3, <1>4, <2>1, ReadsNoneKeeps
<1>5. CASE ReadFrame(PenPort)
  <2>1. PICK f, serial, ch, chan, h, g : Reading(f, serial, ch, chan, h, g)
    BY <1>5, FrameTold
  <2>2. /\ Parsing(PenPort, f, serial, ch, chan) /\ Numbered
        /\ PenFrame(h, f, g) \/ PadFrame(h, f, g)
    BY <2>1 DEF Reading, Tells, HandInv
  <2>3. CASE PenFrame(h, f, g)
    <3>1. ch = 0 /\ chan.work.type \in PenTypes
      BY <2>1, <2>3, PenRead
    <3>2. channel'[PenPort][pad] = channel[PenPort][pad]
      <4>1. \A i \in Channels : i # ch => channel'[PenPort][i] = channel[PenPort][i]
        BY <2>2, PenPortTypes, ParsingKeeps
      <4> QED
        BY <1>3, <3>1, <4>1
    <3>3. ASSUME NEW d \in Pads
          PROVE  enabled' = enabled /\ priv'[d] = priv[d]
      <4>1. d \in Devices /\ DevType[d] # "TOUCH" /\ Elsewhere(PenPort, chan.work.type, d)
        BY <1>2, <3>1 DEF Elsewhere, PenTypes
      <4> QED
        BY <2>2, <4>1, PenPortTypes, ParsingElsewhere
    <3> QED
      BY <1>1, <3>2, <3>3 DEF Undisturbed
  <2>4. CASE PadFrame(h, f, g)
    <3> DEFINE old == channel[PenPort][pad]
    <3> HIDE DEF pad
    <3>1. /\ chan \in ChannelState /\ chan.work.type = "PAD" /\ chan.work.serial = PadSerial
          /\ chan.valid.proximity => old.work.proximity /\ chan.valid = old.valid
          /\ ParseHeard(PenPort, pad, chan, serial)
      BY <1>3, <2>1, <2>4, PadRead
    <3>2. IInv /\ channel \in [Commons -> [Channels -> ChannelState]] /\ PadsIn(old)
      BY DEF UsbInv, UsbTypeOK, PadsInv, pad
    <3>3. \/ Discard(PenPort, pad, chan)
          \/ DiscardJump(PenPort, pad, chan)
          \/ Suppress(PenPort, pad, chan)
          \/ Use(PenPort, pad, chan)
      BY <3>1 DEF ParseHeard
    <3>4. old = channel[PenPort][pad]
      OBVIOUS
    <3> HIDE DEF old
    <3>5. PadsIn(channel[PenPort][pad])'
      BY <1>3, <2>2, <3>1, <3>2, <3>3, <3>4, PenPortTypes, HeardPad
    <3> QED
      BY <3>5 DEF PadsInv, pad
  <2> QED
    BY <2>2, <2>3, <2>4
<1> QED
  BY <1>4, <1>5, ReadsOrNot

\* When nothing is unread, the pen's channel shows the pen that is in the hand.
LEMMA HandShown ==
    ASSUME HandInv, PensInv, TipFelt
    PROVE  PenFollowsHand
<1> SUFFICES ASSUME queue[PenPort] = <<>>, NEW d \in Pens, priv[d].oldProximity
             PROVE  /\ hand.pen.near /\ DevType[d] = ToolId[hand.pen.tool]
                    /\ priv[d].oldButtons = HandButtons
  BY DEF PenFollowsHand
<1> DEFINE w == channel[PenPort][0].work
<1>1. PICK h : Told(h)
  BY DEF HandInv
<1>2. h = Now
  BY <1>1, NoChain DEF Told
<1>3. PenRep(w, hand.pen)
  BY <1>1, <1>2, NowFields DEF Told
<1>4. w.proximity /\ DevType[d] = w.type /\ priv[d].oldButtons = Presses(w)
  BY DEF PensInv, PensIn
<1> HIDE DEF w
<1>5. /\ hand.pen.near /\ w.type = ToolId[hand.pen.tool]
      /\ w.buttons = ButtonsOf(hand.pen.pressed)
      /\ w.pressed <=> "ABS_PRESSURE" \in hand.pen.pressed
  BY <1>3, <1>4 DEF PenRep, Shows
<1>6. Presses(w) = HandButtons
  BY <1>5 DEF Presses, HandButtons
<1> QED
  BY <1>4, <1>5, <1>6

\* The pad's channel shows the keys.
LEMMA KeysShown ==
    ASSUME UsbInv, HandInv, PadsInv, PadsHere
    PROVE  PadFollowsHand
<1>1. PenPort = TouchPort /\ IsGraphire
  BY TabletAssumption DEF PadsHere, IsGraphire
<1> SUFFICES ASSUME queue[PenPort] = <<>>, NEW d \in Pads
             PROVE  priv[d].oldButtons = ButtonsOf(hand.pads)
  BY <1>1 DEF PadFollowsHand, Pads, UsbInv, IInv, TypeOK
<1>2. PICK h : Told(h)
  BY DEF HandInv
<1>3. h = Now
  BY <1>2, NoChain DEF Told
<1>4. PadRep(channel[PenPort][MAX_CHANNELS - 1].work, hand.pads)
  BY <1>1, <1>2, <1>3 DEF Told, Now
<1> QED
  BY <1>4 DEF PadsInv, PadsIn, PadRep

-----------------------------------------------------------------------------
(* The fingers, whose frames come by the other port: a frame tells whether *)
(* its finger is down, or is down already.                                 *)

\* The fingers of a set of switches
FingersOf(on) == {f \in {1, 2} : FingerTool[f] \in on}
FingersNow == FingersOf(core[TouchPort].on)

\* Frame f tells the fingers b from the fingers a before it.
TellsFinger(a, f, b) ==
    LET key == FingerTool[f.serial]
    IN  /\ f.serial \in {1, 2} /\ f.miscFirst = TRUE
        /\ f.misc \in {NoMisc, NoId, "TOUCH"}
        /\ b \ {f.serial} = a \ {f.serial}
        /\ \/ f.on = {key} /\ f.off = {} /\ f.serial \in b
           \/ f.on = {} /\ f.off = {key} /\ f.serial \notin b
           \/ f.on = {} /\ f.off = {} /\ f.misc # NoId /\ f.serial \in a \cap b

FingerLinks ==
    {l \in (SUBSET {1, 2}) \X Frame \X (SUBSET {1, 2}) : TellsFinger(l[1], l[2], l[3])}
FingerChain(q, a, b) == Linked(SUBSET {1, 2}, FingerLinks, q, a, b)

\* The port's channels show the fingers a.
ShowsFingers(a) ==
    \A f \in {1, 2} :
      LET w == channel[TouchPort][f - 1].work
      IN  (w.proximity <=> f \in a) /\ (f \in a => w.type = "TOUCH")

\* Of no other port than the pen's and the fingers' are there frames.
FingerKernel ==
    /\ wac.fingers = FingersNow
    /\ wac.touchId \in {NoId, "TOUCH"} /\ core[TouchPort].misc \in {NoId, "TOUCH"}
    /\ wac.fingers = {} \/ wac.touchId = NoId => core[TouchPort].misc = NoId
    /\ features = "BAMBOO_PT" => wac.pad = FALSE
    /\ \A c \in Commons \ {PenPort, TouchPort} : queue[c] = <<>>

FingersTold ==
    \E a \in SUBSET {1, 2} : FingerChain(queue[TouchPort], a, FingersNow) /\ ShowsFingers(a)

FingerInv == FingerKernel /\ FingersTold

\* The two fingers have keys of their own, and the port is one.
LEMMA FingerKeys ==
    /\ FingerTool[1] = "BTN_TOOL_DOUBLETAP" /\ FingerTool[2] = "BTN_TOOL_TRIPLETAP"
    /\ FingerTool[1] # FingerTool[2]
    /\ \A f \in {1, 2} : FingerTool[f] \in DOMAIN KeyType /\ KeyType[FingerTool[f]] = "TOUCH"
    /\ PenPort \in Commons /\ TouchPort \in Commons /\ PenPort \in Ports /\ TouchPort \in Ports
    /\ Fingers \subseteq {1, 2}
    /\ \A f \in {1, 2} : f - 1 \in Channels /\ f # NoSerial
  BY TabletAssumption, UsbAssumption
  DEF FingerTool, KeyType, ToolKeys, ToolId, Channels, MAX_CHANNELS, NoSerial

\* A report with a serial number is a frame, whatever it changes.
LEMMA NumberedSent ==
    ASSUME NEW input \in Inputs, NEW r \in Reports, r.serial \in {1, 2},
           NEW a, FingerChain(input.out, a, FingersOf(input.core.on)),
           NEW new, new = Send(input, r),
           TellsFinger(FingersOf(input.core.on), Changes(input.core, r), FingersOf(new.core.on))
    PROVE  new \in Inputs /\ FingerChain(new.out, a, FingersOf(new.core.on))
<1> DEFINE frame == Changes(input.core, r)
           b == FingersOf(input.core.on)
           c == FingersOf(new.core.on)
<1>1. frame \in Frame /\ frame.serial = r.serial
  BY DEF Changes, Inputs, Reports, Frame
<1>2. ~Silent(frame)
  BY <1>1 DEF Silent, NoSerial
<1>3. new.out = Append(input.out, frame)
  BY <1>2 DEF Send
<1>4. input.out \in Seq(Frame) /\ new \in Inputs
  BY SendType DEF Inputs
<1>5. b \in SUBSET {1, 2} /\ c \in SUBSET {1, 2}
  BY DEF FingersOf
<1>6. TellsFinger(b, frame, c)
  OBVIOUS
<1>7. Linked(SUBSET {1, 2}, FingerLinks, input.out, a, b)
  BY DEF FingerChain
<1> HIDE DEF frame, b, c
<1>8. <<b, frame, c>> \in FingerLinks
  BY <1>1, <1>5, <1>6 DEF FingerLinks
<1>9. Linked(SUBSET {1, 2}, FingerLinks, Append(input.out, frame), a, c)
  BY <1>1, <1>4, <1>5, <1>7, <1>8, LinkGrows
<1> QED
  BY <1>3, <1>4, <1>9 DEF FingerChain, c

\* What is passed on of a report, and what sending it makes of the input core
LEMMA ReportChanges ==
    ASSUME NEW c, NEW on, NEW off, NEW misc, NEW first, NEW serial, NEW axes
    PROVE  LET frame == Changes(c, Report(on, off, misc, first, serial, axes))
           IN  /\ frame.on = on \ c.on /\ frame.off = off \cap c.on
               /\ frame.misc = IF misc = c.misc THEN NoMisc ELSE misc
               /\ frame.miscFirst = first /\ frame.serial = serial
<1> DEFINE r == Report(on, off, misc, first, serial, axes)
<1>1. Changes(c, r) = [on |-> on \ c.on, off |-> off \cap c.on,
                       misc |-> IF misc = c.misc THEN NoMisc ELSE misc,
                       miscFirst |-> first, serial |-> serial, axes |-> axes]
  BY StoredIs
<1> HIDE DEF r
<1>2. /\ Changes(c, r).on = on \ c.on /\ Changes(c, r).off = off \cap c.on
      /\ Changes(c, r).misc = IF misc = c.misc THEN NoMisc ELSE misc
      /\ Changes(c, r).miscFirst = first /\ Changes(c, r).serial = serial
  BY <1>1
<1> QED
  BY <1>2 DEF r

LEMMA SendReport ==
    ASSUME NEW input, NEW on, NEW off, NEW misc, NEW first, NEW serial, NEW axes
    PROVE  LET new == Send(input, Report(on, off, misc, first, serial, axes))
           IN  new.core.on = (input.core.on \cup on) \ off /\ new.core.misc = misc
<1> DEFINE c == input.core
           r == Report(on, off, misc, first, serial, axes)
           new == Send(input, r)
<1>1. new.core = Stored(c, r)
  BY DEF Send
<1> HIDE DEF c, new
<1>2. Stored(c, r).on = (c.on \cup on) \ off /\ Stored(c, r).misc = misc
  BY StoredIs
<1> HIDE DEF r
<1> QED
  BY <1>1, <1>2 DEF r, new, c

\* The finger is down afterwards if the report says so and no pen is near.
FingerSays(input, f, fingers, id, new) ==
    IF f \in fingers /\ ~near
    THEN /\ FingersOf(new.core.on) = FingersOf(input.core.on) \cup {f}
         /\ new.core.misc = id
    ELSE /\ FingersOf(new.core.on) = FingersOf(input.core.on) \ {f}
         /\ new.core.misc = IF f \in wac.fingers THEN NoId ELSE input.core.misc

\* One finger of a report
LEMMA FingerSent ==
    ASSUME NEW input \in Inputs, NEW a, FingerChain(input.out, a, FingersOf(input.core.on)),
           NEW f \in {1, 2}, NEW fingers, NEW id \in {NoId, "TOUCH"}, NEW axes \in BOOLEAN,
           input.core.misc \in {NoId, "TOUCH"}, id = NoId => input.core.misc = NoId,
           f \in wac.fingers <=> f \in FingersOf(input.core.on),
           NEW new, new = SendFinger(input, f, fingers, id, axes)
    PROVE  new \in Inputs /\ FingerChain(new.out, a, FingersOf(new.core.on))
           /\ FingerSays(input, f, fingers, id, new)
<1> DEFINE key == FingerTool[f]
           other == FingerTool[3 - f]
           on == input.core.on
<1>1. /\ key \in Switches /\ key # other /\ 3 - f \in {1, 2} /\ f # 3 - f
      /\ \A g \in {1, 2} : g = f \/ g = 3 - f
  BY FingerKeys, SwitchTypes
<1>2. \A s : FingersOf(s) = (IF key \in s THEN {f} ELSE {}) \cup (IF other \in s THEN {3 - f} ELSE {})
  BY <1>1 DEF FingersOf
<1>3. "TOUCH" # NoId /\ NoMisc \notin {NoId, "TOUCH"}
  BY DEF NoId, NoMisc
<1>4. CASE f \in fingers /\ ~near
  <2> DEFINE r == FingerIn(f, id, axes)
  <2>1. new = Send(input, r) /\ r = Report({key}, {}, id, TRUE, f, axes)
    BY <1>4 DEF SendFinger, FingerIn
  <2>2. r \in Reports /\ r.serial = f
    BY <1>1, <2>1 DEF Report, Reports, Ids
  <2>3. /\ new.core.on = on \cup {key} /\ new.core.misc = id
        /\ Changes(input.core, r).on = {key} \ on /\ Changes(input.core, r).off = {}
        /\ Changes(input.core, r).misc = IF id = input.core.misc THEN NoMisc ELSE id
        /\ Changes(input.core, r).miscFirst = TRUE /\ Changes(input.core, r).serial = f
    <3> DEFINE first == TRUE
    <3>0. new = Send(input, r) /\ r = Report({key}, {}, id, first, f, axes)
      BY <2>1
    <3> HIDE DEF r, key, first
    <3>1. /\ Send(input, r).core.on = (input.core.on \cup {key}) \ {}
          /\ Send(input, r).core.misc = id
      BY <3>0, SendReport
    <3>2. /\ Changes(input.core, r).on = {key} \ input.core.on
          /\ Changes(input.core, r).off = {} \cap input.core.on
          /\ Changes(input.core, r).misc = IF id = input.core.misc THEN NoMisc ELSE id
          /\ Changes(input.core, r).miscFirst = first /\ Changes(input.core, r).serial = f
      BY <3>0, ReportChanges
    <3> QED
      BY <3>0, <3>1, <3>2 DEF first
  <2>4. FingersOf(new.core.on) = FingersOf(on) \cup {f} /\ (f \in FingersOf(on) <=> key \in on)
    BY <1>1, <1>2, <2>3
  <2>5. TellsFinger(FingersOf(on), Changes(input.core, r), FingersOf(new.core.on))
    <3> DEFINE b == FingersOf(on)
               c == FingersOf(new.core.on)
               frame == Changes(input.core, r)
    <3> SUFFICES TellsFinger(b, frame, c)
      OBVIOUS
    <3>1. c = b \cup {f} /\ (f \in b <=> key \in on)
      BY <2>4
    <3>2. /\ frame.on = {key} \ on /\ frame.off = {} /\ frame.serial = f
          /\ frame.miscFirst = TRUE
          /\ frame.misc = IF id = input.core.misc THEN NoMisc ELSE id
      BY <2>3
    <3>3. frame.misc \in {NoMisc, "TOUCH"}
      BY <3>2
    <3> HIDE DEF b, c, frame
    <3>4. IF f \in b THEN frame.on = {} ELSE frame.on = {key}
      BY <3>1, <3>2
    <3>5. frame.misc # NoId /\ f \in c /\ c \ {f} = b \ {f}
      BY <1>3, <3>1, <3>3
    <3> HIDE DEF key
    <3>6. CASE f \in b
      BY <3>2, <3>3, <3>4, <3>5, <3>6 DEF TellsFinger
    <3>7. CASE f \notin b
      BY <3>2, <3>3, <3>4, <3>5, <3>7 DEF TellsFinger, key
    <3> QED
      BY <3>6, <3>7
  <2> HIDE DEF r
  <2>6. new \in Inputs /\ FingerChain(new.out, a, FingersOf(new.core.on))
    BY <2>1, <2>2, <2>5, NumberedSent
  <2> QED
    BY <1>4, <2>3, <2>4, <2>6 DEF FingerSays
<1>5. CASE ~(f \in fingers /\ ~near) /\ f \in wac.fingers
  <2> DEFINE r == FingerOut(f)
  <2>1. new = Send(input, r) /\ r = Report({}, {key}, NoId, TRUE, f, FALSE)
    BY <1>5 DEF SendFinger, FingerOut
  <2>2. r \in Reports /\ r.serial = f
    BY <1>1, <2>1 DEF Report, Reports
  <2>3. /\ new.core.on = on \ {key} /\ new.core.misc = NoId
        /\ Changes(input.core, r).on = {} /\ Changes(input.core, r).off = {key} \cap on
        /\ Changes(input.core, r).misc = IF NoId = input.core.misc THEN NoMisc ELSE NoId
        /\ Changes(input.core, r).miscFirst = TRUE /\ Changes(input.core, r).serial = f
    <3> DEFINE first == TRUE
               moved == FALSE
    <3>0. new = Send(input, r) /\ r = Report({}, {key}, NoId, first, f, moved)
      BY <2>1
    <3> HIDE DEF r, key, first, moved
    <3>1. /\ Send(input, r).core.on = (input.core.on \cup {}) \ {key}
          /\ Send(input, r).core.misc = NoId
      BY <3>0, SendReport
    <3>2. /\ Changes(input.core, r).on = {} \ input.core.on
          /\ Changes(input.core, r).off = {key} \cap input.core.on
          /\ Changes(input.core, r).misc = IF NoId = input.core.misc THEN NoMisc ELSE NoId
          /\ Changes(input.core, r).miscFirst = first /\ Changes(input.core, r).serial = f
      BY <3>0, ReportChanges
    <3> QED
      BY <3>0, <3>1, <3>2 DEF first
  <2>4. FingersOf(new.core.on) = FingersOf(on) \ {f} /\ key \in on
    BY <1>1, <1>2, <1>5, <2>3
  <2>5. TellsFinger(FingersOf(on), Changes(input.core, r), FingersOf(new.core.on))
    <3> DEFINE b == FingersOf(on)
               c == FingersOf(new.core.on)
               frame == Changes(input.core, r)
    <3> SUFFICES TellsFinger(b, frame, c)
      OBVIOUS
    <3>1. c = b \ {f}
      BY <2>4
    <3>2. /\ frame.on = {} /\ frame.off = {key} /\ frame.serial = f
          /\ frame.miscFirst = TRUE
          /\ frame.misc = IF NoId = input.core.misc THEN NoMisc ELSE NoId
      BY <2>3, <2>4
    <3> HIDE DEF b, c, frame
    <3>3. f \notin c /\ c \ {f} = b \ {f} /\ frame.misc \in {NoMisc, NoId}
      BY <3>1, <3>2
    <3> QED
      BY <3>2, <3>3 DEF TellsFinger, key
  <2> HIDE DEF r
  <2>6. new \in Inputs /\ FingerChain(new.out, a, FingersOf(new.core.on))
    BY <2>1, <2>2, <2>5, NumberedSent
  <2> QED
    BY <1>5, <2>3, <2>4, <2>6 DEF FingerSays
<1>6. CASE ~(f \in fingers /\ ~near) /\ f \notin wac.fingers
  <2>1. new = input
    BY <1>6 DEF SendFinger
  <2> QED
    BY <1>6, <2>1 DEF FingerSays
<1> QED
  BY <1>4, <1>5, <1>6

\* wacom_tpc_irq and wacom_bpt_irq, touch reports, without express keys
LEMMA TouchMovesFingers ==
    ASSUME WacTypeOK, FingerKernel, FingersAlone, TouchMoves,
           NEW a, FingerChain(queue[TouchPort], a, FingersNow)
    PROVE  FingerKernel' /\ FingerChain(queue[TouchPort], a, FingersNow)'
<1>1. PICK fingers \in SUBSET Fingers, pads \in SUBSET PadKeys, axes \in Axes :
        TouchPacket(fingers, pads, axes)
  BY DEF TouchMoves
<1> DEFINE input == Input(TouchPort)
           id == IF features = "TABLETPC2FG" \/ 1 \in fingers THEN "TOUCH" ELSE wac.touchId
           first == SendFinger(input, 1, fingers, id, axes)
           second == SendFinger(first, 2, fingers, id, axes)
<1>2. /\ axes \in BOOLEAN /\ TouchPort \in Ports /\ TouchPort \in Commons
      /\ fingers \in SUBSET {1, 2} /\ wac.fingers \in SUBSET {1, 2}
      /\ id \in {NoId, "TOUCH"} /\ (id = NoId => core[TouchPort].misc = NoId)
  BY TabletAssumption, FingerKeys DEF FingerKernel, FingersNow, FingersOf
<1>3. features = "BAMBOO_PT" => pads = {} /\ wac.pad = FALSE
  BY DEF FingersAlone, FingerKernel
<1>4. (IF features = "BAMBOO_PT" THEN SendBambooPad(Input(TouchPort), pads) ELSE Input(TouchPort))
        = input
  BY <1>3 DEF SendBambooPad
<1>5. /\ Deliver(TouchPort, second)
      /\ wac' = [wac EXCEPT
                   !.pad = pads # {},
                   !.fingers = IF near THEN {} ELSE fingers,
                   !.touchId = IF near THEN @ ELSE IF fingers = {} THEN NoId ELSE id]
  BY <1>1, <1>4 DEF TouchPacket
<1>6. /\ input \in Inputs /\ input.core = core[TouchPort] /\ input.out = queue[TouchPort]
      /\ FingersOf(input.core.on) = wac.fingers /\ input.core.misc \in {NoId, "TOUCH"}
  BY <1>2, InputType DEF Input, FingerKernel, FingersNow
<1>7. FingerChain(input.out, a, FingersOf(input.core.on))
  BY <1>6 DEF FingersNow
<1> HIDE DEF input, id
<1>8. /\ first \in Inputs
      /\ FingerChain(first.out, a, FingersOf(first.core.on))
      /\ IF 1 \in fingers /\ ~near
         THEN /\ FingersOf(first.core.on) = wac.fingers \cup {1}
              /\ first.core.misc = id
         ELSE /\ FingersOf(first.core.on) = wac.fingers \ {1}
              /\ first.core.misc = IF 1 \in wac.fingers THEN NoId ELSE core[TouchPort].misc
  <2>1. /\ 1 \in {1, 2} /\ input.core.misc \in {NoId, "TOUCH"}
        /\ id = NoId => input.core.misc = NoId
        /\ 1 \in wac.fingers <=> 1 \in FingersOf(input.core.on)
        /\ first = SendFinger(input, 1, fingers, id, axes)
    BY <1>2, <1>6
  <2> HIDE DEF first
  <2>2. first \in Inputs /\ FingerChain(first.out, a, FingersOf(first.core.on))
        /\ FingerSays(input, 1, fingers, id, first)
    BY <1>2, <1>6, <1>7, <2>1, FingerSent
  <2> QED
    BY <1>6, <2>2 DEF FingerSays
<1>9. /\ first.core.misc \in {NoId, "TOUCH"} /\ (id = NoId => first.core.misc = NoId)
      /\ (2 \in wac.fingers <=> 2 \in FingersOf(first.core.on))
  BY <1>2, <1>6, <1>8
<1> HIDE DEF first
<1>10. /\ second \in Inputs
       /\ FingerChain(second.out, a, FingersOf(second.core.on))
       /\ IF 2 \in fingers /\ ~near
          THEN /\ FingersOf(second.core.on) = FingersOf(first.core.on) \cup {2}
               /\ second.core.misc = id
          ELSE /\ FingersOf(second.core.on) = FingersOf(first.core.on) \ {2}
               /\ second.core.misc = IF 2 \in wac.fingers THEN NoId ELSE first.core.misc
  <2>1. 2 \in {1, 2} /\ second = SendFinger(first, 2, fingers, id, axes)
    OBVIOUS
  <2> HIDE DEF second
  <2>2. second \in Inputs /\ FingerChain(second.out, a, FingersOf(second.core.on))
        /\ FingerSays(first, 2, fingers, id, second)
    BY <1>2, <1>8, <1>9, <2>1, FingerSent
  <2> QED
    BY <2>2 DEF FingerSays
<1> HIDE DEF second
<1>11. /\ core'[TouchPort] = second.core /\ queue'[TouchPort] = second.out
       /\ \A c \in Commons \ {TouchPort} : queue'[c] = queue[c]
  BY <1>2, <1>5, UsbAssumption DEF Deliver, WacTypeOK
<1>12. /\ wac'.fingers = (IF near THEN {} ELSE fingers) /\ wac'.pad = (pads # {})
       /\ wac'.touchId = IF near THEN wac.touchId ELSE IF fingers = {} THEN NoId ELSE id
  BY <1>5 DEF WacTypeOK
<1>13. FingersOf(second.core.on) = IF near THEN {} ELSE fingers
  <2>1. ASSUME NEW s \in SUBSET {1, 2}, NEW g \in SUBSET {1, 2},
               1 \in s <=> 1 \in g, 2 \in s <=> 2 \in g
        PROVE  s = g
    <3>1. \A i : i \in s <=> i \in g
      BY <2>1
    <3> QED
      BY <3>1, SetExtensionality
  <2>2. FingersOf(second.core.on) \in SUBSET {1, 2}
    BY DEF FingersOf
  <2> QED
    BY <1>2, <1>8, <1>10, <2>1, <2>2
<1>14. /\ second.core.misc \in {NoId, "TOUCH"}
       /\ wac'.fingers = {} \/ wac'.touchId = NoId => second.core.misc = NoId
  <2>1. core[TouchPort].misc \in {NoId, "TOUCH"}
        /\ (wac.fingers = {} \/ wac.touchId = NoId => core[TouchPort].misc = NoId)
    BY DEF FingerKernel
  <2>2. wac.fingers = {} \/ 1 \in wac.fingers \/ 2 \in wac.fingers
    BY <1>2
  <2>3. CASE near
    BY <1>8, <1>10, <2>1, <2>2, <2>3
  <2>4. CASE ~near /\ fingers = {}
    BY <1>8, <1>10, <2>1, <2>2, <2>4
  <2>5. CASE ~near /\ fingers # {}
    BY <1>2, <1>9, <1>10, <1>12, <2>5
  <2> QED
    BY <2>3, <2>4, <2>5
<1>15. FingersNow' = FingersOf(second.core.on)
  BY <1>11 DEF FingersNow
<1>16. FingerKernel'
  <2>1. wac'.fingers = FingersNow'
    BY <1>12, <1>13, <1>15
  <2>2. wac'.touchId \in {NoId, "TOUCH"}
    BY <1>2, <1>12 DEF FingerKernel
  <2>3. features = "BAMBOO_PT" => wac'.pad = FALSE
    BY <1>3, <1>12
  <2> QED
    BY <1>11, <1>14, <2>1, <2>2, <2>3 DEF FingerKernel
<1> QED
  BY <1>10, <1>11, <1>15, <1>16

\* The pen's reports tell nothing of the fingers.
LEMMA HardwareFingers ==
    ASSUME UsbTypeOK, FingerInv, FingersAlone, Hardware
    PROVE  FingerInv'
<1>1. WacTypeOK /\ WacNext /\ channel' = channel
  BY DEF UsbTypeOK, Hardware, usbVars
<1>2. PICK a \in SUBSET {1, 2} : FingerChain(queue[TouchPort], a, FingersNow) /\ ShowsFingers(a)
  BY DEF FingerInv, FingersTold
<1>3. ShowsFingers(a)'
  BY <1>1, <1>2 DEF ShowsFingers
<1>4. CASE PenMoves
  <2>1. PICK pen \in PenNext, axes \in Axes : PenPacket(pen, axes)
    BY <1>4 DEF PenMoves
  <2>2. /\ wac'.fingers = wac.fingers /\ wac'.touchId = wac.touchId /\ wac'.pad = wac.pad
        /\ \A c \in Commons \ {PenPort} : core'[c] = core[c] /\ queue'[c] = queue[c]
    BY <1>1, <2>1, UsbAssumption DEF PenPacket, Deliver, WacTypeOK
  <2>3. TouchPort \in Commons /\ TouchPort # PenPort
    BY FingerKeys DEF FingersAlone
  <2>4. FingersNow' = FingersNow /\ queue'[TouchPort] = queue[TouchPort]
    BY <2>2, <2>3 DEF FingersNow
  <2>5. FingerKernel'
    BY <2>2, <2>3, <2>4 DEF FingerInv, FingerKernel
  <2> QED
    BY <1>2, <1>3, <2>4, <2>5 DEF FingerInv, FingersTold
<1>5. CASE TouchMoves
  <2>1. FingerKernel' /\ FingerChain(queue[TouchPort], a, FingersNow)'
    BY <1>1, <1>2, <1>5, TouchMovesFingers DEF FingerInv
  <2> QED
    BY <1>3, <2>1 DEF FingerInv, FingersTold
<1>6. CASE GraphireMoves
  BY <1>6, TabletAssumption DEF GraphireMoves, FingersAlone
<1> QED
  BY <1>1, <1>4, <1>5, <1>6 DEF WacNext

\* A finger's frame, and the channel's state it is read into
FingerStamps(a, f, b, w, serial, distance) ==
    /\ Stamps(w, f, serial, distance) /\ TellsFinger(a, f, b)
    /\ w.proximity = TRUE /\ (f.serial \in a => w.type = "TOUCH")

\* A finger's frame makes its channel's working state one of touch, in
\* proximity while the finger is down.
LEMMA FingerParsed ==
    ASSUME NEW f, NEW a, NEW b, NEW w, NEW serial, NEW distance, NEW now,
           FingerStamps(a, f, b, w, serial, distance),
           NEW n, n = Parsed(w, f, serial, distance, now)
    PROVE  n.type = "TOUCH" /\ (n.proximity <=> f.serial \in b)
<1> USE DEF FingerStamps
<1> DEFINE key == FingerTool[f.serial]
           v == ParseSwitches([w EXCEPT !.serial = serial, !.distance = distance], f)
           m == ParseMisc(v, f)
           t == ParseToolKey(m, f)
<1>1. /\ f.serial \in {1, 2} /\ f.miscFirst = TRUE
      /\ key \in DOMAIN KeyType /\ KeyType[key] = "TOUCH" /\ "TOUCH" \in Types
      /\ f.misc \in {NoMisc, NoId, "TOUCH"} /\ f.misc \in Ids \cup {NoId, NoMisc}
  BY FingerKeys DEF Stamps, TellsFinger, Types, Frame
<1>2. v \in WorkState /\ v.type = w.type /\ v.proximity = TRUE
  <2>1. Stamps(w, f, serial, distance)
    OBVIOUS
  <2>2. v = ParseSwitches(Stamped(w, serial, distance), f)
    BY DEF Stamped
  <2> HIDE DEF v
  <2>3. Switched(v, w, f, serial)
    BY ONLY <2>1, <2>2, SwitchesParsed
  <2> QED
    BY <2>3 DEF Switched
<1> HIDE DEF v
<1>3. MiscSays(v, f, m)
  BY <1>1, <1>2, MiscParsed
<1> HIDE DEF m
<1>4. m \in WorkState
  BY <1>3 DEF MiscSays
<1> DEFINE keys == (f.on \cup f.off) \cap DOMAIN KeyType
<1>5. CASE f.on \cup f.off = {key}
  <2>1. keys = {key} /\ (f.serial \in b <=> key \in f.on)
    BY <1>1, <1>5 DEF TellsFinger
  <2> DEFINE on == key \in f.on
             x == [m EXCEPT !.type = "TOUCH", !.id = "TOUCH", !.proximity = on]
  <2>2. (CHOOSE k \in keys : TRUE) = key
    BY <2>1
  <2>3. t \in {x, [x EXCEPT !.buttons = x.buttons \cup {1}], [x EXCEPT !.buttons = x.buttons \ {1}]}
    BY <1>1, <2>1, <2>2 DEF ParseToolKey
  <2>4. on \in BOOLEAN
    OBVIOUS
  <2> HIDE DEF on
  <2>5. x \in [DOMAIN m -> {x[i] : i \in DOMAIN x}] /\ x.type = "TOUCH" /\ x.proximity = on
        /\ \A bs : [x EXCEPT !.buttons = bs].type = "TOUCH"
                   /\ [x EXCEPT !.buttons = bs].proximity = on
    BY <1>4 DEF WorkState
  <2> HIDE DEF x, t
  <2>6. t.type = "TOUCH" /\ t.proximity = on
    BY <2>3, <2>5
  <2>7. n = Retyped(t, now)
    BY <1>1 DEF Parsed, v, m, t
  <2>8. n = t
    BY <2>6, <2>7, TypedKept DEF NoType
  <2> QED
    BY <2>1, <2>6, <2>8 DEF on
<1>6. CASE f.on \cup f.off # {key}
  <2>1. /\ f.on = {} /\ f.off = {} /\ f.misc # NoId /\ f.serial \in a /\ f.serial \in b
    BY <1>6 DEF TellsFinger
  <2>2. keys = {}
    BY <2>1
  <2>3. t = m
    BY <2>2 DEF ParseToolKey
  <2>4. m.type = "TOUCH" /\ m.proximity = TRUE
    BY <1>1, <1>2, <1>3, <2>1 DEF MiscSays
  <2> HIDE DEF t
  <2>5. n = Retyped(t, now)
    BY <1>1 DEF Parsed, v, m, t
  <2>6. n = t
    BY <2>3, <2>4, <2>5, TypedKept DEF NoType
  <2> QED
    BY <2>1, <2>3, <2>4, <2>6
<1> QED
  BY <1>5, <1>6

\* So reading a frame of the fingers' port
LEMMA FingerRead ==
    ASSUME UsbTypeOK, FingerInv, FingersAlone, ReadFrame(TouchPort),
           NEW f, NEW serial, NEW ch, NEW chan, Parsing(TouchPort, f, serial, ch, chan)
    PROVE  /\ chan.work.type = "TOUCH"
           /\ \E a, b \in SUBSET {1, 2} :
                /\ ShowsFingers(a) /\ b \ {f.serial} = a \ {f.serial}
                /\ FingerChain(Tail(queue[TouchPort]), b, FingersNow)
                /\ f.serial \in {1, 2} /\ ch = f.serial - 1
                /\ chan.work.proximity <=> f.serial \in b
<1>1. PICK a \in SUBSET {1, 2} : FingerChain(queue[TouchPort], a, FingersNow) /\ ShowsFingers(a)
  BY DEF FingerInv, FingersTold
<1>2. queue[TouchPort] \in Seq(Frame) /\ queue[TouchPort] # <<>> /\ f = Head(queue[TouchPort])
      /\ f \in Frame
  BY FingerKeys DEF UsbTypeOK, WacTypeOK, ReadFrame, Parsing
<1>3. PICK b \in SUBSET {1, 2} : /\ <<a, f, b>> \in FingerLinks
                                 /\ Linked(SUBSET {1, 2}, FingerLinks, Tail(queue[TouchPort]), b, FingersNow)
  BY <1>1, <1>2, LinkShrinks DEF FingerChain
<1>4. TellsFinger(a, f, b)
  BY <1>3 DEF FingerLinks
<1>5. f.serial \in {1, 2} /\ b \ {f.serial} = a \ {f.serial}
  BY <1>4 DEF TellsFinger
<1>6. serial = f.serial /\ ch = f.serial - 1 /\ ch \in Channels
  <2>1. f.serial # NoSerial /\ f.serial # PadSerial /\ f.serial # 0
    BY <1>5 DEF PadSerial, NoSerial
  <2>2. serial = SerialOf(TouchPort, f) /\ ch = ChooseChannel(serial) /\ ch \in Channels
    BY DEF Parsing
  <2>3. serial = f.serial
    BY <2>1, <2>2 DEF SerialOf
  <2>4. ch = serial - 1
    BY <2>1, <2>2, <2>3 DEF ChooseChannel
  <2> QED
    BY <2>2, <2>3, <2>4
<1> DEFINE old == channel[TouchPort][ch]
           open == Opened(old)
           now == core[TouchPort]
<1>7. old \in ChannelState
      /\ \E distance \in Distances : chan.work = Parsed(open.work, f, serial, distance, now)
      /\ serial \in {0, 1, 2, PadSerial}
  BY <1>6, FingerKeys DEF UsbTypeOK, Parsing
<1>8. (old.work.proximity <=> f.serial \in a) /\ (f.serial \in a => old.work.type = "TOUCH")
  BY <1>1, <1>5, <1>6 DEF ShowsFingers
<1> HIDE DEF old, now
<1>9. open.work \in WorkState /\ open.work.proximity = TRUE
      /\ (f.serial \in a => open.work.type = "TOUCH")
  <2>1. CASE old.work.proximity
    BY <1>7, <1>8, <2>1 DEF Opened, ChannelState, WorkState
  <2>2. CASE ~old.work.proximity
    BY <1>8, <2>2, BlankType DEF Opened
  <2> QED
    BY <2>1, <2>2
<1> DEFINE w == open.work
           n == chan.work
<1>9a. PICK distance \in Distances : n = Parsed(w, f, serial, distance, now)
  BY <1>7
<1>10. FingerStamps(a, f, b, w, serial, distance)
  BY <1>2, <1>4, <1>7, <1>9, <1>9a DEF FingerStamps, Stamps
<1> HIDE DEF open, w, n
<1>11. n.type = "TOUCH" /\ (n.proximity <=> f.serial \in b)
  BY ONLY <1>9a, <1>10, FingerParsed
<1> QED
  BY <1>1, <1>3, <1>5, <1>6, <1>11 DEF FingerChain, n

\* With the tablet unplugged from all hands
LEMMA FingerStarts ==
    ASSUME UsbInit, FingersAlone
    PROVE  FingerInv
<1>1. /\ \A c \in Commons : queue[c] = <<>> /\ core[c].on = {} /\ core[c].misc = NoId
      /\ wac.fingers = {} /\ wac.touchId = NoId /\ wac.pad = FALSE
  BY UsbAssumption DEF UsbInit, WacInit
<1>2. FingersNow = {}
  BY <1>1, FingerKeys DEF FingersNow, FingersOf
<1>3. FingerChain(queue[TouchPort], {}, FingersNow)
  BY <1>1, <1>2, FingerKeys, LinkStarts DEF FingerChain
<1>4. \A f \in {1, 2} : channel[TouchPort][f - 1].work = Blank
  BY FingerKeys DEF UsbInit
<1>5. ShowsFingers({})
  BY <1>4 DEF ShowsFingers, Blank
<1>6. FingerKernel
  BY <1>1, <1>2, FingerKeys DEF FingerKernel
<1> QED
  BY <1>3, <1>5, <1>6 DEF FingerInv, FingersTold

\* A step that leaves the kernel alone, and what the fingers' channels show
LEMMA FingersUntouched ==
    ASSUME FingerInv, UNCHANGED <<wac, core>>,
           \A c \in Commons \ {PenPort} : queue'[c] = queue[c],
           FingersAlone,
           \A f \in {1, 2} : channel'[TouchPort][f - 1] = channel[TouchPort][f - 1]
    PROVE  FingerInv'
<1>1. TouchPort \in Commons /\ TouchPort # PenPort
  BY FingerKeys DEF FingersAlone
<1>2. wac' = wac /\ core' = core /\ queue'[TouchPort] = queue[TouchPort]
  BY <1>1
<1>3. FingersNow' = FingersNow
  BY <1>2 DEF FingersNow
<1>4. FingerKernel'
  BY <1>2, <1>3 DEF FingerInv, FingerKernel
<1>5. PICK a \in SUBSET {1, 2} : FingerChain(queue[TouchPort], a, FingersNow) /\ ShowsFingers(a)
  BY DEF FingerInv, FingersTold
<1>6. FingerChain(queue[TouchPort], a, FingersNow)' /\ ShowsFingers(a)'
  BY <1>2, <1>3, <1>5 DEF ShowsFingers
<1> QED
  BY <1>4, <1>5, <1>6 DEF FingerInv, FingersTold

\* A frame without information says of no finger that it comes or goes.
LEMMA EmptyFinger ==
    ASSUME NEW f \in Frame, NEW a, NEW b, TellsFinger(a, f, b), EmptyFrame(TouchPort, f),
           a \subseteq {1, 2}, b \subseteq {1, 2}
    PROVE  a = b
<1>1. f.serial \in {1, 2} /\ b \ {f.serial} = a \ {f.serial} /\ f.serial # NoSerial
  BY DEF TellsFinger, NoSerial
<1>2. f.on = {} /\ f.off = {}
  BY <1>1, EmptySays DEF EmptyFrame
<1>3. f.serial \in a \cap b
  BY <1>2 DEF TellsFinger
<1> QED
  BY <1>1, <1>3

\* Every step keeps what is known of the fingers.
LEMMA FingerStep ==
    ASSUME UsbInv, HandInv, FingerInv, FingersAlone, [UsbNext]_allVars
    PROVE  FingerInv'
<1>1. /\ UsbTypeOK /\ WacTypeOK /\ Numbered
      /\ TouchPort \in Commons /\ PenPort \in Commons /\ TouchPort # PenPort
      /\ \A f \in {1, 2} : f - 1 \in Channels
      /\ Ports = Commons
  BY FingerKeys, UsbAssumption DEF UsbInv, UsbTypeOK, HandInv, FingersAlone
<1>2. CASE Hardware
  BY <1>1, <1>2, HardwareFingers
<1>3. CASE Configure \/ UNCHANGED allVars
  <2>1. UNCHANGED <<wac, core>> /\ queue' = queue /\ channel' = channel
    BY <1>3 DEF Configure, allVars, wacVars, usbVars
  <2> QED
    BY <2>1, FingersUntouched
<1>4. ASSUME NEW c \in Commons, Read(c)
      PROVE  c \in {PenPort, TouchPort}
  BY <1>4 DEF Read, ReadEmpty, ReadFrame, FingerInv, FingerKernel
<1>5. ASSUME Read(PenPort)
      PROVE  FingerInv'
  <2>1. UNCHANGED <<wac, core>> /\ queue' = [queue EXCEPT ![PenPort] = Tail(@)]
    BY <1>5 DEF Read, ReadEmpty, ReadFrame
  <2>2. \A c \in Commons \ {PenPort} : queue'[c] = queue[c]
    BY <1>1, <2>1 DEF WacTypeOK
  <2>3. \A i \in Channels : channel'[TouchPort][i] = channel[TouchPort][i]
    <3>1. CASE ReadEmpty(PenPort)
      BY <3>1 DEF ReadEmpty
    <3>2. CASE ReadFrame(PenPort)
      <4>1. PICK f, serial, ch, chan : Parsing(PenPort, f, serial, ch, chan)
        BY <1>1, <3>2, FrameParsed
      <4> QED
        BY <1>1, <4>1, ParsingKeeps
    <3> QED
      BY <1>5, <3>1, <3>2 DEF Read
  <2> QED
    BY <1>1, <2>1, <2>2, <2>3, FingersUntouched
<1>6. ASSUME Read(TouchPort)
      PROVE  FingerInv'
  <2>1. /\ wac' = wac /\ core' = core /\ queue' = [queue EXCEPT ![TouchPort] = Tail(@)]
        /\ queue[TouchPort] # <<>>
    BY <1>6 DEF Read, ReadEmpty, ReadFrame
  <2>2. /\ queue'[TouchPort] = Tail(queue[TouchPort])
        /\ \A c \in Commons \ {TouchPort} : queue'[c] = queue[c]
        /\ queue[TouchPort] \in Seq(Frame) /\ Head(queue[TouchPort]) \in Frame
    BY <1>1, <2>1 DEF WacTypeOK
  <2>3. FingersNow' = FingersNow
    BY <2>1 DEF FingersNow
  <2>4. FingerKernel'
    BY <2>1, <2>2, <2>3 DEF FingerInv, FingerKernel
  <2>5. CASE ReadEmpty(TouchPort)
    <3> DEFINE f == Head(queue[TouchPort])
    <3>1. EmptyFrame(TouchPort, f) /\ channel' = channel
      BY <2>5 DEF ReadEmpty
    <3>2. PICK a \in SUBSET {1, 2} :
            FingerChain(queue[TouchPort], a, FingersNow) /\ ShowsFingers(a)
      BY DEF FingerInv, FingersTold
    <3>3. PICK b : /\ <<a, f, b>> \in FingerLinks
                   /\ Linked(SUBSET {1, 2}, FingerLinks, Tail(queue[TouchPort]), b, FingersNow)
      BY <2>1, <2>2, <3>2, LinkShrinks DEF FingerChain
    <3>4. TellsFinger(a, f, b) /\ b \in SUBSET {1, 2}
      BY <3>3 DEF FingerLinks
    <3>5. a = b
      BY <2>2, <3>1, <3>2, <3>4, EmptyFinger
    <3>6. FingerChain(queue[TouchPort], b, FingersNow)' /\ ShowsFingers(b)'
      BY <2>2, <2>3, <3>1, <3>2, <3>3, <3>5 DEF FingerChain, ShowsFingers
    <3> QED
      BY <2>4, <3>4, <3>6 DEF FingerInv, FingersTold
  <2>6. CASE ReadFrame(TouchPort)
    <3>1. PICK f, serial, ch, chan : Parsing(TouchPort, f, serial, ch, chan)
      BY <1>1, <2>6, FrameParsed
    <3>2. PICK a \in SUBSET {1, 2}, b \in SUBSET {1, 2} :
            /\ ShowsFingers(a) /\ b \ {f.serial} = a \ {f.serial}
            /\ FingerChain(Tail(queue[TouchPort]), b, FingersNow)
            /\ f.serial \in {1, 2} /\ ch = f.serial - 1
            /\ chan.work.type = "TOUCH" /\ (chan.work.proximity <=> f.serial \in b)
      BY <1>1, <2>6, <3>1, FingerRead
    <3>3. /\ channel'[TouchPort][ch].work = chan.work
          /\ \A i \in Channels : i # ch => channel'[TouchPort][i] = channel[TouchPort][i]
      BY <1>1, <3>1, ParsingKeeps
    <3>4. ASSUME NEW g \in {1, 2}
          PROVE  LET w == channel'[TouchPort][g - 1].work
                 IN  (w.proximity <=> g \in b) /\ (g \in b => w.type = "TOUCH")
      <4>1. CASE g = f.serial
        BY <3>2, <3>3, <4>1
      <4>2. CASE g # f.serial
        <5>1. g - 1 # ch /\ g - 1 \in Channels
          BY <1>1, <3>2, <4>2
        <5>2. channel'[TouchPort][g - 1] = channel[TouchPort][g - 1] /\ (g \in b <=> g \in a)
          BY <3>2, <3>3, <4>2, <5>1
        <5> QED
          BY <3>2, <5>2 DEF ShowsFingers
      <4> QED
        BY <4>1, <4>2
    <3>5. ShowsFingers(b)'
      BY <3>4 DEF ShowsFingers
    <3>6. FingerChain(queue[TouchPort], b, FingersNow)'
      BY <2>2, <2>3, <3>2
    <3> QED
      BY <2>4, <3>5, <3>6 DEF FingerInv, FingersTold
  <2> QED
    BY <1>6, <2>5, <2>6 DEF Read
<1> QED
  BY <1>2, <1>3, <1>4, <1>5, <1>6 DEF UsbNext

-----------------------------------------------------------------------------
(* No finger comes in beside a pen.                                        *)

\* A sample brings only devices of its own type into proximity.
LEMMA OthersStayOut ==
    ASSUME IInv, NEW c, NEW ds \in Packet, NEW suppress, Dispatch(c, ds, suppress),
           NEW e \in Devices, DevType[e] # ds.type, priv'[e].oldProximity
    PROVE  xprox[e]
<1>1. PICK t \in ToolsFor(c, ds) :
        \/ DispatchNowhere(t, ds)
        \/ DispatchIdle(t, ds, suppress)
        \/ DispatchSend(t, ds, suppress)
  BY DEF Dispatch
<1> DEFINE a == AreaFor(t, ds.x)
           outs == AreaOuts(t, ds.x) \cup TouchOuts(a)
           noted == [View(a) EXCEPT !.p = Noted(a, ds)]
           filtered == Filtered(a, ds)
           sent == SendEvents(noted, filtered)
<1>2. /\ t \in Tools /\ ToolType[t] = ds.type
      /\ AreaOuts(t, ds.x) \in SUBSET Devices /\ outs \in SUBSET Devices
      /\ a \in DevicesOf(t) \cup {NoDevice} /\ NoDevice \notin Devices
      /\ DevicesOf(t) \subseteq Devices
  <2>1. t \in Tools /\ ToolType[t] = ds.type
    BY ToolsForType
  <2>2. DevicesOf(t) \subseteq Devices
    BY <2>1, AreaTypes
  <2> QED
    BY <2>1, <2>2, AreaForType, DeviceAssumption DEF IInv, TouchOuts
<1>3. e # a /\ e # NoDevice
  <2>1. \A d \in DevicesOf(t) : DevType[d] = ToolType[t]
    BY <1>2, ToolAssumption DEF DevicesOf
  <2> QED
    BY <1>2, <2>1
<1>4. ASSUME NEW out \in SUBSET Devices, NEW to \in {a, NoDevice}, NEW v,
             to \in Devices => v \in Views /\ ViewInv(v) /\ v.dev = to,
             Post(out, to, v), wcmTPCButton' = wcmTPCButton
      PROVE  xprox[e]
  <2>1. e # to
    BY <1>3
  <2> HIDE DEF a, outs
  <2> QED
    BY <1>4, <2>1, PostLetsOut
<1>5. ASSUME a \in enabled
      PROVE  /\ noted \in Views /\ ViewInv(noted) /\ noted.dev = a
             /\ filtered.buttons \in SUBSET Buttons /\ a \in Devices
  <2>1. a \in Devices
    BY <1>5 DEF IInv, TypeOK
  <2> HIDE DEF a
  <2> QED
    BY <2>1, NotedView
<1>6. CASE DispatchNowhere(t, ds)
  <2>1. Post(AreaOuts(t, ds.x), NoDevice, <<>>) /\ wcmTPCButton' = wcmTPCButton
    BY <1>6 DEF DispatchNowhere, PostOuts, commonVars
  <2> HIDE DEF a, outs
  <2> QED
    BY <1>2, <1>4, <2>1
<1>7. CASE DispatchIdle(t, ds, suppress)
  <2>1. Post(outs, a, noted) /\ wcmTPCButton' = wcmTPCButton /\ a \in enabled
    BY <1>7 DEF DispatchIdle, commonVars
  <2> HIDE DEF a, outs, noted, filtered
  <2> QED
    BY <1>2, <1>4, <1>5, <2>1
<1>8. CASE DispatchSend(t, ds, suppress)
  <2>1. Post(outs, a, sent) /\ wcmTPCButton' = wcmTPCButton /\ a \in enabled
    BY <1>8 DEF DispatchSend, commonVars
  <2> HIDE DEF a, outs, noted, filtered
  <2>2. sent \in Views /\ ViewInv(sent) /\ sent.dev = a
    BY <1>5, <2>1, SendEventsInv
  <2> HIDE DEF sent
  <2> QED
    BY <1>2, <1>4, <2>1, <2>2
<1> QED
  BY <1>1, <1>6, <1>7, <1>8

\* So does a frame that is heard.
LEMMA HeardStaysOut ==
    ASSUME IInv, NEW c, NEW ch, NEW chan \in ChannelState,
           chan.work.type # NoType,
           \/ Discard(c, ch, chan)
           \/ DiscardJump(c, ch, chan)
           \/ Suppress(c, ch, chan)
           \/ Use(c, ch, chan),
           NEW e \in Devices, DevType[e] # chan.work.type, priv'[e].oldProximity
    PROVE  xprox[e]
<1>1. xprox[e] = priv[e].oldProximity
  BY ViewType DEF ViewInv
<1>2. CASE UNCHANGED vars
  BY <1>1, <1>2 DEF vars
<1>3. CASE \E suppress : DispatchState(c, chan.work, suppress)
  <2>1. PICK suppress : DispatchState(c, chan.work, suppress)
    BY <1>3
  <2>2. PICK x \in Positions, moved \in BOOLEAN :
          \E ds \in Typed(c, PacketOf(chan.work, x, moved)) :
            \/ Dispatch(c, ds, suppress)
            \/ ToolsFor(c, ds) = {} /\ UNCHANGED vars
    BY <2>1 DEF DispatchState
  <2>3. PICK ds \in Typed(c, PacketOf(chan.work, x, moved)) :
          \/ Dispatch(c, ds, suppress)
          \/ ToolsFor(c, ds) = {} /\ UNCHANGED vars
    BY <2>2
  <2>4. chan.work \in WorkState
    BY DEF ChannelState
  <2>5. ds \in Packet
    BY <2>4, PacketOfType, TypedType
  <2>6. ds.type = chan.work.type
    BY DEF Typed, PacketOf
  <2>7. CASE Dispatch(c, ds, suppress)
    BY <2>5, <2>6, <2>7, OthersStayOut
  <2> QED
    BY <1>2, <2>3, <2>7
<1> QED
  BY <1>2, <1>3 DEF Discard, DiscardJump, Suppress, Use

\* A stylus or an eraser in proximity is on the channel that is looked at.
Styli == {d \in Devices : DevType[d] \in {"STYLUS", "ERASER"}}

BesideInv == \A d \in Styli : priv[d].oldProximity => syslast = <<PenPort, 0>>

\* A step that does not read a frame brings nothing into proximity, and looks at
\* the same channel.
LEMMA NoFrameKeeps ==
    ASSUME UsbInv, \/ Hardware
                   \/ Configure
                   \/ \E c \in Commons : ReadEmpty(c)
                   \/ UNCHANGED allVars
    PROVE  /\ syslast' = syslast
           /\ \A d \in Devices : priv'[d].oldProximity = priv[d].oldProximity
<1>1. CASE Configure
  <2>1. IInv /\ CarefulSettings /\ syslast' = syslast
    BY <1>1 DEF UsbInv, Configure, usbVars
  <2> QED
    BY <2>1, SettingKeeps
<1>2. CASE UNCHANGED vars /\ syslast' = syslast
  BY <1>2 DEF vars
<1> QED
  BY <1>1, <1>2 DEF Hardware, ReadEmpty, allVars, usbVars

\* The pen's frames are heard as the pen's.
LEMMA PenFrameHeard ==
    ASSUME UsbInv, HandInv, FingersAlone, ReadFrame(PenPort)
    PROVE  /\ syslast' = <<PenPort, 0>>
           /\ \A e \in Devices : DevType[e] = "TOUCH" /\ priv'[e].oldProximity => xprox[e]
<1>1. PICK f, serial, ch, chan, h, g : Reading(f, serial, ch, chan, h, g)
  BY FrameTold
<1>2. ~IsGraphire
  BY TabletAssumption DEF IsGraphire, FingersAlone
<1>3. PenFrame(h, f, g)
  BY <1>1, <1>2 DEF Reading, Tells, PadFrame
<1>4. /\ chan \in ChannelState /\ chan.work.type \in PenTypes
      /\ ParseHeard(PenPort, 0, chan, serial)
  BY <1>1, <1>3, PenRead
<1>5. /\ syslast' = <<PenPort, 0>>
      /\ \/ Discard(PenPort, 0, chan)
         \/ DiscardJump(PenPort, 0, chan)
         \/ Suppress(PenPort, 0, chan)
         \/ Use(PenPort, 0, chan)
  BY <1>4 DEF ParseHeard
<1>6. IInv /\ chan.work.type # "TOUCH" /\ chan.work.type # NoType
  BY <1>4 DEF UsbInv, PenTypes, NoType
<1> QED
  BY <1>4, <1>5, <1>6, HeardStaysOut

\* A finger's frame is not heard while a stylus or an eraser is in proximity.
LEMMA FingerFrameHeard ==
    ASSUME UsbInv, HandInv, FingerInv, PensInv, BesideInv, PensAtPort, FingersAlone,
           ReadFrame(TouchPort)
    PROVE  /\ \A d \in Styli : priv'[d].oldProximity = priv[d].oldProximity
           /\ \A d \in Styli : priv[d].oldProximity => UNCHANGED vars /\ syslast' = syslast
<1>1. TouchPort \in Commons /\ TouchPort # PenPort /\ UsbTypeOK
  BY FingerKeys DEF FingersAlone, UsbInv
<1>2. PICK f, serial, ch, chan : Parsing(TouchPort, f, serial, ch, chan)
  BY <1>1, FrameParsed
<1>3. chan.work.type = "TOUCH"
  BY <1>1, <1>2, FingerRead
<1>4. ASSUME NEW d \in Styli
      PROVE  priv'[d] = priv[d]
  <2>1. d \in Devices /\ DevType[d] # "TOUCH" /\ Elsewhere(TouchPort, chan.work.type, d)
    BY <1>1 DEF Styli, Pens, PensAtPort, Elsewhere
  <2> QED
    BY <1>1, <1>2, <2>1, ParsingElsewhere
<1>5. ASSUME NEW d \in Styli, priv[d].oldProximity
      PROVE  UNCHANGED vars /\ syslast' = syslast
  <2>1. syslast = <<PenPort, 0>> /\ syslast # NoChannel /\ syslast # <<TouchPort, ch>>
    <3>1. syslast = <<PenPort, 0>>
      BY <1>5 DEF BesideInv
    <3>2. <<PenPort, 0>>[1] = PenPort /\ <<TouchPort, ch>>[1] = TouchPort
      OBVIOUS
    <3>3. <<PenPort, 0>> # <<TouchPort, ch>>
      BY <1>1, <3>2
    <3>4. <<PenPort, 0>> # <<>>
      OBVIOUS
    <3> QED
      BY <3>1, <3>3, <3>4 DEF NoChannel
  <2>2. channel[PenPort][0].work.proximity /\ DevType[d] = channel[PenPort][0].work.type
    BY <1>5 DEF PensInv, PensIn, Pens, Styli
  <2>3. PenNear(TouchPort, ch, chan.work)
    BY <2>1, <2>2 DEF PenNear, Styli
  <2>4. ParseDeaf(TouchPort, ch, chan, serial)
    BY <1>2, <1>3, <2>3 DEF Parsing, Deaf
  <2> QED
    BY <2>4 DEF ParseDeaf
<1> QED
  BY <1>4, <1>5

\* So a stylus or an eraser in proximity stays the one that is looked at, and
\* nothing comes in beside it.
LEMMA BesideStep ==
    ASSUME UsbInv, UsbInv', HandInv, FingerInv, PensInv, BesideInv, PensAtPort, FingersAlone,
           [UsbNext]_allVars
    PROVE  /\ BesideInv'
           /\ \A d \in Devices, e \in Styli :
                DevType[d] = "TOUCH" /\ ~xprox[d] /\ xprox'[d] => ~xprox'[e]
<1>1. /\ \A d \in Devices : xprox[d] = priv[d].oldProximity
      /\ \A d \in Devices : xprox'[d] = priv'[d].oldProximity
  <2>1. IInv /\ IInv'
    BY DEF UsbInv
  <2>2. \A d \in Devices : xprox[d] = priv[d].oldProximity
    BY <2>1, ViewType DEF ViewInv
  <2>3. \A d \in Devices : ViewInv(View(d))'
    BY <2>1 DEF IInv
  <2> QED
    BY <2>2, <2>3 DEF ViewInv, View
<1>2. \A e \in Styli : e \in Devices
  BY DEF Styli
<1>3. CASE \/ Hardware
           \/ Configure
           \/ \E c \in Commons : ReadEmpty(c)
           \/ UNCHANGED allVars
  BY <1>1, <1>2, <1>3, NoFrameKeeps DEF BesideInv
<1>4. CASE ReadFrame(PenPort)
  BY <1>1, <1>2, <1>4, PenFrameHeard DEF BesideInv
<1>5. CASE ReadFrame(TouchPort)
  <2>1. /\ \A d \in Styli : priv'[d].oldProximity = priv[d].oldProximity
        /\ \A d \in Styli : priv[d].oldProximity => UNCHANGED vars /\ syslast' = syslast
    BY <1>5, FingerFrameHeard
  <2>2. BesideInv'
    BY <2>1 DEF BesideInv
  <2>3. ASSUME NEW d \in Devices, NEW e \in Styli, ~xprox[d], xprox'[d]
        PROVE  ~xprox'[e]
    BY <1>1, <1>2, <2>1, <2>3 DEF vars
  <2> QED
    BY <2>2, <2>3
<1>6. ASSUME NEW c \in Commons, ReadFrame(c)
      PROVE  c \in {PenPort, TouchPort}
  BY <1>6 DEF ReadFrame, FingerInv, FingerKernel
<1> QED
  BY <1>3, <1>4, <1>5, <1>6 DEF UsbNext, Read

-----------------------------------------------------------------------------
(* The theorems.                                                           *)

\* The inductive invariant of the way from the hand to the reader's channels
THEOREM HandInvariant == UsbSpec => []HandInv
<1>1. UsbInit => HandInv
  BY HandStarts
<1>2. UsbInv /\ HandInv /\ [UsbNext]_allVars => HandInv'
  BY HandStep
<1> QED
  BY <1>1, <1>2, UsbInvariant, PTL DEF UsbSpec

\* Once the driver has read all that the kernel has sent, a pen or mouse in
\* proximity is the one in the user's hand, with the buttons that are pressed
\* on it, whatever the user did, however far the reader lagged behind (it reads
\* changes only, throws the first two states of a session away and drops those
\* that say nothing new) and whatever the clients set meanwhile: of any of the
\* tablets, where the pens' devices are on the pen's event device, no area is
\* shared by tools with serial numbers of their own, and a tip pressed all the
\* way is above every threshold.
THEOREM UsbPenFollows ==
    ASSUME PensAtPort, Unshared, TipFelt
    PROVE  UsbSpec => []PenFollowsHand
<1>1. UsbInit => PensInv
  BY HandStarts
<1>2. UsbInv /\ HandInv /\ PensInv /\ [UsbNext]_allVars => PensInv'
  BY PensStep
<1>3. HandInv /\ PensInv => PenFollowsHand
  BY HandShown
<1> QED
  BY <1>1, <1>2, <1>3, UsbInvariant, HandInvariant, PTL DEF UsbSpec

\* Once the driver has read all, the pads of a Graphire have the express keys
\* that the user presses, although keys and pen share a report, an input core
\* and a queue, and the key by which the kernel announces the pad never goes up:
\* where the pads are enabled from the start, each the only area of the tool
\* that takes the keys' serial number.
THEOREM UsbPadFollows ==
    ASSUME features = "WACOM_G4", PadsReached
    PROVE  UsbSpec => []PadFollowsHand
<1>1. PadsHere
  BY DEF PadsHere, IsGraphire
<1>2. UsbInit => PadsInv
  BY HandStarts
<1>3. UsbInv /\ HandInv /\ PadsInv /\ [UsbNext]_allVars => PadsInv'
  BY <1>1, PadsStep
<1>4. UsbInv /\ HandInv /\ PadsInv => PadFollowsHand
  BY <1>1, KeysShown
<1> QED
  BY <1>2, <1>3, <1>4, UsbInvariant, HandInvariant, PTL DEF UsbSpec

\* No touch device comes into proximity while a stylus or an eraser is in it:
\* whatever the reader has not read yet of either of the two ports, the last
\* event it let through is the pen's while a pen is in proximity, since every
\* other port's frame tells of a finger, and a finger's is not let through. That
\* needs a port where nothing but fingers is reported: an express key of a
\* Bamboo would take the pen's place.
THEOREM UsbNoTouchBesidePen ==
    ASSUME PensAtPort, Unshared, FingersAlone
    PROVE  UsbSpec => NoTouchBesidePen
<1>1. UsbInit => FingerInv /\ PensInv /\ BesideInv
  <2> SUFFICES ASSUME UsbInit
               PROVE  FingerInv /\ PensInv /\ BesideInv
    OBVIOUS
  <2>1. FingerInv /\ PensInv
    BY FingerStarts, HandStarts
  <2>2. \A d \in Devices : ~priv[d].oldProximity
    BY DEF UsbInit, Init, InitPriv
  <2> QED
    BY <2>1, <2>2 DEF BesideInv, Styli
<1>2. UsbInv /\ HandInv /\ FingerInv /\ [UsbNext]_allVars => FingerInv'
  BY FingerStep
<1>3. UsbInv /\ HandInv /\ PensInv /\ [UsbNext]_allVars => PensInv'
  BY PensStep
<1>4. UsbInv /\ UsbInv' /\ HandInv /\ FingerInv /\ PensInv /\ BesideInv /\ [UsbNext]_allVars
        => BesideInv'
  BY BesideStep
<1>5. UsbInv /\ UsbInv' /\ HandInv /\ FingerInv /\ PensInv /\ BesideInv /\ [UsbNext]_allVars
        => [\A d, e \in Devices :
              DevType[d] = "TOUCH" /\ ~xprox[d] /\ xprox'[d]
              /\ DevType[e] \in {"STYLUS", "ERASER"} => ~xprox'[e]]_allVars
  BY BesideStep DEF Styli
<1> QED
  BY <1>1, <1>2, <1>3, <1>4, <1>5, UsbInvariant, HandInvariant, PTL DEF UsbSpec, NoTouchBesidePen

=============================================================================
