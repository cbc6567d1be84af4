------------------------------ MODULE WacomSerial ------------------------------
(***************************************************************************)
(* A serial tablet or a Tablet PC's digitizer in use: the packets of its   *)
(* tools on the wire, the buffer of src/xdrv/xf86Wacom.c xf86WcmReadPacket *)
(* that cuts the bytes into packets again, and the parsers of              *)
(* src/xdrv/wcmSerial.c and src/xdrv/wcmISDV4.c, which give the states of  *)
(* the channels.  A byte is a place in the packet it was sent in.          *)
(***************************************************************************)
EXTENDS WacomStart, FiniteSets, SequencesExt

CONSTANTS
    Tools,       \* the tools of a kind of tablet
    Pressable,   \* the buttons of a kind of tablet
    Bodies,      \* what a body byte of a digitizer's packet looks like as a header
    MaxWire,     \* bound: bytes on the wire, of more than one report
    MaxLost,     \* bound: bytes lost on the wire
    Lossy,       \* bound: the kinds of tablets whose bytes get lost
    ReadsWhole   \* ids of the tablets whose packets are read whole

Protocol5 == {"GD", "XD"}
NoTool == "NONE"
Pens == {"STYLUS", "ERASER"}
Mice == {"MOUSE_4D", "MOUSE_2D"}

\* A digitizer has no mice, and three buttons at most.
ASSUME SerialAssumption ==
    /\ Tools \in [Serial \cup {"TPC"} -> SUBSET (Pens \cup Mice)]
    /\ Tools["TPC"] \subseteq Pens
    /\ Pressable \in [Serial \cup {"TPC"} -> SUBSET {1, 2, 4, 8}]
    /\ Pressable["TPC"] \subseteq {1, 2, 4}
    /\ MaxWire \in Nat /\ MaxLost \in Nat

Slots == {0, 1}
Free == [tool |-> NoTool, buttons |-> {}]

\* The eraser's bit among a pen's buttons
EraserBit == IF tablet.kind = "ET" THEN 8 ELSE 4

VARIABLES
    hand,       \* per slot the tool near the tablet and its buttons
    wire,       \* bytes sent and not yet read
    lost,       \* the number of bytes lost so far
    buffer,     \* common->buffer up to common->bufpos
    pos,        \* xf86WcmReadPacket: pos
    reading,    \* TRUE while xf86WcmReadPacket parses
    channel,    \* common->wcmChannel
    events      \* what the last step has passed to xf86WcmEvent

readVars == <<buffer, pos, reading, channel, events>>
serialVars == <<startVars, hand, wire, lost, readVars>>

\* The fields of WacomDeviceState that matter here; id stands for device_id
\* on protocol 5, rotation says that it is known.
Blank == [type |-> NoTool, id |-> NoTool, proximity |-> FALSE, buttons |-> {},
          rotation |-> FALSE, discard |-> FALSE]
NoChannel == [work |-> Blank, valid |-> Blank]

-----------------------------------------------------------------------------
(* The tablet.                                                             *)

Packet(kind, slot, tool, near, buttons) ==
    [kind |-> kind, slot |-> slot, tool |-> tool, proximity |-> near, buttons |-> buttons,
     body |-> "plain"]

\* The packets of a position: a 4D mouse sends two.  A digitizer's touch
\* packet has both fingers.
Position(h, s) ==
    LET t == h[s].tool
        b == h[s].buttons
    IN  CASE tablet.kind = "TPC" /\ t \in Pens -> <<Packet("PEN", 0, t, TRUE, b)>>
          [] tablet.kind \in Protocol5 /\ t \in Pens -> <<Packet("PEN", s, t, TRUE, b)>>
          [] tablet.kind \in Protocol5 /\ t = "MOUSE_4D" ->
               <<Packet("MOUSE", s, t, TRUE, b), Packet("ROTATION", s, t, TRUE, b)>>
          [] tablet.kind \in Protocol5 /\ t = "MOUSE_2D" -> <<Packet("MOUSE", s, t, TRUE, b)>>
          [] OTHER -> <<Packet("P4", 0, t, TRUE, b)>>

Away(s) ==
    CASE tablet.kind = "TPC" -> <<Packet("PEN", 0, NoTool, FALSE, {})>>
      [] tablet.kind \in Protocol5 -> <<Packet("OUT", s, NoTool, FALSE, {})>>
      [] OTHER -> <<Packet("P4", 0, hand[s].tool, FALSE, {})>>

Length(p) ==
    CASE p.kind = "TOUCH" -> TouchLength(IdOf(tablet))
      [] p.kind = "PEN" -> 9
      [] OTHER -> SerialLength(tablet.kind)

\* The packets sent at once are of one length.
Bytes(packets) ==
    LET n == Length(packets[1])
    IN  [k \in 1 .. Len(packets) * n |->
           [packet |-> packets[((k - 1) \div n) + 1], i |-> ((k - 1) % n) + 1]]

\* The eraser always sends its bit.
Sendable(t) ==
    {b \in SUBSET Pressable[tablet.kind] : t = "ERASER" => EraserBit \in b}

\* What is sent while nobody listens is lost.
Sends(packets) ==
    /\ wire = <<>> \/ Len(wire) + Len(Bytes(packets)) <= MaxWire
    /\ ~reading
    /\ wire' = IF tablet.streaming /\ At("running") THEN wire \o Bytes(packets) ELSE <<>>
    /\ events' = <<>>
    /\ UNCHANGED <<startVars, lost, buffer, pos, reading, channel>>

Enter(s) ==
    /\ hand[s].tool = NoTool
    /\ tablet.pen /\ (s = 1 => tablet.kind \in Protocol5)
    /\ \E t \in Tools[tablet.kind] : \E b \in Sendable(t) :
         LET h == [hand EXCEPT ![s] = [tool |-> t, buttons |-> b]]
             id == IF tablet.kind \in Protocol5 THEN <<Packet("ID", s, t, TRUE, {})>> ELSE <<>>
         IN  hand' = h /\ Sends(id \o Position(h, s))

\* A tool that is moved, or its buttons
Press(s) ==
    /\ hand[s].tool \notin {NoTool, "FINGER"}
    /\ \E b \in Sendable(hand[s].tool) :
         LET h == [hand EXCEPT ![s].buttons = b]
         IN  hand' = h /\ Sends(Position(h, s))

Leave(s) ==
    /\ hand[s].tool \notin {NoTool, "FINGER"}
    /\ hand' = [hand EXCEPT ![s] = Free]
    /\ Sends(Away(s))

\* A digitizer's fingers are in a slot of their own; buttons are the fingers
\* down.
Fingers == {1, 2}
Touch ==
    /\ tablet.kind = "TPC" /\ tablet.sensor # NoSensor
    /\ \E down \in SUBSET (IF tablet.sensor = 5 THEN Fingers ELSE {1}), body \in Bodies :
         /\ down # {} \/ hand[1].buttons # {}
         /\ hand' = [hand EXCEPT ![1] = IF down = {} THEN Free
                                        ELSE [tool |-> "FINGER", buttons |-> down]]
         /\ Sends(<<[Packet("TOUCH", 1, "FINGER", down # {}, down) EXCEPT !.body = body]>>)

\* The line of a serial tablet has no flow control: a byte may get lost.
Lose ==
    /\ lost < MaxLost /\ ~reading /\ tablet.kind \in Lossy
    /\ \E k \in 1 .. Len(wire) : wire' = RemoveAt(wire, k)
    /\ lost' = lost + 1
    /\ events' = <<>>
    /\ UNCHANGED <<startVars, hand, buffer, pos, reading, channel>>

-----------------------------------------------------------------------------
(* xf86WcmReadPacket                                                       *)

\* Where a read may end
Ends ==
    {n \in 1 .. Len(wire) :
       IF IdOf(tablet) \in ReadsWhole /\ n < Len(wire) THEN wire[n + 1].i = 1 ELSE TRUE}

\* As many bytes as have arrived; packets are looked for until less than one
\* is left.
Read ==
    /\ At("running") /\ ~reading
    /\ \E n \in Ends :
         /\ buffer' = buffer \o SubSeq(wire, 1, n)
         /\ wire' = SubSeq(wire, n + 1, Len(wire))
    /\ pos' = 0 /\ reading' = TRUE
    /\ events' = <<>>
    /\ UNCHANGED <<startVars, hand, lost, channel>>

Available == Len(buffer) - pos
IsHeader(k) == k <= Available /\ buffer[pos + k].i = 1

\* Half a packet is moved down; if more was taken than there was, nothing is
\* left.
EndRead ==
    /\ reading' = FALSE
    /\ buffer' = SubSeq(buffer, pos + 1, Len(buffer))
    /\ pos' = 0

Drained ==
    /\ reading /\ Available < common.pktLength
    /\ EndRead
    /\ events' = <<>>
    /\ UNCHANGED <<startVars, hand, wire, lost, channel>>

\* Slip: a bad packet is skipped as a whole.
SkipWhole(length) ==
    IF IsHeader(1) /\ \A k \in 2 .. length : ~IsHeader(k) THEN 0 ELSE length

\* xf86WcmSerialValidate: a packet is a header and no other; else what comes
\* before the next header is skipped.
Skip(length) ==
    LET headers == {k \in 2 .. length : IsHeader(k)}
    IN  IF headers # {} THEN (CHOOSE k \in headers : \A j \in headers : k <= j) - 1
        ELSE IF IsHeader(1) THEN 0 ELSE length

-----------------------------------------------------------------------------
(* The parsers.                                                            *)

Event(ch, state) == [channel |-> ch, type |-> state.type, proximity |-> state.proximity,
                     rotation |-> state.rotation]

\* xf86WcmEvent: the state becomes the channel's last valid one.
Passed(chans, ch) == [chans EXCEPT ![ch].valid = chans[ch].work]

\* xf86WcmSoftOut: the type of the last state, and nothing else, goes out.
Out(state) == [Blank EXCEPT !.type = state.type]
SoftOut(chans, ch) == [chans EXCEPT ![ch].valid = Out(chans[ch].valid)]

\* Slip: what goes out by software is not passed on.
GoesOutNot(ch, last) == <<>>

GoesOut(ch, last) == <<Event(ch, Out(last))>>

\* Slip: the type is kept from the first packet on.
FooledNot(last, work, type) == FALSE

\* The tip and the second side switch together look like an eraser; a button
\* without it tells.
Fooled(last, work, type) ==
    /\ last.proximity /\ work.proximity /\ work.buttons # {}
    /\ work.type = "ERASER" /\ type # "ERASER"

\* serialParseP4Common and isdv4Parse for a pen: the type is the one the tool
\* came into proximity with; an eraser has no buttons.  The Graphire's
\* eraser bit is looked for in what any tool of protocol 4 sends.
PenPacket(chans, p, ch) ==
    LET last == chans[ch].valid
        type == IF 8 \in p.buttons THEN "ERASER"
                ELSE IF p.tool \in Mice THEN "CURSOR"
                ELSE IF 4 \in p.buttons THEN "ERASER" ELSE "STYLUS"
        work == [chans[ch].work EXCEPT !.proximity = p.proximity, !.buttons = p.buttons,
                   !.type = IF ~last.proximity /\ p.proximity THEN type ELSE @]
        fooled == Fooled(last, work, type)
        typed == IF fooled THEN [work EXCEPT !.type = type] ELSE work
        state == IF typed.type = "ERASER" THEN [typed EXCEPT !.buttons = {}] ELSE typed
        soft == IF fooled THEN GoesOut(ch, last) ELSE <<>>
    IN  [channel |-> [chans EXCEPT ![ch] = [work |-> state, valid |-> state]],
         events |-> soft \o <<Event(ch, state)>>]

\* All but pens begin with a packet that is not used.
Discards(tool) == tool \in Mice

\* serialParseProtocol5: an id packet starts the channel from scratch.
Protocol5Packet(p) ==
    LET ch == p.slot
        w == channel[ch].work
        work ==
          CASE p.kind = "ID" -> [Blank EXCEPT !.proximity = TRUE, !.discard = Discards(p.tool),
                                   !.type = IF p.tool \in Mice THEN "CURSOR" ELSE p.tool,
                                   !.id = p.tool]
            [] p.kind = "OUT" -> [w EXCEPT !.proximity = FALSE]
            [] p.kind = "ROTATION" -> [w EXCEPT !.rotation = TRUE, !.proximity = p.proximity,
                                         !.discard = FALSE]
            [] p.kind = "MOUSE" /\ w.id \notin Mice -> [w EXCEPT !.proximity = p.proximity]
            [] OTHER -> [w EXCEPT !.buttons = p.buttons, !.proximity = p.proximity]
        wait == \/ p.kind = "ID"
                \/ p.kind = "MOUSE" /\ (w.id \notin Mice \/ (w.id = "MOUSE_4D" /\ w.discard))
        chans == [channel EXCEPT ![ch].work = work]
    IN  IF wait THEN [channel |-> chans, events |-> <<>>]
        ELSE [channel |-> Passed(chans, ch), events |-> <<Event(ch, work)>>]

\* One finger's state
Finger(chans, ch, down) ==
    [chans EXCEPT ![ch].work = [Blank EXCEPT !.type = "TOUCH", !.proximity = down]]

\* isdv4Parse for fingers: the second one has a channel of its own, and is
\* passed on if it is or was down; then the first one is, if it is or was.
TouchPacket(p, length) ==
    LET first == Finger(channel, 0, 1 \in p.buttons)
        second == length = 13 /\ (2 \in p.buttons \/ channel[1].valid.proximity)
        both == Finger(Passed(first, 0), 1, 2 \in p.buttons)
        one == 1 \in p.buttons \/ channel[0].valid.proximity
        event(ch, chans) == <<Event(ch, chans[ch].work)>>
    IN  IF ~second THEN [channel |-> Passed(first, 0), events |-> event(0, first)]
        ELSE IF one THEN [channel |-> Passed(both, 1), events |-> event(0, first) \o event(1, both)]
        ELSE [channel |-> Passed(Finger(first, 1, 2 \in p.buttons), 1),
              events |-> event(1, both)]

-----------------------------------------------------------------------------
(* The loop of xf86WcmReadPacket.                                          *)

\* A parser's results: the bytes it took, the packet length it leaves, the
\* channels and what it has passed on
Result(count, length, chans, passed) ==
    [count |-> count, length |-> length, channel |-> chans, events |-> passed]

SerialParse ==
    LET n == Skip(common.pktLength)
        p == buffer[pos + 1].packet
        done == IF common.model \in Protocol5 THEN Protocol5Packet(p) ELSE PenPacket(channel, p, 0)
    IN  IF n > 0 THEN Result(n, common.pktLength, channel, <<>>)
        ELSE Result(common.pktLength, common.pktLength, done.channel, done.events)

\* What the parser takes the byte for before it is checked for a header.
LooksLike ==
    LET byte == buffer[pos + 1]
    IN  IF byte.i > 1 THEN byte.packet.body
        ELSE IF byte.packet.kind = "TOUCH" THEN "touch" ELSE "plain"

PenInControl == LET v == channel[0].valid IN v.proximity /\ v.type \in Pens
TouchInControl == LET v == channel[0].valid IN v.proximity /\ v.type = "TOUCH"

\* Slip: a packet is looked at before all of it is there.
CompleteAny(length) == TRUE

Complete(length) == Available >= length

\* isdv4Parse: a touch packet is for nobody while a pen is near or touch is
\* switched off, and nobody asks whether all of it is there; a pen ends
\* touch, before it is known whether all of its packet is there.
ISDV4Parse ==
    LET like == LooksLike
        length == IF like = "zero" THEN common.pktLength
                  ELSE IF like = "touch" THEN TouchLength(common.tablet_id) ELSE 9
        release == like \notin {"zero", "touch"} /\ TouchInControl
        chans == IF release THEN SoftOut(channel, 0) ELSE channel
        soft == IF release THEN GoesOut(0, channel[0].valid) ELSE <<>>
        p == buffer[pos + 1].packet
    IN  IF like = "touch" /\ (PenInControl \/ ~common.wcmTouch) THEN Result(length, length, channel, <<>>)
        ELSE IF ~Complete(length) THEN Result(0, length, chans, soft)
        ELSE IF like = "control" THEN Result(length, length, chans, soft)
        ELSE IF Skip(length) > 0 THEN Result(Skip(length), length, chans, soft)
        ELSE LET done == IF length # 9 THEN TouchPacket(p, length) ELSE PenPacket(chans, p, 0)
             IN  Result(length, length, done.channel, soft \o done.events)

Parse ==
    LET r == IF common.model = "TPC" THEN ISDV4Parse ELSE SerialParse
    IN  /\ reading /\ Available >= common.pktLength
        /\ common' = [common EXCEPT !.pktLength = r.length]
        /\ channel' = r.channel
        /\ events' = r.events
        /\ IF r.count = 0 THEN EndRead
           ELSE pos' = pos + r.count /\ UNCHANGED <<buffer, reading>>
        /\ UNCHANGED <<tablet, port, answers, step, penFound, trouble, hand, wire, lost>>

-----------------------------------------------------------------------------
\* What a tool has sent while the port was closed is found by the next open.
Noise == IF tablet.streaming /\ \E s \in Slots : hand[s].tool # NoTool THEN <<"data">> ELSE <<>>

Idle == ~reading /\ UNCHANGED <<hand, lost, buffer, pos, reading, channel>>

OpenPort == Open(Noise) /\ Idle /\ wire' = <<>> /\ events' = <<>>
StartUp == StartNext /\ Idle /\ UNCHANGED wire /\ events' = <<>>
ClosePort == Close /\ Idle /\ wire' = <<>> /\ events' = <<>>

SerialInit ==
    /\ StartInit
    /\ hand = [s \in Slots |-> Free]
    /\ wire = <<>> /\ lost = 0
    /\ buffer = <<>> /\ pos = 0 /\ reading = FALSE
    /\ channel = [ch \in Slots |-> NoChannel]
    /\ events = <<>>

Hardware == (\E s \in Slots : Enter(s) \/ Press(s) \/ Leave(s)) \/ Touch \/ Lose

SerialNext == OpenPort \/ StartUp \/ ClosePort \/ Hardware \/ Read \/ Parse \/ Drained

SerialSpec == SerialInit /\ [][SerialNext]_serialVars

\* Nothing is near the tablet unless it is running, and known for what it is;
\* and the port is closed when all has been read.
CarefulUser ==
    /\ hand' # hand => At("running") /\ ~trouble
    /\ At("running") /\ step' = "closed" => hand = [s \in Slots |-> Free] /\ wire = <<>>

CarefulSpec == SerialInit /\ [][SerialNext /\ CarefulUser]_serialVars

-----------------------------------------------------------------------------
(* Properties.                                                             *)

State == [type: {NoTool, "CURSOR", "TOUCH"} \cup Pens, id: {NoTool} \cup Pens \cup Mice,
          proximity: BOOLEAN,
          buttons: SUBSET {1, 2, 4, 8}, rotation: BOOLEAN, discard: BOOLEAN]

SerialTypeOK ==
    /\ StartTypeOK
    /\ channel \in [Slots -> [work: State, valid: State]]
    /\ lost \in 0 .. MaxLost
    /\ pos \in Nat /\ reading \in BOOLEAN

\* The parsers take no more bytes than there are: what has not been looked at
\* is kept for when the rest of its packet is there.
KeepsUnread == pos <= Len(buffer)

Settled == At("running") /\ ~reading /\ wire = <<>> /\ buffer = <<>> /\ lost = 0

Own(h) == IF h.tool \in Mice THEN "CURSOR" ELSE h.tool

\* A pen or mouse can be told from an eraser by the buttons it holds; without
\* any it stays what it was taken for.
Distinct(h) ==
    \/ tablet.kind \in Protocol5
    \/ h.buttons # {} /\ 8 \notin h.buttons /\ (h.tool = "STYLUS" => 4 \notin h.buttons)

\* What is passed on of a pen or mouse fits the tool in the hand, or is an
\* eraser that it cannot be told from.
Fits(v, h) ==
    /\ v.proximity = (h.tool # NoTool)
    /\ h.tool # NoTool =>
         /\ v.type \in {Own(h), "ERASER"}
         /\ Distinct(h) => v.type = Own(h)
         /\ v.type # "ERASER" => v.buttons = h.buttons

\* When all a tablet has sent is read, the channels show the tool in the
\* hand, wherever the bytes were cut: both tools of protocol 5, the pen that
\* was taken for an eraser, and on a digitizer the pen or else the finger.
SettledFollowsHand ==
    Settled =>
      CASE common.model \in Protocol5 -> \A s \in Slots : Fits(channel[s].valid, hand[s])
        [] common.model \notin Protocol5 /\ channel[0].valid.type = "TOUCH" ->
             channel[0].valid.proximity = (1 \in hand[1].buttons)
        [] OTHER -> Fits(channel[0].valid, hand[0])

\* The type a channel was in proximity with before an event
Before(k) ==
    LET ch == events'[k].channel
        earlier == {j \in 1 .. k - 1 : events'[j].channel = ch}
    IN  IF earlier = {} THEN channel[ch].valid
        ELSE events'[CHOOSE j \in earlier : \A i \in earlier : i <= j]

\* A channel's tool changes its type only out of proximity: the eraser goes
\* before the pen it was mistaken for comes, and the finger before the pen.
OneTypeAtATime ==
    [][lost = 0 =>
         \A k \in DOMAIN events' :
           events'[k].proximity /\ Before(k).proximity => events'[k].type = Before(k).type]_serialVars

\* A 4D mouse is passed on as near only once its rotation is known.
RotationKnown ==
    \A k \in DOMAIN events :
      events[k].proximity /\ channel[events[k].channel].work.id = "MOUSE_4D" =>
        events[k].rotation

\* What is skipped of a serial tablet's bytes after one was lost is never a
\* packet that arrived whole.
WholeIsParsed ==
    [][reading /\ reading' /\ pos' > pos /\ common.model # "TPC" =>
         \A k \in pos + 1 .. pos' :
           LET n == Length(buffer[k].packet)
           IN  /\ k + n - 1 <= Len(buffer)
               /\ \A i \in 1 .. n : buffer[k + i - 1] = [packet |-> buffer[k].packet, i |-> i]
               => k = pos + 1 /\ pos' = pos + n /\ Skip(common.pktLength) = 0]_serialVars
=============================================================================
