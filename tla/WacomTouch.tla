----------------------------- MODULE WacomTouch -----------------------------
(***************************************************************************)
(* Two-finger gestures (src/xdrv/wcmTouchFilter.c) between the reader and  *)
(* dispatch: xf86WcmGestureFilter sees every used sample of a finger,      *)
(* decides by clock and movement between a tap, a scroll, a zoom and the   *)
(* lag that waits for one of them, and while any of the four is on         *)
(* xf86WcmEvent dispatches nothing on that port.  On a relative device the *)
(* first finger also taps and drags.  A pad shares the touch port, as on a *)
(* Bamboo; a pen, if there is one, has its own.                            *)
(*                                                                         *)
(* Times are ages in ticks, saturated where no comparison tells them apart.*)
(* Coordinates are abstracted to what the filter asks about them, chosen   *)
(* anew with every sample (Motion).  Samples reach the reader at once.     *)
(***************************************************************************)
EXTENDS WacomDispatch

CONSTANTS
    TouchPort,               \* the common of the touch and the pad device
    FingerButton,            \* the first finger is also button 1 (not on a Bamboo)
    CoreTouch,               \* the touch device has COREEVENT_FLAG
    WACOM_GESTURE_LAG_TIME,  \* in ticks
    wcmTapTime,              \* in ticks
    GestureModes             \* values of common->wcmGesture, configured or set

Fingers == {0, 1}            \* the channels of the two fingers
MaxAge == 2 * wcmTapTime + 1     \* for the ages compared with twice the tap time
MaxTap == wcmTapTime + 1         \* for those compared with the tap time

TouchDevice == CHOOSE d \in Devices : DevType[d] = "TOUCH"

ASSUME TouchAssumption ==
    /\ TouchPort \in Commons
    /\ FingerButton \in BOOLEAN /\ CoreTouch \in BOOLEAN
    /\ WACOM_GESTURE_LAG_TIME \in Nat /\ wcmTapTime \in Nat
    /\ WACOM_GESTURE_LAG_TIME <= 2 * wcmTapTime + 1
    /\ GestureModes \subseteq BOOLEAN
    /\ Positions # {}
    /\ \E d \in Devices : DevType[d] = "TOUCH"
    /\ FingerButton => \A d \in Devices : DevType[d] = "PAD" => Common[d] # TouchPort
    /\ \A d \in Devices : DevType[d] = "TOUCH" =>
         d = TouchDevice /\ Common[d] = TouchPort

VARIABLES
    hand,       \* the fingers on the tablet, each in proximity in its channel
    lost,       \* but for the first, if the reader took a key's release for its lift
    sample,     \* age of each channel's work.sample; MaxAge if it will be cleared
    soon,       \* a landing of the first finger that was not used followed a lift soon
    states,     \* valid.states[0] and [1] of each finger's channel
    wcmGesture,
    wcmGestureMode,
    wcmTouchpadMode,
    wcmScrollDirection,
    lastAge,    \* age of the second channel's valid.states[1]
    tmpStamp,   \* age of the first finger's last lift
    syslast,    \* the last sample let through was of a pen in proximity
    keys        \* the express keys that are down in the pad's samples

filterVars == <<states, lastAge, wcmGestureMode, wcmTouchpadMode, wcmScrollDirection,
                tmpStamp>>
touchVars == <<hand, lost, sample, soon, wcmGesture, syslast, keys, filterVars>>
allVars == <<vars, touchVars>>

Modes == {"NONE", "TAP", "SCROLL", "ZOOM", "LAG"}
Directions == {"NONE", "HORIZ", "VERT"}

\* prox, age: of the last used sample; wasProx: of the one before.  An age
\* counts from the sample field, which the reader sets when the finger lands
\* and when it lifts.
Ages == 0 .. MaxAge
FingerState == [prox: BOOLEAN, age: Ages, wasProx: BOOLEAN]
Away == [prox |-> FALSE, age |-> MaxAge, wasProx |-> FALSE]

TouchTypeOK ==
    /\ TypeOK
    /\ hand \in [Fingers -> BOOLEAN]
    /\ lost \in BOOLEAN
    /\ sample \in [Fingers -> Ages]
    /\ soon \in BOOLEAN
    /\ states \in [Fingers -> FingerState]
    /\ wcmGesture \in BOOLEAN
    /\ wcmGestureMode \in Modes
    /\ wcmTouchpadMode \in BOOLEAN
    /\ wcmScrollDirection \in Directions
    /\ lastAge \in 0 .. MaxTap
    /\ tmpStamp \in 0 .. MaxTap
    /\ syslast \in BOOLEAN
    /\ keys \in SUBSET Buttons

\* What the filter asks about the fingers' coordinates.  far: how each finger
\* moved from where the gesture began, on each axis, compared with
\* WACOM_INLINE_DISTANCE; spread: how the distance between them changed
\* ("near" less than one such distance, "apart" more than three).  It asks only
\* if both fingers are down and have been for twice the tap time.
Still == [far |-> [f \in Fingers |-> [x |-> FALSE, y |-> FALSE]], spread |-> "near"]

Motions(s) ==
    IF \A f \in Fingers : s[f].prox /\ s[f].wasProx /\ s[f].age > 2 * wcmTapTime
    THEN [far: [Fingers -> [x: BOOLEAN, y: BOOLEAN]], spread: {"near"}]
         \cup {[Still EXCEPT !.spread = spread] : spread \in {"mid", "apart"}}
    ELSE {Still}

-----------------------------------------------------------------------------
(* The filter.  A state of it joins the variables one call changes, soon   *)
(* (the first finger's sample field is within the tap time of its last     *)
(* lift), and what the X server is told: left, button 1 was sent up.       *)

Filter(s, age, near) ==
    [states |-> s, lastAge |-> age, mode |-> wcmGestureMode, touchpad |-> wcmTouchpadMode,
     direction |-> wcmScrollDirection, stamp |-> tmpStamp, soon |-> near,
     left |-> FALSE, right |-> FALSE, soft |-> FALSE]

\* The wait for a second finger, or for its gesture.
Lag(g) ==
    LET one == g.states[0]
        two == g.states[1]
    IN  IF two.prox /\ g.mode = "NONE" /\ one.wasProx
        THEN [g EXCEPT !.touchpad = FALSE, !.mode = "LAG"]
        ELSE IF one.wasProx /\ one.age < WACOM_GESTURE_LAG_TIME
        THEN [g EXCEPT !.mode = IF @ = "NONE" THEN "LAG" ELSE @]
        ELSE [g EXCEPT !.mode = IF @ = "LAG" THEN "NONE" ELSE @]

Lands(s) == s.prox /\ ~s.wasProx

BothOut(g) == ~g.states[0].prox /\ ~g.states[1].prox

\* Slip: the scroll direction is kept.
EndGestureAim(g) ==
    [g EXCEPT !.soft = ~g.states[0].wasProx /\ g.mode # "NONE",
              !.mode = "NONE", !.touchpad = FALSE]

\* Both fingers are out: every mode ends.
EndGesture(g) ==
    [g EXCEPT !.soft = ~g.states[0].wasProx /\ g.mode # "NONE",
              !.mode = "NONE", !.direction = "NONE", !.touchpad = FALSE]

\* Slip: the button held by a drag is left down.
LeftUpForgotten(g) == g

\* xf86WcmSendButtonClick of button 1, up
LeftUp(g) == [g EXCEPT !.left = TRUE]

\* Two fingers were down and the second lifted in time: button 1 up, then a
\* click of button 3.
FingerTapToClick(g) ==
    LET one == g.states[0]
        two == g.states[1]
    IN  IF /\ one.age > two.age
           /\ g.lastAge <= wcmTapTime
           /\ ~two.prox /\ two.wasProx
        THEN [LeftUp(g) EXCEPT !.mode = "TAP", !.right = TRUE]
        ELSE g

\* pointsInLine, for a finger that moved as far says; the first one to move
\* along an axis chooses the direction.
Chosen(direction, far) ==
    IF direction # "NONE" \/ far.x = far.y THEN direction
    ELSE IF far.y THEN "VERT" ELSE "HORIZ"

InLine(direction, far) ==
    \/ Chosen(direction, far) = "HORIZ" /\ ~far.y
    \/ Chosen(direction, far) = "VERT" /\ ~far.x

\* The clicks and key strokes a scroll or zoom consists of are let go at once,
\* and their number changes nothing else: they are left out.
FingerScroll(g, m) ==
    LET first == Chosen(g.direction, m.far[0])
        second == Chosen(first, m.far[1])
        onLine == InLine(g.direction, m.far[0])
        asked == [g EXCEPT !.direction = IF onLine THEN second ELSE first]
    IN  IF g.mode = "SCROLL" \/ m.spread # "near" THEN g
        ELSE IF onLine /\ InLine(first, m.far[1])
        THEN [LeftUp(asked) EXCEPT !.mode = "SCROLL"]
        ELSE asked

FingerZoom(g, m) ==
    IF g.mode # "ZOOM" /\ m.spread = "apart"
    THEN [LeftUp(g) EXCEPT !.mode = "ZOOM"] ELSE g

\* Scroll is considered before zoom, and both only after the fingers have
\* rested for twice the tap time.
ScrollOrZoom(g, m) ==
    LET both == g.states[0].prox /\ g.states[1].prox
        scrolled == FingerScroll(g, m)
    IN  IF g.mode = "ZOOM" /\ both THEN FingerZoom(g, m)
        ELSE IF g.mode = "SCROLL" THEN scrolled
        ELSE IF both /\ \A f \in Fingers : g.states[f].age > 2 * wcmTapTime
             THEN IF scrolled.mode = "SCROLL" THEN scrolled ELSE FingerZoom(scrolled, m)
             ELSE g

\* Slip: a tap does not keep other gestures out.
TapLastsNot(g) == FALSE

TapLasts(g) == g.mode = "TAP"

\* A gesture with at least one finger down.
Recognise(g, m) ==
    LET tapped == IF g.mode \in {"SCROLL", "ZOOM"} THEN g ELSE FingerTapToClick(g)
    IN  IF TapLasts(tapped) \/ \E f \in Fingers : ~g.states[f].wasProx
        THEN tapped ELSE ScrollOrZoom(tapped, m)

\* xf86WcmGestureFilter up to ret
GestureFilter(g, channel, m) ==
    LET begun == Lag(g)
    IN  IF ~wcmGesture THEN g
        ELSE IF Lands(g.states[0]) /\ begun.mode = "NONE" /\ channel = 0 THEN begun
        ELSE IF BothOut(begun) THEN EndGesture(begun)
        ELSE Recognise(begun, m)

\* Whether the first finger holds button 1 down on a relative device: it
\* does from a landing soon after a lift to the next lift.
Drags(g) ==
    LET one == g.states[0]
    IN  one.prox /\ (g.touchpad \/ (~one.wasProx /\ g.soon))

\* xf86WcmFirstFingerClick
FirstFingerClick(g) ==
    IF g.states[0].prox
    THEN [g EXCEPT !.touchpad = @ \/ Drags(g)]
    ELSE [g EXCEPT !.touchpad = FALSE, !.stamp = 0]

Clicks(g, channel) ==
    g.mode = "NONE" /\ channel = 0 /\ ~priv[TouchDevice].absolute

\* The whole filter
Filtering(s, age, near, channel, m) ==
    LET g == GestureFilter(Filter(s, age, near), channel, m)
    IN  IF Clicks(g, channel) THEN FirstFingerClick(g) ELSE g

-----------------------------------------------------------------------------
(* The reader's part: which samples are let through, and what comes of     *)
(* them.                                                                   *)

\* A report finds the channel of its finger cleared if that was out of
\* proximity.
Cleared(f) == ~hand[f] \/ (f = 0 /\ lost)
Last(f) == IF Cleared(f) THEN Away ELSE states[f]

\* "time stamp for 2GT gesture events": when the kernel tells that the finger
\* landed, or that one whose landing was used lifted.
Stamp(f, prox) == IF ~hand[f] \/ (Last(f).prox /\ ~prox) THEN 0 ELSE sample[f]

Used(s, prox, age) == [prox |-> prox, age |-> age, wasProx |-> s.prox]

\* Whether the first finger's field is within the tap time of its last lift.
\* One that was cleared is zero, as is the time of a lift that never was.
Soons(f) ==
    IF f # 0 THEN {soon}
    ELSE IF ~hand[0] THEN {tmpStamp <= wcmTapTime}
    ELSE IF lost THEN BOOLEAN ELSE {soon}

LastAge(f, s) ==
    IF f = 0 THEN lastAge ELSE IF s.age < MaxTap THEN s.age ELSE MaxTap

Finger(prox, buttons, moved) ==
    [type |-> "TOUCH", idType |-> "CURSOR", serial |-> 0, proximity |-> prox,
     x |-> CHOOSE x \in Positions : TRUE, buttons |-> buttons, pressure |-> 0,
     distance |-> 0, moved |-> moved, other |-> FALSE]

FingerButtons(s, g) ==
    IF s.prox /\ (FingerButton \/ (~priv[TouchDevice].absolute /\ Drags(g)))
    THEN {1} ELSE {}

\* The clicks of the filter, as posted for the touch device.
Clicked(g) ==
    LET v == View(TouchDevice)
        w == IF g.left THEN [v EXCEPT !.down = @ \ {1}, !.p.oldButtons = {}] ELSE v
    IN  IF g.right THEN [w EXCEPT !.down = @ \ {3}] ELSE w

\* What the filter left is posted; the first finger's sample is dispatched
\* unless a gesture is on.  A soft prox-out and a dispatched prox-out of one
\* sample do what either does.
Passed(g, channel) ==
    LET s == g.states[0]
    IN  IF g.mode = "NONE" /\ channel = 0
        THEN \E moved \in BOOLEAN, suppress \in IF s.prox = s.wasProx THEN {1, 2} ELSE {1} :
               Dispatch(TouchPort, Finger(s.prox, FingerButtons(s, g), moved), suppress)
        ELSE /\ Post(IF g.soft THEN {TouchDevice} ELSE {}, TouchDevice,
                     IF g.soft THEN SoftOut(Clicked(g)) ELSE Clicked(g))
             /\ UNCHANGED <<enabled, current, wcmMaxCursorDist, commonVars>>

SetFilter(g) ==
    /\ states' = g.states
    /\ lastAge' = g.lastAge
    /\ wcmGestureMode' = g.mode
    /\ wcmTouchpadMode' = g.touchpad
    /\ wcmScrollDirection' = g.direction
    /\ tmpStamp' = g.stamp

\* Touch is off, or beside a pen: the sample is dropped.
Deaf == ~wcmTouch[TouchPort] \/ syslast

Touches(f, prox) ==
    /\ hand' = [hand EXCEPT ![f] = prox]
    /\ lost' = (lost /\ f # 0)
    /\ sample' = [sample EXCEPT ![f] = IF prox THEN Stamp(f, prox) ELSE MaxAge]

\* A sample of a finger is used.
FingerSample(f, prox) ==
    /\ ~Deaf
    /\ Touches(f, prox)
    /\ syslast' = FALSE
    /\ soon' = (soon /\ f # 0)
    /\ LET now == [states EXCEPT ![f] = Used(Last(f), prox, Stamp(f, prox))]
       IN  \E near \in Soons(f), m \in Motions(now) :
             LET g == Filtering(now, LastAge(f, Last(f)), near, f, m)
             IN  SetFilter(g) /\ Passed(g, f)
    /\ UNCHANGED <<wcmGesture, keys>>

Land(f) == ~hand[f] /\ FingerSample(f, TRUE)
Move(f) == hand[f] /\ FingerSample(f, TRUE)
Lift(f) == hand[f] /\ FingerSample(f, FALSE)

\* A sample is dropped by the reader, or ignored by a Bamboo because it jumps
\* or lies on an edge.
Unheard(f, prox) ==
    /\ hand[f] \/ prox
    /\ \/ Deaf /\ UNCHANGED syslast
       \/ ~Deaf /\ ~FingerButton /\ prox /\ syslast' = FALSE
    /\ Touches(f, prox)
    /\ \E near \in Soons(f) : soon' = (near /\ (f = 0 => prox))
    /\ states' = [states EXCEPT ![f] = Last(f)]
    /\ lastAge' = IF f = 1 /\ Cleared(f) THEN MaxTap ELSE lastAge
    /\ UNCHANGED <<vars, wcmGesture, keys, wcmGestureMode, wcmTouchpadMode,
                   wcmScrollDirection, tmpStamp>>

-----------------------------------------------------------------------------
(* The other tools, the clock and the settings.                            *)

\* A soft prox-out resets the drag only of a device whose flags are TOUCH_ID
\* and nothing else: DEVICE_ID(priv->flags == TOUCH_ID).
DragAfter(sentOut) ==
    wcmTouchpadMode /\ ~(sentOut /\ ~CoreTouch /\ ~priv[TouchDevice].absolute)

\* The last express key's release comes once, with the number of the first
\* finger, and is a sample out of proximity on that finger's channel.
ReleasesFirst(c, pk) == c = TouchPort /\ pk.type = "PAD" /\ ~pk.proximity

\* A sample of another tool is dispatched, unless it is on the touch port
\* and a gesture is on.
OtherSample(c, pk) ==
    /\ ReleasesFirst(c, pk) => keys # {}
    /\ syslast' = (pk.type \in {"STYLUS", "ERASER"} /\ pk.proximity)
    /\ keys' = IF pk.type = "PAD" THEN pk.buttons ELSE keys
    /\ IF ReleasesFirst(c, pk)
       THEN /\ states' = [states EXCEPT ![0] = Used(Last(0), FALSE, sample[0])]
            /\ sample' = [sample EXCEPT ![0] = MaxAge]
            /\ lost' = hand[0]
       ELSE UNCHANGED <<states, sample, lost>>
    /\ \/ c = TouchPort /\ wcmGestureMode # "NONE"
          /\ UNCHANGED <<vars, wcmTouchpadMode>>
       \/ ~(c = TouchPort /\ wcmGestureMode # "NONE")
          /\ \E suppress \in {1, 2} : Dispatch(c, pk, suppress)
          /\ wcmTouchpadMode' = DragAfter(priv[TouchDevice].oldProximity
                                          /\ ~priv'[TouchDevice].oldProximity)
    /\ UNCHANGED <<hand, soon, wcmGesture, lastAge, wcmGestureMode, wcmScrollDirection, tmpStamp>>

Older(age, max) == IF age < max THEN age + 1 ELSE age

Tick ==
    /\ tmpStamp' = Older(tmpStamp, MaxTap)
    /\ lastAge' = Older(lastAge, MaxTap)
    /\ states' = [f \in Fingers |-> [states[f] EXCEPT !.age = Older(@, MaxAge)]]
    /\ sample' = [f \in Fingers |-> Older(sample[f], MaxAge)]
    /\ UNCHANGED <<vars, hand, lost, soon, wcmGesture, wcmGestureMode, wcmTouchpadMode,
                   wcmScrollDirection, syslast, keys>>

\* XWACOM_PARAM_GESTURE
SetGesture(on) ==
    /\ wcmGesture' = on
    /\ UNCHANGED <<vars, hand, lost, sample, soon, syslast, keys, filterVars>>

TouchInit ==
    /\ Init
    /\ hand = [f \in Fingers |-> FALSE] /\ lost = FALSE
    /\ sample = [f \in Fingers |-> MaxAge] /\ soon = FALSE
    /\ states = [f \in Fingers |-> Away]
    /\ wcmGesture \in GestureModes
    /\ wcmGestureMode = "NONE"
    /\ wcmTouchpadMode = FALSE
    /\ wcmScrollDirection = "NONE"
    /\ lastAge = MaxTap
    /\ tmpStamp = MaxTap
    /\ syslast = FALSE
    /\ keys = {}

FingerNext ==
    \E f \in Fingers : \/ Land(f) \/ Move(f) \/ Lift(f)
                       \/ \E prox \in BOOLEAN : Unheard(f, prox)

OtherNext ==
    \E c \in Commons, pk \in Packets : ToolsFor(c, pk) # {} /\ OtherSample(c, pk)

TouchSettings ==
    \/ \E on \in TouchModes : SetTouch(TouchPort, on) /\ UNCHANGED touchVars
    \/ \E on \in GestureModes : SetGesture(on)

TouchNext == FingerNext \/ OtherNext \/ Tick \/ TouchSettings

TouchSpec == TouchInit /\ [][TouchNext]_allVars

\* The settings are changed only with no finger on the tablet.
CarefulTouchNext ==
    FingerNext \/ OtherNext \/ Tick
    \/ ((\A f \in Fingers : ~hand[f]) /\ TouchSettings)

CarefulTouchSpec == TouchInit /\ [][CarefulTouchNext]_allVars
-----------------------------------------------------------------------------
(* Properties.                                                             *)

BothAway == \A f \in Fingers : ~states[f].prox
Committed == {"TAP", "SCROLL", "ZOOM"}

\* A tap, scroll or zoom lasts until both fingers are out ("Change mode
\* happens only when both fingers are out"): neither the clock nor a finger
\* that comes back makes one of them another, or ends it early.
GestureLasts ==
    [][(wcmGestureMode \in Committed /\ wcmGestureMode' # wcmGestureMode) =>
         BothAway']_allVars

\* While a gesture is on, the finger that began it holds no button 1 down
\* at the X server ("send left up first"), whether it was a drag or the
\* finger's own button.
NoDragInGesture == wcmGestureMode \in Committed => 1 \notin down[TouchDevice]

\* Once both fingers have left the tablet nothing of the gesture is left: the
\* next one starts from no mode, no direction, no drag.  An express key may
\* have been released meanwhile, and the filter's record of the first finger
\* with it.
Ended == wcmGestureMode = "NONE" /\ wcmScrollDirection = "NONE" /\ ~wcmTouchpadMode
GestureEnds == (\A f \in Fingers : ~hand[f]) => Ended

\* The touch device is left out of proximity, with nothing held, when both
\* fingers are out ("first finger was out-prox when GestureMode was still
\* on: send first finger out prox").
FingersOut ==
    BothAway =>
      ~xprox[TouchDevice] /\ down[TouchDevice] = {}

\* A tap of the second finger is one right click ("translate second finger tap
\* to right click"): the first finger's next sample is not taken for it too.
OneClickPerTap ==
    wcmGestureMode = "TAP" =>
      LET again == [states EXCEPT ![0] = Used(@, TRUE, @.age)]
      IN  ~FingerTapToClick(Filter(again, lastAge, FALSE)).right

\* A drag is begun by a finger that landed soon after it was lifted.
DragIsDoubleTap ==
    [][~(1 \in down[TouchDevice]) /\ 1 \in down'[TouchDevice] =>
         tmpStamp <= wcmTapTime \/ soon \/ lost]_allVars

\* A pad on the touch port has the keys the user presses.
PadFollowsKeys ==
    \A d \in enabled : DevType[d] = "PAD" => priv[d].oldButtons = keys
=============================================================================
