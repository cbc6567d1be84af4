---------------------------- MODULE WacomTouchProof ----------------------------
(***************************************************************************)
(* Proofs about WacomTouch.  The gesture filter is a function of a filter  *)
(* state, so what it may do to the mode is a lemma about that function     *)
(* (FilteringKeeps); what is posted meanwhile takes buttons of the touch   *)
(* device up but never down (SoftOutLess, DispatchTyped).  Its clicks edit *)
(* the X server's view of the touch device behind dispatch's back, so the  *)
(* invariant of WacomDispatchProof does not hold here: only its types do.  *)
(***************************************************************************)
EXTENDS WacomTouch, WacomDispatchProof

FilterState ==
    [states: [Fingers -> FingerState], lastAge: 0 .. MaxTap, mode: Modes,
     touchpad: BOOLEAN, direction: Directions, stamp: 0 .. MaxTap, soon: BOOLEAN,
     left: BOOLEAN, right: BOOLEAN, soft: BOOLEAN]

Motion == [far: [Fingers -> [x: BOOLEAN, y: BOOLEAN]], spread: {"near", "mid", "apart"}]

\* The inductive invariant, with or without a pen.
TouchInv == TouchTypeOK /\ CurrentInv /\ NoDragInGesture

\* Without one, a finger the filter believes there is there, and heard; with
\* gestures switched off nothing but a finger's drag goes on, with touch off
\* nothing at all; and only a relative device drags.
HeardInv ==
    /\ ~syslast
    /\ \A f \in Fingers : states[f].prox => hand[f] /\ wcmTouch[TouchPort]

OffInv ==
    ~wcmGesture =>
      /\ wcmGestureMode = "NONE" /\ wcmScrollDirection = "NONE"
      /\ wcmTouchpadMode => hand[0]

QuietInv == ~wcmTouch[TouchPort] => Ended

DragInv == wcmTouchpadMode => ~priv[TouchDevice].absolute

PenlessInv ==
    TouchInv /\ HeardInv /\ OffInv /\ QuietInv /\ DragInv /\ GestureEnds

-----------------------------------------------------------------------------
(* What is posted, whatever the X server was told before.                  *)

\* Sending buttons keeps a view a view.
LEMMA SendButtonsTyped ==
    ASSUME NEW v \in Views, NEW bs \in SUBSET Buttons
    PROVE  LET w == SendButtons(v, bs)
           IN  w \in Views /\ w.dev = v.dev
<1> DEFINE u == [v EXCEPT !.p.tpcButtons = TRUE]
           u1 == [u EXCEPT !.p.tpcButtonOne = TRUE]
           n == [v EXCEPT !.p.tpcButtonOne = FALSE]
           o == [v EXCEPT !.p.tpcButtons = FALSE, !.p.tpcButtonOne = FALSE]
           r == SendAButtons(n, {1}, {})
<1>1. /\ u \in Views /\ u.dev = v.dev
      /\ u1 \in Views /\ u1.dev = v.dev
      /\ n \in Views /\ n.dev = v.dev
      /\ o \in Views /\ o.dev = v.dev
  BY DEF Views, PrivState
<1> HIDE DEF u1, n, o
<1>2. r \in Views /\ r.dev = v.dev
  BY <1>1, SendAButtonsFrame
<1> HIDE DEF u, r
<1>3. TpcTipDown(v, bs) \in Views /\ TpcTipDown(v, bs).dev = v.dev
  <2>1. \/ TpcTipDown(v, bs) = SendAButtons(u, bs \ {1}, bs \ {1})
        \/ TpcTipDown(v, bs) = SendAButtons(u1, {1}, {1})
    BY DEF TpcTipDown, u, u1
  <2> QED
    BY <1>1, <2>1, SendAButtonsFrame
<1>4. TpcTipHeld(v, bs) \in Views /\ TpcTipHeld(v, bs).dev = v.dev
  BY <1>2, SendAButtonsFrame DEF TpcTipHeld, r, n
<1>5. TpcTipUp(v, bs) \in Views /\ TpcTipUp(v, bs).dev = v.dev
  <2> DEFINE sent == ((Changed(v, bs) \cup bs) \ {1}) \cup
                     (IF v.p.tpcButtonOne THEN {1} ELSE {})
  <2>1. TpcTipUp(v, bs) = SendAButtons(o, sent, {})
    BY DEF TpcTipUp, o
  <2> HIDE DEF sent
  <2> QED
    BY <1>1, <2>1, SendAButtonsFrame
<1> QED
  BY <1>3, <1>4, <1>5, SendAButtonsFrame DEF SendButtons

\* A release leaves less held.
LEMMA SendAButtonsLess ==
    ASSUME NEW v \in Views, NEW sent
    PROVE  SendAButtons(v, sent, {}).down \subseteq v.down
  BY DEF SendAButtons, Views

\* So do all buttons up.
LEMMA SendButtonsLess ==
    ASSUME NEW v \in Views
    PROVE  SendButtons(v, {}).down \subseteq v.down
<1> DEFINE o == [v EXCEPT !.p.tpcButtons = FALSE, !.p.tpcButtonOne = FALSE]
<1>1. o \in Views /\ o.down = v.down
  BY DEF Views, PrivState
<1> HIDE DEF o
<1>2. TpcTipUp(v, {}).down \subseteq v.down
  BY <1>1, SendAButtonsLess DEF TpcTipUp, o
<1>3. SendAButtons(v, Changed(v, {}), {}).down \subseteq v.down
  BY SendAButtonsLess
<1> QED
  BY <1>2, <1>3 DEF SendButtons

\* A sample out of proximity takes buttons up, never down.
LEMMA OutOfProximityLess ==
    ASSUME NEW v \in Views
    PROVE  LET w == OutOfProximity(v)
           IN  w \in Views /\ w.dev = v.dev /\ w.down \subseteq v.down
<1> DEFINE q == IF v.p.oldProximity THEN v ELSE [v EXCEPT !.p.oldButtons = {}]
           r == SendButtons(q, {})
           w == [r EXCEPT !.p.oldProximity = FALSE, !.p.oldButtons = {},
                          !.xprox = IF q.p.oldProximity THEN FALSE ELSE @]
<1>1. q \in Views /\ q.dev = v.dev /\ q.down = v.down
  BY DEF Views, PrivState
<1>2. {} \in SUBSET Buttons
  OBVIOUS
<1>3. OutOfProximity(v) = w
  BY DEF OutOfProximity
<1> HIDE DEF q
<1>4. r \in Views /\ r.dev = v.dev /\ r.down \subseteq v.down
  BY <1>1, <1>2, SendButtonsTyped, SendButtonsLess
<1> HIDE DEF r
<1>5. w \in Views /\ w.dev = r.dev /\ w.down = r.down
  BY <1>4 DEF Views, PrivState
<1> HIDE DEF w
<1> QED
  BY <1>3, <1>4, <1>5

\* A sample in proximity keeps a view a view.
LEMMA InProximityTyped ==
    ASSUME NEW v \in Views, NEW bs \in SUBSET Buttons
    PROVE  LET w == InProximity(v, bs)
           IN  w \in Views /\ w.dev = v.dev
<1> DEFINE q == IF v.p.oldProximity THEN v
                ELSE [v EXCEPT !.p.oldButtons = {}, !.xprox = TRUE]
           r == SendCommonEvents(q, bs)
           w == [r EXCEPT !.p.oldProximity = TRUE, !.p.oldButtons = bs]
<1>1. q \in Views /\ q.dev = v.dev
  BY DEF Views, PrivState
<1>2. InProximity(v, bs) = w
  BY DEF InProximity
<1> HIDE DEF q
<1>3. r \in Views /\ r.dev = v.dev
  BY <1>1, SendButtonsTyped DEF SendCommonEvents
<1> HIDE DEF r
<1>4. w \in Views /\ w.dev = r.dev
  BY <1>3 DEF Views, PrivState
<1> HIDE DEF w
<1> QED
  BY <1>2, <1>3, <1>4

\* Whatever a sample is, its device keeps a record, and what holds nothing
\* new after a release.
LEMMA SendEventsTyped ==
    ASSUME NEW v \in Views, NEW ds, ds.buttons \in SUBSET Buttons
    PROVE  LET w == SendEvents(v, ds)
           IN  w \in Views /\ w.dev = v.dev
  BY InProximityTyped, OutOfProximityLess DEF SendEvents

\* A soft prox-out takes buttons up, never down.
LEMMA SoftOutLess ==
    ASSUME NEW v \in Views
    PROVE  LET w == SoftOut(v)
           IN  w \in Views /\ w.dev = v.dev /\ w.down \subseteq v.down
<1> DEFINE ds == [type |-> DevType[v.dev], serial |-> 0, proximity |-> FALSE,
                  buttons |-> {}, other |-> FALSE]
<1>1. SoftOut(v) = SendEvents(v, ds)
  BY DEF SoftOut
<1>2. ds.buttons = {} /\ ~ds.other /\ ~ds.proximity
  OBVIOUS
<1> HIDE DEF ds
<1>3. SendEvents(v, ds) = v \/ SendEvents(v, ds) = OutOfProximity(v)
  BY <1>2 DEF SendEvents
<1> QED
  BY <1>1, <1>3, OutOfProximityLess

\* What is posted is typed, and a bystander holds nothing new.
LEMMA PostTyped ==
    ASSUME TypeOK, NEW outs, NEW d, NEW v,
           d \in Devices => v \in Views /\ v.dev = d,
           Post(outs, d, v)
    PROVE  /\ priv' \in [Devices -> PrivState]
           /\ down' \in [Devices -> SUBSET Codes]
           /\ xprox' \in [Devices -> BOOLEAN]
           /\ d \in Devices => down'[d] = v.down
           /\ \A e \in Devices : e # d => down'[e] \subseteq down[e]
<1> DEFINE view(e) == IF e = d THEN v
                      ELSE IF e \in outs THEN SoftOut(View(e)) ELSE View(e)
<1>1. /\ priv' = [e \in Devices |-> view(e).p]
      /\ down' = [e \in Devices |-> view(e).down]
      /\ xprox' = [e \in Devices |-> view(e).xprox]
  BY DEF Post
<1>2. ASSUME NEW e \in Devices
      PROVE  View(e) \in Views /\ View(e).down = down[e]
  BY DEF View, Views, TypeOK
<1>3. ASSUME NEW e \in Devices
      PROVE  view(e) \in Views /\ (e # d => view(e).down \subseteq down[e])
  BY <1>2, SoftOutLess
<1>4. d \in Devices => view(d) = v
  OBVIOUS
<1> HIDE DEF view
<1>5. \A e \in Devices : view(e).p \in PrivState /\ view(e).down \in SUBSET Codes
                         /\ view(e).xprox \in BOOLEAN
  BY <1>3 DEF Views
<1> QED
  BY <1>1, <1>3, <1>4, <1>5

\* What dispatch notes before it sends keeps the device's view a view.
LEMMA NotedTyped ==
    ASSUME TypeOK, NEW d \in Devices, NEW ds \in Packet
    PROVE  LET v == [View(d) EXCEPT !.p = Noted(d, ds)]
           IN  /\ v \in Views /\ v.dev = d
               /\ Filtered(d, ds).buttons \in SUBSET Buttons
<1>1. priv[d] \in PrivState /\ View(d) \in Views /\ View(d).dev = d
  BY DEF TypeOK, View, Views
<1>2. MinPressure(priv[d], ds) \in Pressures
  BY <1>1, ValueAssumption DEF MinPressure, Lesser, PrivState, Packet, Pressures
<1>3. ds.proximity \in BOOLEAN
  BY DEF Packet
<1>4. Noted(d, ds) \in PrivState
  BY <1>1, <1>2, <1>3 DEF Noted, PrivState
<1>5. [View(d) EXCEPT !.p = Noted(d, ds)] \in Views
  BY <1>1, <1>4 DEF View, Views
<1>6. [View(d) EXCEPT !.p = Noted(d, ds)].dev = d
  BY <1>1 DEF View
<1>7. 1 \in Buttons
  BY ValueAssumption DEF Buttons
<1>8. TipButton(ds, MinPressure(priv[d], ds), wcmThreshold[Common[d]]) \in SUBSET Buttons
  BY <1>7 DEF TipButton, Packet
<1>9. Filtered(d, ds).buttons \in SUBSET Buttons
  BY <1>8 DEF Filtered, Packet
<1> QED
  BY <1>5, <1>6, <1>9

\* Dispatch keeps the types, whatever the X server was told before; what
\* devices of other types than the sample's hold does not grow.
LEMMA DispatchTyped ==
    ASSUME TypeOK, CurrentInv, NEW c, NEW ds \in Packet, NEW suppress,
           Dispatch(c, ds, suppress)
    PROVE  /\ TypeOK' /\ CurrentInv'
           /\ wcmTouch' = wcmTouch
           /\ \A e \in Devices : DevType[e] # ds.type => down'[e] \subseteq down[e]
<1>1. PICK t \in ToolsFor(c, ds) :
        \/ DispatchNowhere(t, ds)
        \/ DispatchIdle(t, ds, suppress)
        \/ DispatchSend(t, ds, suppress)
  BY DEF Dispatch
<1>2. t \in Tools /\ ToolType[t] = ds.type
  BY ToolsForType
<1> DEFINE d == AreaFor(t, ds.x)
           outs == AreaOuts(t, ds.x) \cup TouchOuts(d)
           noted == [View(d) EXCEPT !.p = Noted(d, ds)]
           filtered == Filtered(d, ds)
           sent == SendEvents(noted, filtered)
<1>3. /\ d \in DevicesOf(t) \cup {NoDevice}
      /\ DevicesOf(t) \subseteq Devices
      /\ \A e \in DevicesOf(t) : DevType[e] = ds.type
      /\ NoDevice \notin Devices
      /\ enabled \subseteq Devices
      /\ wcmMaxCursorDist \in [Commons -> Distances]
      /\ d \in Devices => Common[d] \in Commons
      /\ current \in [Tools -> Devices \cup {NoDevice}]
  BY <1>2, AreaForType, AreaTypes, DeviceAssumption, ToolAssumption DEF TypeOK, DevicesOf
<1>4. ASSUME NEW o, NEW e, NEW v, NEW a \in {d, NoDevice},
             e \in {d, NoDevice},
             e \in Devices => v \in Views /\ v.dev = e,
             Post(o, e, v),
             current' = [current EXCEPT ![t] = a],
             wcmMaxCursorDist' \in [Commons -> Distances],
             UNCHANGED <<enabled, commonVars>>
      PROVE  /\ TypeOK' /\ CurrentInv'
             /\ wcmTouch' = wcmTouch
             /\ \A f \in Devices : DevType[f] # ds.type => down'[f] \subseteq down[f]
  <2> HIDE DEF d
  <2>1. /\ priv' \in [Devices -> PrivState]
        /\ down' \in [Devices -> SUBSET Codes]
        /\ xprox' \in [Devices -> BOOLEAN]
        /\ \A f \in Devices : f # e => down'[f] \subseteq down[f]
    BY <1>4, PostTyped
  <2>2. /\ enabled' = enabled /\ wcmTPCButton' = wcmTPCButton
        /\ wcmTouch' = wcmTouch /\ wcmThreshold' = wcmThreshold
    BY <1>4 DEF commonVars
  <2>3. current' \in [Tools -> Devices \cup {NoDevice}]
    BY <1>3, <1>4
  <2>4. TypeOK'
    BY <1>4, <2>1, <2>2, <2>3 DEF TypeOK
  <2>5. CurrentInv'
    BY <1>3, <1>4 DEF CurrentInv
  <2>6. \A f \in Devices : DevType[f] # ds.type => f # e
    BY <1>3, <1>4
  <2> QED
    BY <2>1, <2>2, <2>4, <2>5, <2>6
<1>5. CASE DispatchNowhere(t, ds)
  <2>1. /\ Post(AreaOuts(t, ds.x), NoDevice, <<>>)
        /\ current' = [current EXCEPT ![t] = d]
        /\ UNCHANGED <<enabled, wcmMaxCursorDist, commonVars>>
    BY <1>5 DEF DispatchNowhere, PostOuts
  <2> HIDE DEF d
  <2> QED
    BY <1>3, <1>4, <2>1
<1>6. CASE DispatchIdle(t, ds, suppress)
  <2>1. /\ d \in Devices
        /\ Post(outs, d, noted)
        /\ current' = [current EXCEPT ![t] = d]
        /\ wcmMaxCursorDist' \in [Commons -> Distances]
        /\ UNCHANGED <<enabled, commonVars>>
    BY <1>3, <1>6, CursorTypes DEF DispatchIdle
  <2>2. noted \in Views /\ noted.dev = d
    BY <2>1, NotedTyped
  <2> HIDE DEF d, outs, noted
  <2> QED
    BY <1>4, <2>1, <2>2
<1>7. CASE DispatchSend(t, ds, suppress)
  <2>1. /\ d \in Devices
        /\ Post(outs, d, sent)
        /\ current' = [current EXCEPT ![t] = IF filtered.proximity THEN d ELSE NoDevice]
        /\ wcmMaxCursorDist' \in [Commons -> Distances]
        /\ UNCHANGED <<enabled, commonVars>>
    BY <1>3, <1>7, CursorTypes DEF DispatchSend
  <2>2. noted \in Views /\ noted.dev = d /\ filtered.buttons \in SUBSET Buttons
    BY <2>1, NotedTyped
  <2> HIDE DEF noted, filtered
  <2>3. sent \in Views /\ sent.dev = d
    BY <2>2, SendEventsTyped
  <2> HIDE DEF d, outs, sent
  <2> QED
    BY <1>4, <2>1, <2>3
<1> QED
  BY <1>1, <1>5, <1>6, <1>7

-----------------------------------------------------------------------------
(* The filter.                                                             *)

\* What one call may do to the mode: a tap, scroll or zoom ends only with
\* both fingers out, and begins only with button 1 sent up; with both out
\* nothing is left of a gesture.
Keeps(g, w) ==
    /\ w \in FilterState
    /\ w.states = g.states
    /\ g.mode \in Committed /\ w.mode # g.mode => BothOut(g)
    /\ w.mode \in Committed /\ w.mode # g.mode => w.left

\* The lag is no committed gesture and leaves those that are.
LEMMA LagKeeps ==
    ASSUME NEW g \in FilterState
    PROVE  Lag(g) \in FilterState /\ Lag(g).states = g.states
           /\ (Lag(g).mode = g.mode \/ {Lag(g).mode, g.mode} \subseteq {"NONE", "LAG"})
           /\ Lag(g).direction = g.direction
           /\ Lag(g).left = g.left
  BY DEF Lag, FilterState, Modes

\* A tap sends button 1 up.
LEMMA TapKeeps ==
    ASSUME NEW g \in FilterState
    PROVE  LET w == FingerTapToClick(g)
           IN  w = g \/ (w \in FilterState /\ w.states = g.states /\ w.mode = "TAP" /\ w.left)
  BY DEF FingerTapToClick, LeftUp, FilterState, Modes

\* So does a scroll, that never begins while another one lasts ...
LEMMA ScrollKeeps ==
    ASSUME NEW g \in FilterState, NEW m \in Motion
    PROVE  LET w == FingerScroll(g, m)
           IN  /\ w \in FilterState /\ w.states = g.states
               /\ (w.mode = g.mode /\ w.left = g.left) \/ (w.mode = "SCROLL" /\ w.left)
               /\ g.mode = "SCROLL" => w = g
<1> DEFINE first == Chosen(g.direction, m.far[0])
           second == Chosen(first, m.far[1])
           onLine == InLine(g.direction, m.far[0])
           asked == [g EXCEPT !.direction = IF onLine THEN second ELSE first]
<1>1. first \in Directions /\ second \in Directions
  BY DEF Chosen, FilterState, Directions
<1>2. /\ asked \in FilterState /\ asked.states = g.states
      /\ asked.mode = g.mode /\ asked.left = g.left
  BY <1>1 DEF FilterState
<1>3. FingerScroll(g, m) \in {g, asked, [LeftUp(asked) EXCEPT !.mode = "SCROLL"]}
      /\ (g.mode = "SCROLL" => FingerScroll(g, m) = g)
  BY DEF FingerScroll
<1> HIDE DEF asked
<1>4. LET w == [LeftUp(asked) EXCEPT !.mode = "SCROLL"]
      IN  w \in FilterState /\ w.states = g.states /\ w.mode = "SCROLL" /\ w.left
  BY <1>2 DEF LeftUp, FilterState, Modes
<1> QED
  BY <1>2, <1>3, <1>4

\* ... and a zoom.
LEMMA ZoomKeeps ==
    ASSUME NEW g \in FilterState, NEW m \in Motion
    PROVE  LET w == FingerZoom(g, m)
           IN  /\ w \in FilterState /\ w.states = g.states
               /\ w = g \/ (w.mode = "ZOOM" /\ w.left)
               /\ g.mode = "ZOOM" => w = g
  BY DEF FingerZoom, LeftUp, FilterState, Modes

\* A gesture that goes on is not made another one.
LEMMA RecogniseKeeps ==
    ASSUME NEW g \in FilterState, NEW m \in Motion
    PROVE  LET w == Recognise(g, m)
           IN  /\ w \in FilterState /\ w.states = g.states
               /\ g.mode \in Committed => w.mode = g.mode
               /\ w.mode \in Committed /\ w.mode # g.mode => w.left
<1> DEFINE t == FingerTapToClick(g)
           tapped == IF g.mode \in {"SCROLL", "ZOOM"} THEN g ELSE t
           moved == ScrollOrZoom(tapped, m)
<1>1. /\ tapped \in FilterState /\ tapped.states = g.states
      /\ tapped = g \/ (tapped.mode = "TAP" /\ tapped.left /\ g.mode \notin {"SCROLL", "ZOOM"})
  BY TapKeeps
<1> HIDE DEF tapped
<1>2. ASSUME tapped.mode # "TAP"
      PROVE  /\ moved \in FilterState /\ moved.states = g.states
             /\ g.mode \in Committed => moved.mode = g.mode
             /\ moved.mode \in Committed /\ moved.mode # g.mode => moved.left
  <2> DEFINE s == FingerScroll(g, m)
  <2>1. tapped = g /\ g.mode # "TAP"
    BY <1>1, <1>2
  <2>2. /\ s \in FilterState /\ s.states = g.states
        /\ (s.mode = g.mode /\ s.left = g.left) \/ (s.mode = "SCROLL" /\ s.left)
        /\ g.mode = "SCROLL" => s = g
    BY ScrollKeeps
  <2>3. \/ g.mode # "SCROLL" /\ moved = FingerZoom(g, m)
        \/ g.mode = "SCROLL" /\ moved = s
        \/ g.mode # "SCROLL" /\ g.mode # "ZOOM" /\ moved = s
        \/ g.mode # "SCROLL" /\ g.mode # "ZOOM" /\ s.mode # "SCROLL"
           /\ moved = FingerZoom(s, m)
        \/ moved = g
    BY <2>1 DEF ScrollOrZoom
  <2> HIDE DEF s, moved
  <2>4. /\ FingerZoom(g, m) \in FilterState /\ FingerZoom(g, m).states = g.states
        /\ FingerZoom(g, m) = g \/ (FingerZoom(g, m).mode = "ZOOM" /\ FingerZoom(g, m).left)
        /\ g.mode = "ZOOM" => FingerZoom(g, m) = g
    BY ZoomKeeps
  <2>5. /\ FingerZoom(s, m) \in FilterState /\ FingerZoom(s, m).states = s.states
        /\ FingerZoom(s, m) = s \/ (FingerZoom(s, m).mode = "ZOOM" /\ FingerZoom(s, m).left)
    BY <2>2, ZoomKeeps
  <2> QED
    BY <2>1, <2>2, <2>3, <2>4, <2>5 DEF Committed
<1>3. Recognise(g, m) = tapped \/ (tapped.mode # "TAP" /\ Recognise(g, m) = moved)
  BY DEF Recognise, TapLasts, tapped
<1>4. tapped.mode = "TAP" => tapped.mode = g.mode \/ tapped.left
  BY <1>1
<1> HIDE DEF moved
<1> QED
  BY <1>1, <1>2, <1>3, <1>4 DEF Committed

\* Both fingers out end every mode.
LEMMA EndKeeps ==
    ASSUME NEW g \in FilterState
    PROVE  LET w == EndGesture(g)
           IN  /\ w \in FilterState /\ w.states = g.states
               /\ w.mode = "NONE" /\ w.direction = "NONE" /\ ~w.touchpad
  BY DEF EndGesture, FilterState, Modes, Directions

\* The gesture filter up to the first finger's click.
LEMMA GestureFilterKeeps ==
    ASSUME NEW g \in FilterState, NEW channel, NEW m \in Motion
    PROVE  LET w == GestureFilter(g, channel, m)
           IN  /\ Keeps(g, w)
               /\ wcmGesture /\ BothOut(g) =>
                    w.mode = "NONE" /\ w.direction = "NONE" /\ ~w.touchpad
               /\ ~wcmGesture => w = g
<1> DEFINE begun == Lag(g)
           w == GestureFilter(g, channel, m)
<1>1. /\ begun \in FilterState /\ begun.states = g.states
      /\ begun.mode = g.mode \/ {begun.mode, g.mode} \subseteq {"NONE", "LAG"}
  BY LagKeeps
<1>2. CASE ~wcmGesture
  BY <1>2 DEF GestureFilter, Keeps
<1>3. CASE wcmGesture /\ w = begun /\ ~BothOut(g) /\ begun.mode = "NONE"
  BY <1>1, <1>3 DEF Keeps, Committed
<1>4. CASE wcmGesture /\ w = EndGesture(begun) /\ BothOut(begun)
  <2>1. BothOut(g)
    BY <1>1, <1>4 DEF BothOut
  <2> HIDE DEF begun
  <2> QED
    BY <1>1, <1>4, <2>1, EndKeeps DEF Keeps, Committed
<1>5. CASE wcmGesture /\ w = Recognise(begun, m) /\ ~BothOut(begun)
  <2>1. ~BothOut(g)
    BY <1>1, <1>5 DEF BothOut
  <2>2. /\ w \in FilterState /\ w.states = begun.states
        /\ begun.mode \in Committed => w.mode = begun.mode
        /\ w.mode \in Committed /\ w.mode # begun.mode => w.left
    BY <1>1, <1>5, RecogniseKeeps
  <2> HIDE DEF begun, w
  <2> QED
    BY <1>1, <1>5, <2>1, <2>2 DEF Keeps, Committed, w
<1>6. Lands(g.states[0]) => ~BothOut(g)
  BY DEF Lands, BothOut
<1> QED
  BY <1>2, <1>3, <1>4, <1>5, <1>6 DEF GestureFilter

\* The whole filter, for a used sample of one finger.
LEMMA FilteringKeeps ==
    ASSUME TouchTypeOK, NEW s \in [Fingers -> FingerState], NEW age \in 0 .. MaxTap,
           NEW near \in BOOLEAN, NEW channel \in Fingers, NEW m \in Motions(s)
    PROVE  LET w == Filtering(s, age, near, channel, m)
               out == \A f \in Fingers : ~s[f].prox
           IN  /\ w \in FilterState /\ w.states = s
               /\ wcmGestureMode \in Committed /\ w.mode # wcmGestureMode => out
               /\ w.mode \in Committed /\ w.mode # wcmGestureMode => w.left
               /\ wcmGesture /\ out =>
                    w.mode = "NONE" /\ w.direction = "NONE" /\ ~w.touchpad
               /\ ~wcmGesture =>
                    /\ w.mode = wcmGestureMode /\ w.direction = wcmScrollDirection
                    /\ w.touchpad /\ ~s[0].prox =>
                         /\ wcmTouchpadMode
                         /\ channel = 0 => w.mode # "NONE" \/ priv[TouchDevice].absolute
               /\ w.touchpad => wcmTouchpadMode \/ ~priv[TouchDevice].absolute
<1> DEFINE g == Filter(s, age, near)
           w == GestureFilter(g, channel, m)
           c == FirstFingerClick(w)
           r == Filtering(s, age, near, channel, m)
<1>1. /\ g \in FilterState /\ g.states = s /\ g.mode = wcmGestureMode
      /\ g.direction = wcmScrollDirection /\ g.touchpad = wcmTouchpadMode
  BY DEF Filter, FilterState, TouchTypeOK
<1>2. m \in Motion
  <2>1. Still \in Motion
    BY DEF Still, Motion
  <2>2. \A spread \in {"mid", "apart"} : [Still EXCEPT !.spread = spread] \in Motion
    BY DEF Still, Motion
  <2>3. [far: [Fingers -> [x: BOOLEAN, y: BOOLEAN]], spread: {"near"}] \subseteq Motion
    BY DEF Motion
  <2> QED
    BY <2>1, <2>2, <2>3 DEF Motions
<1> HIDE DEF g
<1>3. /\ Keeps(g, w)
      /\ wcmGesture /\ BothOut(g) =>
           w.mode = "NONE" /\ w.direction = "NONE" /\ ~w.touchpad
      /\ ~wcmGesture => w = g
  BY <1>1, <1>2, GestureFilterKeeps
<1>3a. w.touchpad => g.touchpad
  <2>1. Lag(g) \in FilterState /\ (Lag(g).touchpad => g.touchpad)
    BY <1>1 DEF Lag, FilterState, Modes
  <2> DEFINE b == Lag(g)
  <2> HIDE DEF b
  <2>2. b \in FilterState => (EndGesture(b).touchpad => b.touchpad)
    BY DEF EndGesture, FilterState
  <2>3. b \in FilterState => (Recognise(b, m).touchpad = b.touchpad)
    <3> SUFFICES ASSUME b \in FilterState PROVE Recognise(b, m).touchpad = b.touchpad
      OBVIOUS
    <3>1. ASSUME NEW x \in FilterState
          PROVE  /\ FingerTapToClick(x) \in FilterState
                 /\ FingerTapToClick(x).touchpad = x.touchpad
      <4>1. FingerTapToClick(x) \in FilterState
        BY TapKeeps
      <4>2. FingerTapToClick(x).touchpad = x.touchpad
        BY DEF FingerTapToClick, LeftUp, FilterState
      <4> QED
        BY <4>1, <4>2
    <3>2. \A x \in FilterState : /\ FingerZoom(x, m) \in FilterState
                                 /\ FingerZoom(x, m).touchpad = x.touchpad
      BY DEF FingerZoom, LeftUp, FilterState, Modes
    <3>3. ASSUME NEW x \in FilterState
          PROVE  /\ FingerScroll(x, m) \in FilterState
                 /\ FingerScroll(x, m).touchpad = x.touchpad
      <4>1. FingerScroll(x, m) \in FilterState
        BY <1>2, ScrollKeeps
      <4>2. FingerScroll(x, m).touchpad = x.touchpad
        BY DEF FingerScroll, LeftUp, FilterState
      <4> QED
        BY <4>1, <4>2
    <3>4. ASSUME NEW x \in FilterState
          PROVE  ScrollOrZoom(x, m).touchpad = x.touchpad
      BY <3>2, <3>3 DEF ScrollOrZoom
    <3> QED
      BY <3>1, <3>4 DEF Recognise
  <2> QED
    BY <2>1, <2>2, <2>3 DEF GestureFilter, b
<1> HIDE DEF w
<1>4. BothOut(g) <=> \A f \in Fingers : ~s[f].prox
  BY <1>1 DEF BothOut, Fingers
<1>5. /\ c \in FilterState /\ c.states = w.states /\ c.mode = w.mode
      /\ c.direction = w.direction /\ c.left = w.left
      /\ c.touchpad => w.states[0].prox
      /\ ~w.states[0].prox => ~c.touchpad
  <2> DEFINE drags == w.touchpad \/ Drags(w)
  <2>1. w \in FilterState /\ drags \in BOOLEAN
    BY <1>3 DEF Keeps
  <2> HIDE DEF drags
  <2>2. /\ [w EXCEPT !.touchpad = drags] \in FilterState
        /\ [w EXCEPT !.touchpad = FALSE, !.stamp = 0] \in FilterState
    <3>1. 0 \in 0 .. MaxTap
      BY TouchAssumption DEF MaxTap
    <3>2. [w EXCEPT !.touchpad = drags] \in FilterState
      BY <2>1 DEF FilterState
    <3>3. [w EXCEPT !.touchpad = FALSE, !.stamp = 0] \in FilterState
      BY <2>1, <3>1 DEF FilterState
    <3> QED
      BY <3>2, <3>3
  <2>3. CASE w.states[0].prox
    <3>1. c = [w EXCEPT !.touchpad = drags]
      BY <2>1, <2>3 DEF FirstFingerClick, drags, FilterState
    <3> HIDE DEF c
    <3> QED
      BY <2>1, <2>2, <2>3, <3>1 DEF FilterState
  <2>4. CASE ~w.states[0].prox
    <3>1. c = [w EXCEPT !.touchpad = FALSE, !.stamp = 0]
      BY <2>4 DEF FirstFingerClick
    <3> HIDE DEF c
    <3> QED
      BY <2>1, <2>2, <2>4, <3>1 DEF FilterState
  <2> QED
    BY <2>3, <2>4
<1>6. \/ r = c /\ Clicks(w, channel)
      \/ r = w /\ ~Clicks(w, channel)
  BY DEF Filtering, c, w, g
<1> HIDE DEF c, r
<1>7. r \in FilterState /\ r.states = s /\ r.mode = w.mode /\ r.left = w.left
      /\ r.direction = w.direction
  BY <1>1, <1>3, <1>5, <1>6 DEF Keeps
<1>8. wcmGesture /\ BothOut(g) => ~r.touchpad
  BY <1>1, <1>3, <1>4, <1>5, <1>6 DEF Keeps, Fingers
<1>9. ~wcmGesture /\ r.touchpad /\ ~s[0].prox =>
        /\ wcmTouchpadMode
        /\ channel = 0 => r.mode # "NONE" \/ priv[TouchDevice].absolute
  BY <1>1, <1>3, <1>5, <1>6 DEF Clicks, Keeps
<1>10. r.touchpad => wcmTouchpadMode \/ ~priv[TouchDevice].absolute
  BY <1>1, <1>3a, <1>6 DEF Clicks
<1>11. /\ wcmGestureMode \in Committed /\ r.mode # wcmGestureMode => BothOut(g)
       /\ r.mode \in Committed /\ r.mode # wcmGestureMode => r.left
       /\ wcmGesture /\ BothOut(g) => r.mode = "NONE" /\ r.direction = "NONE"
       /\ ~wcmGesture => r.mode = wcmGestureMode /\ r.direction = wcmScrollDirection
  BY <1>1, <1>3, <1>7 DEF Keeps
<1> QED
  BY <1>4, <1>7, <1>8, <1>9, <1>10, <1>11 DEF r

-----------------------------------------------------------------------------
(* The steps.                                                              *)

\* The touch device is one, on the touch port.
LEMMA TouchDeviceType ==
    /\ TouchDevice \in Devices /\ DevType[TouchDevice] = "TOUCH"
    /\ Common[TouchDevice] = TouchPort
  BY TouchAssumption DEF TouchDevice

\* Only the touch port has a tool for a sample of a finger.
LEMMA TouchTools ==
    ASSUME NEW c, NEW ds, NEW t \in ToolsFor(c, ds), ds.type = "TOUCH"
    PROVE  c = TouchPort
<1>1. t \in Tools /\ ToolType[t] = "TOUCH" /\ ToolCommon[t] = c
  BY DEF ToolsFor
<1>2. 1 \in DOMAIN AreaList[t] /\ AreaList[t][1] \in Devices
  BY <1>1, AreaTypes
<1>3. DevType[AreaList[t][1]] = "TOUCH" /\ Common[AreaList[t][1]] = c
  BY <1>1, <1>2, ToolAssumption
<1> QED
  BY <1>2, <1>3, TouchAssumption

\* The filter's clicks leave the touch device's view a view that holds less.
LEMMA ClickedLess ==
    ASSUME TypeOK, NEW g \in FilterState
    PROVE  LET v == Clicked(g)
           IN  /\ v \in Views /\ v.dev = TouchDevice
               /\ v.down \subseteq down[TouchDevice]
               /\ g.left => 1 \notin v.down
<1> DEFINE v == View(TouchDevice)
           w == IF g.left THEN [v EXCEPT !.down = @ \ {1}, !.p.oldButtons = {}] ELSE v
           x == IF g.right THEN [w EXCEPT !.down = @ \ {3}] ELSE w
<1>1. v \in Views /\ v.dev = TouchDevice /\ v.down = down[TouchDevice]
  BY TouchDeviceType DEF View, Views, TypeOK
<1>2. Clicked(g) = x
  BY DEF Clicked
<1> HIDE DEF v
<1>3. /\ w \in Views /\ w.dev = v.dev /\ w.down \subseteq v.down
      /\ g.left => 1 \notin w.down
  BY <1>1 DEF Views, PrivState
<1> HIDE DEF w
<1>4. /\ x \in Views /\ x.dev = w.dev /\ x.down \subseteq w.down
  BY <1>3 DEF Views
<1> HIDE DEF x
<1> QED
  BY <1>1, <1>2, <1>3, <1>4

\* A finger's sample is a sample.
LEMMA FingerType ==
    ASSUME NEW prox \in BOOLEAN, NEW bs \in {{}, {1}}, NEW moved \in BOOLEAN
    PROVE  Finger(prox, bs, moved) \in Packet
<1>1. (CHOOSE x \in Positions : TRUE) \in Positions
  BY TouchAssumption
<1>2. bs \in SUBSET Buttons /\ 0 \in Serials /\ 0 \in Pressures /\ 0 \in Distances
  BY ValueAssumption DEF Buttons, Pressures, Distances
<1> QED
  BY <1>1, <1>2 DEF Finger, Packet, Types

\* What the reader has of a finger when a report of it comes
LEMMA HandTypes ==
    ASSUME TouchTypeOK, NEW f \in Fingers, NEW prox \in BOOLEAN
    PROVE  /\ Last(f) \in FingerState
           /\ Last(f).prox => Last(f) = states[f]
           /\ Stamp(f, prox) \in Ages
           /\ Soons(f) \subseteq BOOLEAN
<1>1. /\ states[f] \in FingerState /\ sample[f] \in Ages /\ 0 \in Ages /\ MaxAge \in Ages
      /\ soon \in BOOLEAN
  BY TouchAssumption DEF TouchTypeOK, Ages, MaxAge
<1>2. Away \in FingerState /\ ~Away.prox
  BY <1>1 DEF Away, FingerState
<1>3. Last(f) \in {Away, states[f]}
  BY DEF Last
<1>4. Stamp(f, prox) \in {0, sample[f]}
  BY DEF Stamp
<1>5. (tmpStamp <= wcmTapTime) \in BOOLEAN
  OBVIOUS
<1>6. Soons(f) \subseteq BOOLEAN
  BY <1>1, <1>5 DEF Soons
<1> QED
  BY <1>1, <1>2, <1>3, <1>4, <1>6

\* What a report leaves of the hand
LEMMA TouchesTypes ==
    ASSUME TouchTypeOK, NEW f \in Fingers, NEW prox \in BOOLEAN, Touches(f, prox)
    PROVE  /\ hand' = [hand EXCEPT ![f] = prox] /\ hand' \in [Fingers -> BOOLEAN]
           /\ lost' \in BOOLEAN /\ sample' \in [Fingers -> Ages]
<1>1. Stamp(f, prox) \in Ages /\ MaxAge \in Ages
  BY HandTypes, TouchAssumption DEF Ages, MaxAge
<1>2. (IF prox THEN Stamp(f, prox) ELSE MaxAge) \in Ages
  BY <1>1
<1>3. hand \in [Fingers -> BOOLEAN] /\ sample \in [Fingers -> Ages] /\ lost \in BOOLEAN
  BY DEF TouchTypeOK
<1> QED
  BY <1>2, <1>3 DEF Touches

\* A used sample of a finger: the types hold, no drag goes on beside a
\* gesture, and a gesture ends only with both fingers out.
LEMMA FingerSampleKeeps ==
    ASSUME TouchInv, NEW f \in Fingers, NEW prox \in BOOLEAN, FingerSample(f, prox)
    PROVE  /\ TouchInv'
           /\ wcmGestureMode \in Committed /\ wcmGestureMode' # wcmGestureMode => BothAway'
           /\ hand' = [hand EXCEPT ![f] = prox]
           /\ states'[f].prox = prox
           /\ \A e \in Fingers : e # f => states'[e] = states[e]
           /\ wcmTouch' = wcmTouch /\ wcmGesture' = wcmGesture
           /\ ~Deaf /\ ~syslast'
           /\ wcmGesture /\ BothAway' =>
                wcmGestureMode' = "NONE" /\ wcmScrollDirection' = "NONE" /\ ~wcmTouchpadMode'
           /\ ~wcmGesture =>
                /\ wcmGestureMode' = wcmGestureMode
                /\ wcmScrollDirection' = wcmScrollDirection
                /\ wcmTouchpadMode' /\ ~states'[0].prox =>
                     /\ wcmTouchpadMode
                     /\ f = 0 => wcmGestureMode' # "NONE" \/ priv[TouchDevice].absolute
           /\ wcmTouchpadMode' => wcmTouchpadMode \/ ~priv[TouchDevice].absolute
<1> DEFINE s == Last(f)
           u == Used(s, prox, Stamp(f, prox))
           now == [states EXCEPT ![f] = u]
<1>1. TypeOK /\ TouchTypeOK /\ CurrentInv /\ NoDragInGesture
  BY DEF TouchInv, TouchTypeOK
<1>1a. s \in FingerState /\ Stamp(f, prox) \in Ages /\ Soons(f) \subseteq BOOLEAN
  BY <1>1, HandTypes
<1>2. PICK near \in Soons(f), m \in Motions(now) :
        LET g == Filtering(now, LastAge(f, s), near, f, m)
        IN  SetFilter(g) /\ Passed(g, f)
  BY DEF FingerSample
<1> DEFINE g == Filtering(now, LastAge(f, s), near, f, m)
<1> HIDE DEF s
<1>3. u \in FingerState /\ u.prox = prox
  BY <1>1a DEF Used, FingerState
<1> HIDE DEF u
<1>3a. now \in [Fingers -> FingerState] /\ now[f].prox = prox
       /\ \A e \in Fingers : e # f => now[e] = states[e]
  BY <1>1, <1>3 DEF TouchTypeOK
<1>4. LastAge(f, s) \in 0 .. MaxTap
  BY <1>1, <1>1a, TouchAssumption DEF LastAge, TouchTypeOK, FingerState, Ages, MaxTap, MaxAge
<1> HIDE DEF now
<1>5. /\ g \in FilterState /\ g.states = now
      /\ wcmGestureMode \in Committed /\ g.mode # wcmGestureMode =>
           \A e \in Fingers : ~now[e].prox
      /\ g.mode \in Committed /\ g.mode # wcmGestureMode => g.left
      /\ wcmGesture /\ (\A e \in Fingers : ~now[e].prox) =>
           g.mode = "NONE" /\ g.direction = "NONE" /\ ~g.touchpad
      /\ ~wcmGesture =>
           /\ g.mode = wcmGestureMode /\ g.direction = wcmScrollDirection
           /\ g.touchpad /\ ~now[0].prox =>
                /\ wcmTouchpadMode
                /\ f = 0 => g.mode # "NONE" \/ priv[TouchDevice].absolute
      /\ g.touchpad => wcmTouchpadMode \/ ~priv[TouchDevice].absolute
  BY <1>1, <1>1a, <1>3a, <1>4, FilteringKeeps
<1>6. SetFilter(g) /\ Passed(g, f)
  BY <1>2
<1> HIDE DEF g
<1>7. /\ states' = now /\ lastAge' = g.lastAge /\ wcmGestureMode' = g.mode
      /\ wcmTouchpadMode' = g.touchpad /\ wcmScrollDirection' = g.direction
      /\ tmpStamp' = g.stamp
  BY <1>5, <1>6 DEF SetFilter
<1>8. /\ ~Deaf /\ syslast' = FALSE /\ wcmGesture' = wcmGesture /\ keys' = keys
      /\ Touches(f, prox) /\ soon' = (soon /\ f # 0)
  BY DEF FingerSample
<1>8a. /\ hand' = [hand EXCEPT ![f] = prox] /\ hand' \in [Fingers -> BOOLEAN]
       /\ lost' \in BOOLEAN /\ soon' \in BOOLEAN /\ sample' \in [Fingers -> Ages]
  BY <1>1, <1>8, TouchesTypes DEF TouchTypeOK
<1>9. TypeOK' /\ CurrentInv' /\ wcmTouch' = wcmTouch /\ NoDragInGesture'
  <2>1. CASE g.mode = "NONE" /\ f = 0
    <3>1. PICK moved \in BOOLEAN, suppress \in {1, 2} :
            Dispatch(TouchPort,
                     Finger(g.states[0].prox, FingerButtons(g.states[0], g), moved), suppress)
      BY <1>6, <2>1 DEF Passed
    <3>2. g.states[0].prox \in BOOLEAN
      BY <1>3a, <1>5 DEF FingerState, Fingers
    <3>3. FingerButtons(g.states[0], g) \in {{}, {1}}
      BY DEF FingerButtons
    <3> DEFINE pk == Finger(g.states[0].prox, FingerButtons(g.states[0], g), moved)
    <3>4. pk \in Packet /\ Dispatch(TouchPort, pk, suppress)
      BY <3>1, <3>2, <3>3, FingerType
    <3> HIDE DEF pk
    <3>5. TypeOK' /\ CurrentInv' /\ wcmTouch' = wcmTouch
      BY <1>1, <3>4, DispatchTyped
    <3> QED
      BY <1>7, <2>1, <3>5 DEF NoDragInGesture, Committed
  <2>2. CASE ~(g.mode = "NONE" /\ f = 0)
    <3> DEFINE v == IF g.soft THEN SoftOut(Clicked(g)) ELSE Clicked(g)
               outs == IF g.soft THEN {TouchDevice} ELSE {}
    <3>1. /\ Post(outs, TouchDevice, v)
          /\ UNCHANGED <<enabled, current, wcmMaxCursorDist, commonVars>>
      BY <1>6, <2>2 DEF Passed
    <3>2. /\ Clicked(g) \in Views /\ Clicked(g).dev = TouchDevice
          /\ Clicked(g).down \subseteq down[TouchDevice]
          /\ g.left => 1 \notin Clicked(g).down
      BY <1>1, <1>5, ClickedLess
    <3>3. v \in Views /\ v.dev = TouchDevice /\ v.down \subseteq Clicked(g).down
      BY <3>2, SoftOutLess
    <3> HIDE DEF v, outs
    <3>4. /\ priv' \in [Devices -> PrivState]
          /\ down' \in [Devices -> SUBSET Codes]
          /\ xprox' \in [Devices -> BOOLEAN]
          /\ down'[TouchDevice] = v.down
      BY <1>1, <3>1, <3>3, PostTyped, TouchDeviceType
    <3>5. TypeOK' /\ CurrentInv' /\ wcmTouch' = wcmTouch
      BY <1>1, <3>1, <3>4 DEF TypeOK, CurrentInv, commonVars
    <3>6. NoDragInGesture'
      BY <1>1, <1>5, <1>7, <3>2, <3>3, <3>4 DEF NoDragInGesture
    <3> QED
      BY <3>5, <3>6
  <2> QED
    BY <2>1, <2>2
<1>10. TouchTypeOK'
  BY <1>1, <1>3a, <1>5, <1>7, <1>8, <1>8a, <1>9 DEF TouchTypeOK, FilterState
<1> QED
  BY <1>3a, <1>5, <1>7, <1>8, <1>8a, <1>9, <1>10 DEF TouchInv, BothAway

\* What a step may do to a gesture.
LastsStep ==
    wcmGestureMode \in Committed /\ wcmGestureMode' # wcmGestureMode => BothAway'

\* A finger's sample that is not used leaves the mode as it was, and does
\* not make the filter believe in a finger.
LEMMA UnheardKeeps ==
    ASSUME TouchInv, NEW f \in Fingers, NEW prox \in BOOLEAN, Unheard(f, prox)
    PROVE  /\ TouchInv' /\ LastsStep
           /\ UNCHANGED <<vars, wcmGesture, wcmGestureMode, wcmTouchpadMode,
                          wcmScrollDirection>>
           /\ Deaf \/ prox
           /\ syslast' => syslast
           /\ hand' = [hand EXCEPT ![f] = prox]
           /\ \A e \in Fingers : states'[e].prox => states[e].prox
<1>1. TouchTypeOK /\ TypeOK /\ CurrentInv /\ NoDragInGesture
  BY DEF TouchInv, TouchTypeOK
<1>2. /\ UNCHANGED <<vars, wcmGesture, keys, wcmGestureMode, wcmTouchpadMode,
                     wcmScrollDirection, tmpStamp>>
      /\ Touches(f, prox)
      /\ states' = [states EXCEPT ![f] = Last(f)]
      /\ lastAge' \in {lastAge, MaxTap}
      /\ Deaf \/ prox
      /\ syslast' = syslast \/ syslast' = FALSE
  BY DEF Unheard
<1>3. soon' \in BOOLEAN
  BY DEF Unheard
<1>4. /\ hand' = [hand EXCEPT ![f] = prox] /\ hand' \in [Fingers -> BOOLEAN]
      /\ lost' \in BOOLEAN /\ sample' \in [Fingers -> Ages]
  BY <1>1, <1>2, TouchesTypes
<1>5. Last(f) \in FingerState /\ (Last(f).prox => states[f].prox)
  BY <1>1, HandTypes
<1>6. /\ states' \in [Fingers -> FingerState]
      /\ \A e \in Fingers : states'[e].prox => states[e].prox
  BY <1>1, <1>2, <1>5 DEF TouchTypeOK
<1>7. TypeOK' /\ CurrentInv' /\ down' = down
  BY <1>1, <1>2 DEF TypeOK, CurrentInv, vars, commonVars, serverVars
<1>8. lastAge' \in 0 .. MaxTap /\ syslast' \in BOOLEAN /\ (syslast' => syslast)
  <2>1. MaxTap \in 0 .. MaxTap
    BY TouchAssumption DEF MaxTap
  <2>2. syslast \in BOOLEAN /\ lastAge \in 0 .. MaxTap
    BY <1>1 DEF TouchTypeOK
  <2>3. lastAge' \in 0 .. MaxTap
    BY <1>2, <2>1, <2>2
  <2>4. syslast' \in BOOLEAN /\ (syslast' => syslast)
    <3>1. CASE syslast' = syslast
      BY <2>2, <3>1
    <3>2. CASE syslast' = FALSE
      BY <3>2
    <3> QED
      BY <1>2, <3>1, <3>2
  <2> QED
    BY <2>3, <2>4
<1>9. TouchTypeOK'
  BY <1>1, <1>2, <1>3, <1>4, <1>6, <1>7, <1>8 DEF TouchTypeOK
<1> QED
  BY <1>1, <1>2, <1>4, <1>6, <1>7, <1>8, <1>9 DEF TouchInv, LastsStep, NoDragInGesture

\* A sample of another tool, be it taken for the first finger's lift
LEMMA OtherSampleKeeps ==
    ASSUME TouchInv, NEW c \in Commons, NEW pk \in Packets, OtherSample(c, pk)
    PROVE  /\ TouchInv' /\ LastsStep
           /\ UNCHANGED <<hand, wcmGesture, wcmGestureMode,
                          wcmScrollDirection, wcmTouch>>
           /\ \A e \in Fingers : states'[e].prox => states[e].prox
           /\ wcmTouchpadMode' => wcmTouchpadMode
<1>1. /\ TouchTypeOK /\ TypeOK /\ CurrentInv /\ NoDragInGesture
      /\ pk \in Packet
  BY ValueAssumption DEF TouchInv, TouchTypeOK
<1>2. /\ UNCHANGED <<hand, soon, wcmGesture, lastAge, wcmGestureMode,
                     wcmScrollDirection, tmpStamp>>
      /\ syslast' = (pk.type \in {"STYLUS", "ERASER"} /\ pk.proximity)
      /\ keys' = IF pk.type = "PAD" THEN pk.buttons ELSE keys
  BY DEF OtherSample
<1>3. syslast' \in BOOLEAN /\ keys' \in SUBSET Buttons
  BY <1>1, <1>2 DEF Packet, TouchTypeOK
<1>4. /\ TypeOK' /\ CurrentInv' /\ NoDragInGesture'
      /\ wcmTouch' = wcmTouch
      /\ wcmTouchpadMode' \in BOOLEAN /\ (wcmTouchpadMode' => wcmTouchpadMode)
  <2>1. CASE UNCHANGED <<vars, wcmTouchpadMode>>
    BY <1>1, <1>2, <2>1
    DEF TouchTypeOK, TypeOK, CurrentInv, NoDragInGesture, vars, commonVars, serverVars
  <2>2. ASSUME NEW suppress \in {1, 2}, Dispatch(c, pk, suppress),
               ~(c = TouchPort /\ wcmGestureMode # "NONE"),
               wcmTouchpadMode' = DragAfter(priv[TouchDevice].oldProximity
                                            /\ ~priv'[TouchDevice].oldProximity)
        PROVE  /\ TypeOK' /\ CurrentInv' /\ NoDragInGesture'
               /\ wcmTouch' = wcmTouch
               /\ wcmTouchpadMode' \in BOOLEAN /\ (wcmTouchpadMode' => wcmTouchpadMode)
    <3>1. /\ TypeOK' /\ CurrentInv' /\ wcmTouch' = wcmTouch
          /\ \A e \in Devices : DevType[e] # pk.type => down'[e] \subseteq down[e]
      BY <1>1, <2>2, DispatchTyped
    <3>2. wcmTouchpadMode' \in BOOLEAN /\ (wcmTouchpadMode' => wcmTouchpadMode)
      BY <1>1, <2>2 DEF DragAfter, TouchTypeOK
    <3>3. NoDragInGesture'
      <4>1. CASE wcmGestureMode = "NONE"
        BY <1>2, <4>1 DEF NoDragInGesture, Committed
      <4>2. CASE wcmGestureMode # "NONE"
        <5>1. ToolsFor(c, pk) # {}
          BY <2>2 DEF Dispatch
        <5>2. pk.type # "TOUCH"
          BY <2>2, <4>2, <5>1, TouchTools
        <5> QED
          BY <1>1, <1>2, <3>1, <5>2, TouchDeviceType DEF NoDragInGesture
      <4> QED
        BY <4>1, <4>2
    <3> QED
      BY <3>1, <3>2, <3>3
  <2> QED
    BY <2>1, <2>2 DEF OtherSample
<1>5. /\ states' \in [Fingers -> FingerState] /\ sample' \in [Fingers -> Ages]
      /\ lost' \in BOOLEAN
      /\ \A e \in Fingers : states'[e].prox => states[e].prox
  <2> DEFINE u == Used(Last(0), FALSE, sample[0])
  <2>1. CASE UNCHANGED <<states, sample, lost>>
    BY <1>1, <2>1 DEF TouchTypeOK
  <2>2. CASE /\ states' = [states EXCEPT ![0] = u]
             /\ sample' = [sample EXCEPT ![0] = MaxAge]
             /\ lost' = hand[0]
    <3>1. /\ 0 \in Fingers /\ MaxAge \in Ages /\ sample[0] \in Ages /\ hand[0] \in BOOLEAN
          /\ sample \in [Fingers -> Ages] /\ states \in [Fingers -> FingerState]
      BY <1>1, TouchAssumption DEF TouchTypeOK, Fingers, Ages, MaxAge
    <3>2. Last(0) \in FingerState
      <4>1. FALSE \in BOOLEAN
        OBVIOUS
      <4> QED
        BY <1>1, <3>1, <4>1, HandTypes
    <3>3. u \in FingerState /\ ~u.prox
      BY <3>1, <3>2 DEF Used, FingerState
    <3> HIDE DEF u
    <3> QED
      BY <2>2, <3>1, <3>3
  <2> QED
    BY <2>1, <2>2 DEF OtherSample
<1>6. TouchTypeOK'
  BY <1>1, <1>2, <1>3, <1>4, <1>5 DEF TouchTypeOK
<1> QED
  BY <1>2, <1>4, <1>5, <1>6 DEF TouchInv, LastsStep

\* Time passes.
LEMMA TickKeeps ==
    ASSUME TouchInv, Tick
    PROVE  /\ TouchInv' /\ LastsStep
           /\ \A f \in Fingers : states'[f].prox = states[f].prox
           /\ UNCHANGED <<hand, wcmGesture, wcmGestureMode, wcmScrollDirection,
                          wcmTouchpadMode, syslast, vars>>
<1>1. TouchTypeOK /\ TypeOK /\ CurrentInv /\ NoDragInGesture
  BY DEF TouchInv, TouchTypeOK
<1>2. /\ UNCHANGED <<vars, hand, lost, soon, wcmGesture, wcmGestureMode, wcmTouchpadMode,
                     wcmScrollDirection, syslast, keys>>
      /\ tmpStamp' = Older(tmpStamp, MaxTap)
      /\ lastAge' = Older(lastAge, MaxTap)
      /\ states' = [f \in Fingers |-> [states[f] EXCEPT !.age = Older(@, MaxAge)]]
      /\ sample' = [f \in Fingers |-> Older(sample[f], MaxAge)]
  BY DEF Tick
<1>3. MaxAge \in Nat /\ MaxTap \in Nat
  BY TouchAssumption DEF MaxAge, MaxTap
<1>4. \A n \in Nat : \A i \in 0 .. n : Older(i, n) \in 0 .. n
  BY DEF Older
<1>5. /\ tmpStamp' \in 0 .. MaxTap /\ lastAge' \in 0 .. MaxTap
  BY <1>1, <1>2, <1>3, <1>4 DEF TouchTypeOK
<1>6. ASSUME NEW f \in Fingers
      PROVE  /\ [states[f] EXCEPT !.age = Older(@, MaxAge)] \in FingerState
             /\ [states[f] EXCEPT !.age = Older(@, MaxAge)].prox = states[f].prox
  <2>1. states[f] \in FingerState
    BY <1>1 DEF TouchTypeOK
  <2>2. Older(states[f].age, MaxAge) \in Ages
    BY <1>3, <1>4, <2>1 DEF FingerState, Ages
  <2> QED
    BY <2>1, <2>2 DEF FingerState
<1>7. states' \in [Fingers -> FingerState] /\ \A f \in Fingers : states'[f].prox = states[f].prox
  BY <1>2, <1>6
<1>7a. sample' \in [Fingers -> Ages]
  BY <1>1, <1>2, <1>3, <1>4 DEF TouchTypeOK, Ages
<1>8. TypeOK' /\ CurrentInv' /\ NoDragInGesture'
  BY <1>1, <1>2
  DEF TouchTypeOK, TypeOK, CurrentInv, NoDragInGesture, vars, commonVars, serverVars
<1>9. TouchTypeOK'
  BY <1>1, <1>2, <1>5, <1>7, <1>7a, <1>8 DEF TouchTypeOK
<1> QED
  BY <1>2, <1>7, <1>8, <1>9 DEF TouchInv, LastsStep

\* Touch or gestures are switched.
LEMMA SettingsKeep ==
    ASSUME TouchInv, TouchSettings
    PROVE  /\ TouchInv' /\ LastsStep
           /\ UNCHANGED <<hand, states, priv, wcmGestureMode, wcmScrollDirection,
                          wcmTouchpadMode, syslast>>
<1>1. TouchTypeOK /\ TypeOK /\ CurrentInv /\ NoDragInGesture
  BY DEF TouchInv, TouchTypeOK
<1>2. ASSUME NEW on \in TouchModes, SetTouch(TouchPort, on), UNCHANGED touchVars
      PROVE  /\ TouchInv' /\ LastsStep
             /\ UNCHANGED <<hand, states, priv, wcmGestureMode, wcmScrollDirection,
                            wcmTouchpadMode, syslast>>
  <2>1. wcmTouch' \in [Commons -> BOOLEAN] /\ down' = down /\ priv' = priv
    BY <1>1, <1>2, ValueAssumption, TouchAssumption DEF SetTouch, TypeOK, serverVars
  <2>2. TypeOK' /\ CurrentInv'
    BY <1>1, <1>2, <2>1 DEF SetTouch, TypeOK, CurrentInv, serverVars
  <2>3. UNCHANGED <<hand, lost, sample, soon, states, lastAge, tmpStamp, keys, wcmGesture, wcmGestureMode,
                    wcmScrollDirection, wcmTouchpadMode, syslast>>
    BY <1>2 DEF touchVars, filterVars
  <2>4. TouchTypeOK'
    BY <1>1, <2>2, <2>3 DEF TouchTypeOK
  <2> QED
    BY <1>1, <2>1, <2>2, <2>3, <2>4 DEF TouchInv, NoDragInGesture, LastsStep
<1>3. ASSUME NEW on \in GestureModes, SetGesture(on)
      PROVE  /\ TouchInv' /\ LastsStep
             /\ UNCHANGED <<hand, states, priv, wcmGestureMode, wcmScrollDirection,
                            wcmTouchpadMode, syslast>>
  <2>1. UNCHANGED vars /\ wcmGesture' \in BOOLEAN
    BY <1>3, TouchAssumption DEF SetGesture
  <2>2. TypeOK' /\ CurrentInv' /\ down' = down /\ priv' = priv
    BY <1>1, <2>1 DEF TypeOK, CurrentInv, vars, commonVars, serverVars
  <2>3. UNCHANGED <<hand, lost, sample, soon, states, lastAge, tmpStamp, keys, wcmGestureMode,
                    wcmScrollDirection, wcmTouchpadMode, syslast>>
    BY <1>3 DEF SetGesture, filterVars
  <2>4. TouchTypeOK'
    BY <1>1, <2>1, <2>2, <2>3 DEF TouchTypeOK
  <2> QED
    BY <1>1, <2>2, <2>3, <2>4 DEF TouchInv, NoDragInGesture, LastsStep
<1> QED
  BY <1>2, <1>3 DEF TouchSettings

\* Every step, settings under a finger included.
LEMMA TouchStep ==
    ASSUME TouchInv, [TouchNext]_allVars
    PROVE  TouchInv' /\ LastsStep
<1>1. ASSUME NEW f \in Fingers, Land(f) \/ Move(f) \/ Lift(f)
      PROVE  TouchInv' /\ LastsStep
  <2>1. PICK prox \in BOOLEAN : FingerSample(f, prox)
    BY <1>1 DEF Land, Move, Lift
  <2> QED
    BY <2>1, FingerSampleKeeps DEF LastsStep
<1>2. ASSUME NEW f \in Fingers, NEW prox \in BOOLEAN, Unheard(f, prox)
      PROVE  TouchInv' /\ LastsStep
  BY <1>2, UnheardKeeps
<1>3. CASE OtherNext
  BY <1>3, OtherSampleKeeps DEF OtherNext
<1>4. CASE Tick
  BY <1>4, TickKeeps
<1>5. CASE TouchSettings
  BY <1>5, SettingsKeep
<1>6. CASE UNCHANGED allVars
  <2>1. TypeOK' /\ CurrentInv' /\ NoDragInGesture'
    BY <1>6 DEF TouchInv, TouchTypeOK, TypeOK, CurrentInv, NoDragInGesture, allVars, vars,
                commonVars, serverVars, touchVars, filterVars
  <2>2. TouchTypeOK'
    BY <1>6, <2>1 DEF TouchInv, TouchTypeOK, allVars, touchVars, filterVars
  <2> QED
    BY <1>6, <2>1, <2>2 DEF TouchInv, LastsStep, allVars, touchVars, filterVars
<1> QED
  BY <1>1, <1>2, <1>3, <1>4, <1>5, <1>6 DEF TouchNext, FingerNext

\* No finger has been there yet.
LEMMA TouchStart ==
    ASSUME TouchInit
    PROVE  TouchInv /\ OffInv /\ QuietInv /\ DragInv /\ GestureEnds
           /\ ~syslast /\ \A f \in Fingers : ~hand[f] /\ ~states[f].prox
<1>1. IInv
  BY InitInv DEF TouchInit
<1>2. TypeOK /\ CurrentInv
  BY <1>1 DEF IInv
<1>3. Away \in FingerState /\ ~Away.prox /\ MaxTap \in 0 .. MaxTap /\ MaxAge \in Ages
  BY TouchAssumption DEF Away, FingerState, Ages, MaxAge, MaxTap
<1>4. TouchTypeOK
  BY <1>2, <1>3, TouchAssumption DEF TouchTypeOK, TouchInit, Modes, Directions
<1>5. \A f \in Fingers : ~hand[f] /\ ~states[f].prox
  BY <1>3 DEF TouchInit
<1> QED
  BY <1>2, <1>4, <1>5
  DEF TouchInit, TouchInv, NoDragInGesture, Committed, OffInv, QuietInv, DragInv,
      GestureEnds, Ended

\* Careful use is use.
LEMMA CarefulIsTouch == CarefulTouchSpec => TouchSpec
<1>1. [CarefulTouchNext]_allVars => [TouchNext]_allVars
  BY DEF CarefulTouchNext, TouchNext
<1> QED
  BY <1>1, PTL DEF CarefulTouchSpec, TouchSpec

\* The touch port's variables keep their types, and its tools their areas.
THEOREM TouchTyped == TouchSpec => [](TouchTypeOK /\ CurrentInv)
<1>1. TouchInit => TouchInv
  BY TouchStart
<1>2. TouchInv /\ [TouchNext]_allVars => TouchInv'
  BY TouchStep
<1>3. TouchInv => TouchTypeOK /\ CurrentInv
  BY DEF TouchInv
<1> QED
  BY <1>1, <1>2, <1>3, PTL DEF TouchSpec

\* While a tap, scroll or zoom is on, button 1 of the touch device is up at
\* the X server: no drag and no press of the finger's own goes on beside it,
\* whatever the pen and the settings do meanwhile.
THEOREM NothingDragged == CarefulTouchSpec => []NoDragInGesture
<1>1. TouchInit => TouchInv
  BY TouchStart
<1>2. TouchInv /\ [TouchNext]_allVars => TouchInv'
  BY TouchStep
<1>3. TouchInv => NoDragInGesture
  BY DEF TouchInv
<1> QED
  BY <1>1, <1>2, <1>3, CarefulIsTouch, PTL DEF TouchSpec

\* A tap, scroll or zoom goes on until both fingers are out, beside a pen
\* too: no other mode takes over, and neither the clock nor a setting ends it.
THEOREM GestureStays == CarefulTouchSpec => GestureLasts
<1>1. TouchInit => TouchInv
  BY TouchStart
<1>2. TouchInv /\ [TouchNext]_allVars => TouchInv'
  BY TouchStep
<1>3. TouchInv /\ [TouchNext]_allVars => LastsStep
  BY TouchStep
<1>4. GestureLasts <=> [][LastsStep]_allVars
  BY DEF GestureLasts, LastsStep
<1> HIDE DEF LastsStep
<1> QED
  BY <1>1, <1>2, <1>3, <1>4, CarefulIsTouch, PTL DEF TouchSpec

\* With no pen about, no lift goes unheard while something of a gesture is
\* there, and the last one ends everything.
LEMMA PenlessStep ==
    ASSUME PenlessInv, [CarefulTouchNext]_allVars, ~syslast',
           priv'[TouchDevice].absolute = priv[TouchDevice].absolute
    PROVE  PenlessInv'
<1>1. TouchInv /\ HeardInv /\ OffInv /\ QuietInv /\ DragInv /\ GestureEnds
  BY DEF PenlessInv
<1>2. TouchInv'
  BY <1>1, TouchStep DEF CarefulTouchNext, TouchNext
<1>3. /\ hand \in [Fingers -> BOOLEAN] /\ states \in [Fingers -> FingerState]
      /\ 0 \in Fingers
  BY <1>1 DEF TouchInv, TouchTypeOK, Fingers
<1>4. ASSUME NEW f \in Fingers, Land(f) \/ Move(f) \/ Lift(f)
      PROVE  PenlessInv'
  <2>1. PICK prox \in BOOLEAN : FingerSample(f, prox)
    BY <1>4 DEF Land, Move, Lift
  <2>2. /\ hand' = [hand EXCEPT ![f] = prox]
        /\ states'[f].prox = prox
        /\ \A e \in Fingers : e # f => states'[e] = states[e]
        /\ wcmTouch' = wcmTouch /\ wcmGesture' = wcmGesture /\ ~Deaf
        /\ wcmGesture /\ BothAway' =>
             wcmGestureMode' = "NONE" /\ wcmScrollDirection' = "NONE" /\ ~wcmTouchpadMode'
        /\ ~wcmGesture =>
             /\ wcmGestureMode' = wcmGestureMode
             /\ wcmScrollDirection' = wcmScrollDirection
             /\ wcmTouchpadMode' /\ ~states'[0].prox =>
                  /\ wcmTouchpadMode
                  /\ f = 0 => wcmGestureMode' # "NONE" \/ priv[TouchDevice].absolute
        /\ wcmTouchpadMode' => wcmTouchpadMode \/ ~priv[TouchDevice].absolute
    BY <1>1, <2>1, FingerSampleKeeps
  <2>3. wcmTouch[TouchPort] /\ wcmTouch'[TouchPort]
    BY <2>2 DEF Deaf
  <2>4. HeardInv'
    BY <1>1, <1>3, <2>2, <2>3 DEF HeardInv
  <2>5. DragInv'
    BY <1>1, <2>2 DEF DragInv
  <2>6. states'[0].prox => hand'[0]
    BY <1>3, <2>4 DEF HeardInv
  <2>7. ~wcmGesture => /\ wcmGestureMode' = "NONE" /\ wcmScrollDirection' = "NONE"
                       /\ wcmTouchpadMode' => hand'[0]
    <3>1. ASSUME ~wcmGesture, wcmTouchpadMode', ~states'[0].prox
          PROVE  f # 0 /\ wcmTouchpadMode
      BY <1>1, <2>2, <3>1 DEF OffInv, DragInv
    <3> QED
      BY <1>1, <1>3, <2>2, <2>6, <3>1 DEF OffInv
  <2>8. OffInv'
    BY <2>2, <2>7 DEF OffInv
  <2>9. (\A e \in Fingers : ~hand'[e]) => BothAway'
    BY <2>4 DEF HeardInv, BothAway
  <2>10. GestureEnds'
    BY <1>3, <2>2, <2>7, <2>9 DEF GestureEnds, Ended
  <2>11. QuietInv'
    BY <2>3 DEF QuietInv
  <2> QED
    BY <1>2, <2>4, <2>5, <2>8, <2>10, <2>11 DEF PenlessInv
<1>5. ASSUME NEW f \in Fingers, NEW prox \in BOOLEAN, Unheard(f, prox)
      PROVE  PenlessInv'
  <2>1. /\ UNCHANGED <<vars, wcmGesture, wcmGestureMode, wcmTouchpadMode,
                       wcmScrollDirection>>
        /\ Deaf \/ prox
        /\ hand' = [hand EXCEPT ![f] = prox]
        /\ \A e \in Fingers : states'[e].prox => states[e].prox
    BY <1>1, <1>5, UnheardKeeps
  <2>2. wcmTouch' = wcmTouch /\ priv' = priv
    BY <2>1 DEF vars, commonVars
  <2>3. QuietInv' /\ DragInv'
    BY <1>1, <2>1, <2>2 DEF QuietInv, DragInv, Ended
  <2>4. CASE prox
    <3>1. \A e \in Fingers : hand[e] => hand'[e]
      BY <1>3, <2>1, <2>4
    <3>2. hand'[f]
      BY <1>3, <2>1, <2>4
    <3>3. HeardInv'
      BY <1>1, <2>1, <2>2, <3>1 DEF HeardInv
    <3>4. OffInv' /\ GestureEnds'
      BY <1>1, <1>3, <2>1, <3>1, <3>2 DEF OffInv, GestureEnds
    <3> QED
      BY <1>2, <2>3, <3>3, <3>4 DEF PenlessInv
  <2>5. CASE ~prox
    <3>1. ~wcmTouch[TouchPort]
      BY <1>1, <2>1, <2>5 DEF Deaf, HeardInv
    <3>2. Ended /\ Ended'
      BY <1>1, <2>1, <3>1 DEF QuietInv, Ended
    <3>3. HeardInv'
      BY <1>1, <2>1, <2>2, <3>1 DEF HeardInv
    <3>4. OffInv' /\ GestureEnds'
      BY <3>2 DEF OffInv, GestureEnds, Ended
    <3> QED
      BY <1>2, <2>3, <3>3, <3>4 DEF PenlessInv
  <2> QED
    BY <2>4, <2>5
<1>6. ASSUME NEW c \in Commons, NEW pk \in Packets, OtherSample(c, pk)
      PROVE  PenlessInv'
  <2>1. /\ UNCHANGED <<hand, wcmGesture, wcmGestureMode, wcmScrollDirection, wcmTouch>>
        /\ \A e \in Fingers : states'[e].prox => states[e].prox
        /\ wcmTouchpadMode' => wcmTouchpadMode
    BY <1>1, <1>6, OtherSampleKeeps
  <2> QED
    BY <1>1, <1>2, <2>1
    DEF PenlessInv, HeardInv, OffInv, QuietInv, DragInv, GestureEnds, Ended
<1>7. CASE Tick
  <2>1. /\ \A f \in Fingers : states'[f].prox = states[f].prox
        /\ UNCHANGED <<hand, wcmGesture, wcmGestureMode, wcmScrollDirection,
                       wcmTouchpadMode, syslast, vars>>
    BY <1>1, <1>7, TickKeeps
  <2>2. wcmTouch' = wcmTouch /\ priv' = priv
    BY <2>1 DEF vars, commonVars
  <2> QED
    BY <1>1, <1>2, <1>3, <2>1, <2>2
    DEF PenlessInv, HeardInv, OffInv, QuietInv, DragInv, GestureEnds, Ended
<1>8. CASE (\A f \in Fingers : ~hand[f]) /\ TouchSettings
  <2>1. UNCHANGED <<hand, states, priv, wcmGestureMode, wcmScrollDirection,
                    wcmTouchpadMode, syslast>>
    BY <1>1, <1>8, SettingsKeep
  <2>2. BothAway /\ Ended
    BY <1>1, <1>8 DEF HeardInv, BothAway, GestureEnds
  <2> QED
    BY <1>1, <1>2, <1>8, <2>1, <2>2
    DEF PenlessInv, HeardInv, OffInv, QuietInv, DragInv, GestureEnds, BothAway, Ended
<1>9. CASE UNCHANGED allVars
  BY <1>1, <1>2, <1>9
  DEF PenlessInv, HeardInv, OffInv, QuietInv, DragInv, GestureEnds, Ended, allVars, vars,
      commonVars, touchVars, filterVars
<1> QED
  BY <1>4, <1>5, <1>6, <1>7, <1>8, <1>9 DEF CarefulTouchNext, FingerNext, OtherNext

\* The touch device stays relative, or absolute.
ModeKept == [][priv'[TouchDevice].absolute = priv[TouchDevice].absolute]_allVars

\* Once both fingers have left the tablet nothing of a gesture is left, keys
\* released meanwhile or not, as long as no pen silences the fingers and the
\* touch device's mode is not toggled.  With a pen this is not so: fingers that
\* lift beside it are not heard, and the mode stays until one is.
THEOREM NothingLeft ==
    CarefulTouchSpec /\ []~syslast /\ ModeKept => []GestureEnds
<1> DEFINE Kept == priv'[TouchDevice].absolute = priv[TouchDevice].absolute
<1>1. TouchInit => PenlessInv
  BY TouchStart DEF PenlessInv, HeardInv
<1>2. PenlessInv /\ [CarefulTouchNext]_allVars /\ (~syslast)' /\ [Kept]_allVars => PenlessInv'
  <2>1. UNCHANGED allVars => Kept
    BY DEF allVars, vars
  <2> QED
    BY <2>1, PenlessStep
<1>3. PenlessInv => GestureEnds
  BY DEF PenlessInv
<1>4. ModeKept <=> [][Kept]_allVars
  BY DEF ModeKept
<1> HIDE DEF Kept
<1> QED
  BY <1>1, <1>2, <1>3, <1>4, PTL DEF CarefulTouchSpec

=============================================================================
