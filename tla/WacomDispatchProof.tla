------------------------- MODULE WacomDispatchProof -------------------------
(***************************************************************************)
(* Proofs about WacomDispatch.  Everything a call posts for a device is a  *)
(* function of the device's view, so the invariant is a predicate of views *)
(* (ViewInv), each sending operator is shown to preserve it, and a step of *)
(* the system is then a matter of which views it rewrites.                 *)
(***************************************************************************)
EXTENDS WacomDispatch, WellFoundedInduction, TLAPS

Views == [dev: Devices, p: PrivState, down: SUBSET Codes, xprox: BOOLEAN]

\* The Tablet PC flags say what the last buttons were sent as ...
FlagsInv(v) ==
    /\ v.p.tpcButtons <=> Tpc(v.dev) /\ 1 \in v.p.oldButtons
    /\ v.p.tpcButtonOne => Tpc(v.dev) /\ v.p.oldButtons = {1}

\* ... and nothing is held that those do not owe; if no two buttons hold a
\* common code, all that they owe is.
Unmixed(p) ==
    \A a, b \in Buttons : a # b => Held[p.button[a]] \cap Held[p.button[b]] = {}

HeldFor(p, held, bs) ==
    /\ held \subseteq HeldBy(p, bs)
    /\ Unmixed(p) => HeldBy(p, bs) \subseteq held

ButtonInv(v) == FlagsInv(v) /\ HeldFor(v.p, v.down, Sent(v))

ViewInv(v) ==
    /\ v.xprox = v.p.oldProximity
    /\ ~v.p.oldProximity => v.p.oldButtons = {}
    /\ ButtonInv(v)

\* A tool's current area is one of its areas ...
CurrentInv == \A t \in Tools : current[t] \in DevicesOf(t) \cup {NoDevice}

\* ... and devices that share a tool take no other serial number than its own.
SerialInv ==
    \A t \in Tools : Shared(t) =>
      \A d \in DevicesOf(t) : priv[d].serial = ToolSerial[t]

\* The inductive invariant.
IInv ==
    /\ TypeOK
    /\ \A d \in Devices : ViewInv(View(d))
    /\ CurrentInv
    /\ SerialInv
    /\ OneInProxPerTool

-----------------------------------------------------------------------------
(* Facts about the sending operators.                                      *)

\* Sending buttons changes what is held and perhaps the mode, nothing else.
LEMMA SendAButtonsFrame ==
    ASSUME NEW v \in Views, NEW sent, NEW pressed
    PROVE  LET w == SendAButtons(v, sent, pressed)
           IN  /\ w \in Views
               /\ w.dev = v.dev /\ w.xprox = v.xprox
               /\ w.p.oldProximity = v.p.oldProximity
               /\ w.p.oldButtons = v.p.oldButtons
               /\ w.p.tpcButtons = v.p.tpcButtons
               /\ w.p.tpcButtonOne = v.p.tpcButtonOne
               /\ w.p.button = v.p.button
               /\ w.p.serial = v.p.serial
  BY DEF SendAButtons, Views, PrivState

\* After sending, what is held is owed to the buttons that were held and not
\* sent again, and to those just pressed.
LEMMA SendAButtonsHeld ==
    ASSUME NEW v \in Views, NEW sent \in SUBSET Buttons, NEW pressed,
           NEW S \in SUBSET Buttons, HeldFor(v.p, v.down, S)
    PROVE  HeldFor(v.p, SendAButtons(v, sent, pressed).down,
                   (S \ sent) \cup (sent \cap pressed))
<1> DEFINE holds(b) == Held[v.p.button[b]]
           last(c) == {b \in sent : c \in holds(b) /\
                         \A a \in sent : c \in holds(a) => a <= b}
           new == SendAButtons(v, sent, pressed).down
           owed == (S \ sent) \cup (sent \cap pressed)
<1>1. new = {c \in Codes : last(c) \cap pressed # {}} \cup
            {c \in v.down : \A b \in sent : c \notin holds(b)}
  BY DEF SendAButtons, Views
<1>2. ASSUME NEW c \in Codes, last(c) \cap pressed # {}
      PROVE  c \in HeldBy(v.p, owed)
  BY <1>2 DEF HeldBy
<1>3. ASSUME NEW c \in v.down, \A b \in sent : c \notin holds(b)
      PROVE  c \in HeldBy(v.p, owed)
  BY <1>3 DEF HeldFor, HeldBy
<1>4. ASSUME Unmixed(v.p), NEW c \in HeldBy(v.p, owed)
      PROVE  c \in {e \in Codes : last(e) \cap pressed # {}} \cup
                   {e \in v.down : \A b \in sent : e \notin holds(b)}
  <2>1. PICK b \in owed : c \in holds(b)
    BY <1>4 DEF HeldBy
  <2>2. c \in Codes /\ \A a \in Buttons : c \in holds(a) => a = b
    BY <1>4, <2>1 DEF HeldBy, Unmixed
  <2>3. CASE b \in sent
    <3>1. b \in pressed /\ b <= b
      BY <2>1, <2>3 DEF Buttons
    <3>2. b \in last(c)
      BY <2>1, <2>2, <2>3, <3>1
    <3> QED
      BY <2>2, <3>1, <3>2
  <2>4. CASE b \notin sent
    <3>1. c \in HeldBy(v.p, S)
      BY <2>1, <2>2, <2>4 DEF HeldBy
    <3> QED
      BY <1>4, <2>2, <2>4, <3>1 DEF HeldFor
  <2> QED
    BY <2>3, <2>4
<1> HIDE DEF new, owed, last
<1> QED
  BY <1>1, <1>2, <1>3, <1>4 DEF HeldFor, new, owed

\* Only the buttons' actions matter to what is owed.
LEMMA HeldForButton ==
    ASSUME NEW p, NEW q, p.button = q.button, NEW held, NEW S, HeldFor(p, held, S)
    PROVE  HeldFor(q, held, S)
  BY DEF HeldFor, HeldBy, Unmixed

\* To no button nothing is owed.
LEMMA HeldForNone ==
    ASSUME NEW p, NEW held
    PROVE  HeldFor(p, held, {}) <=> held = {}
  BY DEF HeldFor, HeldBy

\* One call of xf86WcmSendButtons, with the buttons it was called for then
\* recorded as the last ones, keeps flags and held buttons in step.
LEMMA SendButtonsInv ==
    ASSUME NEW v \in Views, ButtonInv(v), NEW bs \in SUBSET Buttons
    PROVE  LET w == SendButtons(v, bs)
           IN  /\ w \in Views
               /\ w.dev = v.dev /\ w.xprox = v.xprox
               /\ w.p.oldProximity = v.p.oldProximity
               /\ w.p.oldButtons = v.p.oldButtons
               /\ w.p.button = v.p.button
               /\ w.p.serial = v.p.serial
               /\ ButtonInv([w EXCEPT !.p.oldButtons = bs])
<1> DEFINE w == SendButtons(v, bs)
           x == [w EXCEPT !.p.oldButtons = bs]
           Frame(a) ==
             /\ a \in Views
             /\ a.dev = v.dev /\ a.xprox = v.xprox
             /\ a.p.oldProximity = v.p.oldProximity
             /\ a.p.oldButtons = v.p.oldButtons
             /\ a.p.button = v.p.button
             /\ a.p.serial = v.p.serial
<1>0. ASSUME NEW a \in Views, Frame(a),
             a.p.tpcButtons <=> Tpc(v.dev) /\ 1 \in bs,
             a.p.tpcButtonOne => Tpc(v.dev) /\ bs = {1},
             NEW S, HeldFor(v.p, a.down, S),
             S = IF ~Tpc(v.dev) THEN bs
                 ELSE IF a.p.tpcButtonOne THEN {1}
                 ELSE IF a.p.tpcButtons THEN bs \ {1}
                 ELSE {}
      PROVE  ButtonInv([a EXCEPT !.p.oldButtons = bs])
  <2> DEFINE y == [a EXCEPT !.p.oldButtons = bs]
  <2>1. /\ y \in Views /\ y.dev = v.dev /\ y.down = a.down
        /\ y.p.oldButtons = bs /\ y.p.button = v.p.button
        /\ y.p.tpcButtons = a.p.tpcButtons
        /\ y.p.tpcButtonOne = a.p.tpcButtonOne
    BY <1>0 DEF Views, PrivState
  <2> HIDE DEF y
  <2>2. FlagsInv(y)
    BY <2>1, <1>0 DEF FlagsInv
  <2>3. S = Sent(y)
    BY <2>1, <1>0 DEF Sent
  <2>4. HeldFor(y.p, y.down, Sent(y))
    BY <2>1, <2>3, <1>0, HeldForButton
  <2>5. ButtonInv(y)
    BY <2>2, <2>4 DEF ButtonInv
  <2> QED
    BY <2>5 DEF y
<1>1. /\ HeldFor(v.p, v.down, Sent(v))
      /\ FlagsInv(v)
      /\ v.p.oldButtons \in SUBSET Buttons
      /\ Sent(v) \in SUBSET Buttons
      /\ Changed(v, bs) \in SUBSET Buttons
      /\ {1} \in SUBSET Buttons
  <2>1. {1} \in SUBSET Buttons
    BY ValueAssumption DEF Buttons
  <2>2. v.p.oldButtons \in SUBSET Buttons
    BY DEF Views, PrivState
  <2>3. Sent(v) \in SUBSET Buttons /\ Changed(v, bs) \in SUBSET Buttons
    BY <2>1, <2>2 DEF Sent, Changed
  <2> QED
    BY <2>1, <2>2, <2>3 DEF ButtonInv
<1>2. CASE ~Tpc(v.dev)
  <2>1. w = SendAButtons(v, Changed(v, bs), bs)
    BY <1>2 DEF SendButtons
  <2>2. Frame(w) /\ w.p.tpcButtons = v.p.tpcButtons /\ w.p.tpcButtonOne = v.p.tpcButtonOne
    BY <2>1, SendAButtonsFrame
  <2>3. HeldFor(v.p, w.down, (v.p.oldButtons \ Changed(v, bs)) \cup (Changed(v, bs) \cap bs))
    BY <2>1, <1>1, <1>2, SendAButtonsHeld DEF Sent
  <2>4. (v.p.oldButtons \ Changed(v, bs)) \cup (Changed(v, bs) \cap bs) = bs
    BY DEF Changed
  <2> QED
    BY <1>0, <1>1, <1>2, <2>2, <2>3, <2>4 DEF FlagsInv
<1>3. CASE Tpc(v.dev) /\ 1 \in bs /\ ~v.p.tpcButtons
  <2>0. w = TpcTipDown(v, bs) /\ ~v.p.tpcButtonOne /\ v.down = {}
    BY <1>1, <1>3, HeldForNone DEF SendButtons, FlagsInv, Sent
  <2> DEFINE u == [v EXCEPT !.p.tpcButtons = TRUE]
             u1 == [u EXCEPT !.p.tpcButtonOne = TRUE]
  <2>1. CASE bs \ {1} # {}
    <3>1. w = SendAButtons(u, bs \ {1}, bs \ {1})
      BY <2>0, <2>1 DEF TpcTipDown
    <3>2. Frame(u) /\ u.p.tpcButtons /\ ~u.p.tpcButtonOne /\ u.down = {}
      BY <2>0 DEF Views, PrivState
    <3> HIDE DEF u
    <3>3. Frame(w) /\ w.p.tpcButtons /\ ~w.p.tpcButtonOne
      BY <3>1, <3>2, SendAButtonsFrame
    <3>4. HeldFor(u.p, w.down, bs \ {1})
      <4>1. HeldFor(u.p, u.down, {})
        BY <3>2, HeldForNone
      <4>2. HeldFor(u.p, w.down, ({} \ (bs \ {1})) \cup ((bs \ {1}) \cap (bs \ {1})))
        BY <3>1, <3>2, <4>1, SendAButtonsHeld
      <4>3. ({} \ (bs \ {1})) \cup ((bs \ {1}) \cap (bs \ {1})) = bs \ {1}
        OBVIOUS
      <4> QED
        BY <4>2, <4>3
    <3>5. HeldFor(v.p, w.down, bs \ {1})
      BY <3>2, <3>4, HeldForButton
    <3> QED
      BY <1>0, <1>3, <3>3, <3>5
  <2>2. CASE bs \ {1} = {}
    <3>1. w = SendAButtons(u1, {1}, {1})
      BY <2>0, <2>2 DEF TpcTipDown
    <3>2. Frame(u1) /\ u1.p.tpcButtons /\ u1.p.tpcButtonOne /\ u1.down = {}
      BY <2>0 DEF Views, PrivState
    <3> HIDE DEF u1
    <3>3. Frame(w) /\ w.p.tpcButtons /\ w.p.tpcButtonOne
      BY <3>1, <3>2, SendAButtonsFrame
    <3>4. HeldFor(u1.p, u1.down, {})
      BY <3>2, HeldForNone
    <3>5. HeldFor(u1.p, w.down, ({} \ {1}) \cup ({1} \cap {1}))
      BY <1>1, <3>1, <3>2, <3>4, SendAButtonsHeld
    <3>6. HeldFor(v.p, w.down, {1})
      <4>1. ({} \ {1}) \cup ({1} \cap {1}) = {1}
        OBVIOUS
      <4> QED
        BY <3>2, <3>5, <4>1, HeldForButton
    <3>7. bs = {1}
      BY <1>3, <2>2
    <3> QED
      BY <1>0, <1>3, <3>3, <3>6, <3>7
  <2> QED
    BY <2>1, <2>2
<1>4. CASE Tpc(v.dev) /\ 1 \in bs /\ v.p.tpcButtons
  <2> DEFINE side == Changed(v, bs) \ {1}
             u == [v EXCEPT !.p.tpcButtonOne = FALSE]
             r == SendAButtons(u, {1}, {})
  <2>0. w = TpcTipHeld(v, bs) /\ 1 \in v.p.oldButtons
    BY <1>1, <1>3, <1>4 DEF SendButtons, FlagsInv
  <2>1. CASE v.p.tpcButtonOne /\ side # {}
    <3>1. w = SendAButtons(r, side, bs)
      BY <2>0, <2>1 DEF TpcTipHeld
    <3>2. /\ Frame(u) /\ u.p.tpcButtons /\ ~u.p.tpcButtonOne
          /\ u.down = v.down /\ Sent(v) = {1}
      BY <1>4, <2>1 DEF Views, PrivState, Sent
    <3> HIDE DEF u
    <3>3. Frame(r) /\ r.p.tpcButtons /\ ~r.p.tpcButtonOne
      BY <3>2, SendAButtonsFrame
    <3>4. HeldFor(u.p, u.down, {1})
      BY <1>1, <3>2, HeldForButton
    <3>5. HeldFor(u.p, r.down, ({1} \ {1}) \cup ({1} \cap {}))
      BY <1>1, <3>2, <3>4, SendAButtonsHeld
    <3>6. HeldFor(r.p, r.down, {})
      <4>1. ({1} \ {1}) \cup ({1} \cap {}) = {}
        OBVIOUS
      <4> QED
        BY <3>2, <3>3, <3>5, <4>1, HeldForButton
    <3> HIDE DEF r
    <3>7. Frame(w) /\ w.p.tpcButtons /\ ~w.p.tpcButtonOne
      BY <3>1, <3>3, SendAButtonsFrame
    <3>8. HeldFor(r.p, w.down, ({} \ side) \cup (side \cap bs))
      BY <1>1, <3>1, <3>3, <3>6, SendAButtonsHeld
    <3>9. HeldFor(v.p, w.down, bs \ {1})
      <4>1. v.p.oldButtons = {1}
        BY <1>1, <2>1 DEF FlagsInv
      <4>2. ({} \ side) \cup (side \cap bs) = bs \ {1}
        BY <4>1 DEF Changed
      <4> QED
        BY <3>3, <3>8, <4>2, HeldForButton
    <3> QED
      BY <1>0, <1>4, <3>7, <3>9
  <2>2. CASE ~(v.p.tpcButtonOne /\ side # {})
    <3>1. w = SendAButtons(v, side, bs)
      BY <2>0, <2>2 DEF TpcTipHeld
    <3>2. Frame(w) /\ w.p.tpcButtons /\ w.p.tpcButtonOne = v.p.tpcButtonOne
      BY <1>4, <3>1, SendAButtonsFrame
    <3>3. HeldFor(v.p, w.down, (Sent(v) \ side) \cup (side \cap bs))
      BY <1>1, <3>1, SendAButtonsHeld
    <3>4. CASE v.p.tpcButtonOne
      <4>1. side = {} /\ Sent(v) = {1} /\ v.p.oldButtons = {1}
        BY <1>1, <1>4, <2>2, <3>4 DEF Sent, FlagsInv
      <4>2. bs = {1}
        BY <1>4, <4>1 DEF Changed
      <4>3. (Sent(v) \ side) \cup (side \cap bs) = {1}
        BY <4>1
      <4> QED
        BY <1>0, <1>4, <3>2, <3>3, <3>4, <4>2, <4>3
    <3>5. CASE ~v.p.tpcButtonOne
      <4>1. Sent(v) = v.p.oldButtons \ {1}
        BY <1>4, <3>5 DEF Sent
      <4>2. (Sent(v) \ side) \cup (side \cap bs) = bs \ {1}
        BY <4>1 DEF Changed
      <4> QED
        BY <1>0, <1>4, <3>2, <3>3, <3>5, <4>2
    <3> QED
      BY <3>4, <3>5
  <2> QED
    BY <2>1, <2>2
<1>5. CASE Tpc(v.dev) /\ 1 \notin bs /\ v.p.tpcButtons
  <2> DEFINE one == IF v.p.tpcButtonOne THEN {1} ELSE {}
             sent == ((Changed(v, bs) \cup bs) \ {1}) \cup one
             u == [v EXCEPT !.p.tpcButtons = FALSE, !.p.tpcButtonOne = FALSE]
  <2>1. w = SendAButtons(u, sent, {})
    BY <1>5 DEF SendButtons, TpcTipUp
  <2>2. Frame(u) /\ ~u.p.tpcButtons /\ ~u.p.tpcButtonOne /\ u.down = v.down
    BY DEF Views, PrivState
  <2> HIDE DEF u
  <2>3. Frame(w) /\ ~w.p.tpcButtons /\ ~w.p.tpcButtonOne
    BY <2>1, <2>2, SendAButtonsFrame
  <2>4. HeldFor(u.p, u.down, Sent(v))
    BY <1>1, <2>2, HeldForButton
  <2>5. HeldFor(u.p, w.down, (Sent(v) \ sent) \cup (sent \cap {}))
    BY <1>1, <2>1, <2>2, <2>4, SendAButtonsHeld
  <2>6. (Sent(v) \ sent) \cup (sent \cap {}) = {}
    BY <1>5 DEF Sent, Changed
  <2>7. HeldFor(v.p, w.down, {})
    BY <2>2, <2>5, <2>6, HeldForButton
  <2> QED
    BY <1>0, <1>5, <2>3, <2>7
<1>6. CASE Tpc(v.dev) /\ 1 \notin bs /\ ~v.p.tpcButtons
  <2>1. w = v /\ ~v.p.tpcButtonOne /\ Sent(v) = {}
    BY <1>1, <1>6 DEF SendButtons, FlagsInv, Sent
  <2> QED
    BY <1>0, <1>1, <1>6, <2>1
<1>7. Frame(w) /\ ButtonInv(x)
  BY <1>2, <1>3, <1>4, <1>5, <1>6
<1> QED
  BY <1>7

\* A sample in proximity keeps the invariant and leaves the device in.
LEMMA InProximityInv ==
    ASSUME NEW v \in Views, ViewInv(v), NEW bs \in SUBSET Buttons
    PROVE  LET w == InProximity(v, bs)
           IN  /\ w \in Views /\ ViewInv(w)
               /\ w.dev = v.dev /\ w.p.serial = v.p.serial /\ w.xprox
               /\ w.p.oldButtons = bs
<1> DEFINE q == IF v.p.oldProximity THEN v
                ELSE [v EXCEPT !.p.oldButtons = {}, !.xprox = TRUE]
           send == q.p.oldButtons # bs \/ (~q.p.oldProximity /\ bs = {})
           r == SendCommonEvents(q, bs)
           x == [r EXCEPT !.p.oldButtons = bs]
           w == [r EXCEPT !.p.oldProximity = TRUE, !.p.oldButtons = bs]
<1>1. /\ q \in Views /\ q.dev = v.dev /\ q.xprox /\ q.down = v.down
      /\ q.p.oldProximity = v.p.oldProximity /\ q.p.serial = v.p.serial
      /\ q.p.oldButtons = v.p.oldButtons /\ q.p.button = v.p.button
      /\ q.p.tpcButtons = v.p.tpcButtons /\ q.p.tpcButtonOne = v.p.tpcButtonOne
  BY DEF Views, PrivState, ViewInv
<1> HIDE DEF q
<1>2. ButtonInv(q)
  BY <1>1 DEF ViewInv, ButtonInv, FlagsInv, HeldFor, Unmixed, HeldBy, Sent
<1>3. /\ r \in Views /\ r.dev = q.dev /\ r.xprox = q.xprox
      /\ r.p.serial = q.p.serial
      /\ ButtonInv(x)
  <2>1. CASE send
    BY <1>1, <1>2, <2>1, SendButtonsInv DEF SendCommonEvents
  <2>2. CASE ~send
    <3>1. r = q /\ q.p.oldButtons = bs
      BY <2>2 DEF SendCommonEvents
    <3>2. x = q
      BY <1>1, <3>1 DEF Views, PrivState
    <3> QED
      BY <1>1, <1>2, <3>1, <3>2
  <2> QED
    BY <2>1, <2>2
<1> HIDE DEF r
<1>4. /\ x.dev = r.dev /\ x.down = r.down /\ x.p.oldButtons = bs
      /\ x.p.button = r.p.button
      /\ x.p.tpcButtons = r.p.tpcButtons /\ x.p.tpcButtonOne = r.p.tpcButtonOne
  BY <1>3 DEF Views, PrivState
<1>5. /\ w \in Views /\ w.dev = r.dev /\ w.down = r.down /\ w.xprox = r.xprox
      /\ w.p.oldProximity /\ w.p.oldButtons = bs /\ w.p.button = r.p.button
      /\ w.p.serial = r.p.serial
      /\ w.p.tpcButtons = r.p.tpcButtons /\ w.p.tpcButtonOne = r.p.tpcButtonOne
  BY <1>3 DEF Views, PrivState
<1>6. InProximity(v, bs) = w
  BY DEF InProximity, q, r
<1> HIDE DEF x, w
<1>7. ButtonInv(w)
  BY <1>3, <1>4, <1>5 DEF ButtonInv, FlagsInv, HeldFor, Unmixed, HeldBy, Sent
<1>8. w.xprox /\ w.xprox \in BOOLEAN /\ w.p.oldProximity \in BOOLEAN
  BY <1>1, <1>3, <1>5 DEF Views, PrivState
<1>9. ViewInv(w)
  BY <1>5, <1>7, <1>8 DEF ViewInv
<1> QED
  BY <1>1, <1>3, <1>5, <1>6, <1>8, <1>9

\* A sample out of proximity keeps the invariant and leaves the device out.
LEMMA OutOfProximityInv ==
    ASSUME NEW v \in Views, ViewInv(v)
    PROVE  LET w == OutOfProximity(v)
           IN  /\ w \in Views /\ ViewInv(w)
               /\ w.dev = v.dev /\ w.p.serial = v.p.serial /\ ~w.xprox
<1> DEFINE q == IF v.p.oldProximity THEN v ELSE [v EXCEPT !.p.oldButtons = {}]
           r == SendButtons(q, {})
           x == [r EXCEPT !.p.oldButtons = {}]
           w == [r EXCEPT !.p.oldProximity = FALSE, !.p.oldButtons = {},
                          !.xprox = IF q.p.oldProximity THEN FALSE ELSE @]
<1>1. q = v
  BY DEF Views, PrivState, ViewInv
<1>2. /\ r \in Views /\ r.dev = v.dev /\ r.xprox = v.xprox
      /\ r.p.serial = v.p.serial
      /\ ButtonInv(x)
  <2>1. q \in Views /\ ButtonInv(q) /\ {} \in SUBSET Buttons
    BY <1>1 DEF ViewInv
  <2> HIDE DEF q
  <2> QED
    BY <1>1, <2>1, SendButtonsInv
<1>3. v.xprox = v.p.oldProximity /\ v.xprox \in BOOLEAN
  BY DEF ViewInv, Views
<1> HIDE DEF q, r
<1>4. /\ x.dev = r.dev /\ x.down = r.down /\ x.p.oldButtons = {}
      /\ x.p.button = r.p.button
      /\ x.p.tpcButtons = r.p.tpcButtons /\ x.p.tpcButtonOne = r.p.tpcButtonOne
  BY <1>2 DEF Views, PrivState
<1>5. /\ w \in Views /\ w.dev = r.dev /\ w.down = r.down /\ ~w.xprox
      /\ ~w.p.oldProximity /\ w.p.oldButtons = {} /\ w.p.button = r.p.button
      /\ w.p.serial = r.p.serial
      /\ w.p.tpcButtons = r.p.tpcButtons /\ w.p.tpcButtonOne = r.p.tpcButtonOne
  BY <1>1, <1>2, <1>3 DEF Views, PrivState
<1>6. OutOfProximity(v) = w
  BY DEF OutOfProximity, q, r
<1> HIDE DEF x, w
<1>7. ButtonInv(w)
  BY <1>2, <1>4, <1>5 DEF ButtonInv, FlagsInv, HeldFor, Unmixed, HeldBy, Sent
<1> QED
  BY <1>2, <1>5, <1>6, <1>7 DEF ViewInv, Views, PrivState

\* A sample that the serial number lets through sets the proximity.
LEMMA SendEventsInv ==
    ASSUME NEW v \in Views, ViewInv(v), NEW ds, ds.buttons \in SUBSET Buttons
    PROVE  LET w == SendEvents(v, ds)
           IN  /\ w \in Views /\ ViewInv(w)
               /\ w.dev = v.dev /\ w.p.serial = v.p.serial
               /\ v.p.serial = 0 /\ ds.type # "PAD" => (w.xprox <=> ds.proximity)
  BY InProximityInv, OutOfProximityInv DEF SendEvents

\* So does a soft prox-out, unless the device's serial number drops it.
LEMMA SoftOutInv ==
    ASSUME NEW v \in Views, ViewInv(v)
    PROVE  LET w == SoftOut(v)
           IN  /\ w \in Views /\ ViewInv(w)
               /\ w.dev = v.dev /\ w.p.serial = v.p.serial
               /\ ~w.xprox \/ w = v
               /\ v.p.serial = 0 => ~w.xprox
<1> DEFINE ds == [type |-> DevType[v.dev], serial |-> 0, proximity |-> FALSE,
                  buttons |-> {}, other |-> FALSE]
<1>1. SoftOut(v) = SendEvents(v, ds)
  BY DEF SoftOut
<1>2. /\ ds.buttons = {} /\ ~ds.other /\ ~ds.proximity /\ ds.serial = 0
      /\ ds.buttons \in SUBSET Buttons
  OBVIOUS
<1> HIDE DEF ds
<1>3. \/ SendEvents(v, ds) = v /\ v.p.serial # 0
      \/ SendEvents(v, ds) = OutOfProximity(v)
  BY <1>2 DEF SendEvents
<1> QED
  BY <1>1, <1>3, OutOfProximityInv
-----------------------------------------------------------------------------
(* Dispatch computes with values of the declared types.                    *)

\* A set of naturals has a least element.
LEMMA LeastNat ==
    ASSUME NEW T \in SUBSET Nat, T # {}
    PROVE  \E m \in T : \A n \in T : m <= n
<1>1. \E m \in T : \A n \in T : ~(<<n, m>> \in OpToRel(<, Nat))
  BY NatLessThanWellFounded, WFMin
<1>2. PICK m \in T : \A n \in T : ~(<<n, m>> \in OpToRel(<, Nat))
  BY <1>1
<1>3. ASSUME NEW n \in T
      PROVE  m <= n
  <2>1. n \in Nat /\ m \in Nat
    OBVIOUS
  <2>2. ~(n < m)
    BY <1>2, <2>1 DEF OpToRel
  <2> QED
    BY <2>1, <2>2
<1> QED
  BY <1>3

\* The areas of a tool are devices, and there is a first one.
LEMMA AreaTypes ==
    ASSUME NEW t \in Tools
    PROVE  /\ DOMAIN AreaList[t] \subseteq Nat
           /\ \A i \in DOMAIN AreaList[t] : AreaList[t][i] \in Devices
           /\ 1 \in DOMAIN AreaList[t]
           /\ DevicesOf(t) \subseteq Devices
<1>1. AreaList[t] \in Seq(Devices) /\ AreaList[t] # <<>>
  BY ToolAssumption
<1> QED
  BY <1>1 DEF DevicesOf

\* The first area under a point is one of the tool's and contains the point.
LEMMA FirstAreaType ==
    ASSUME NEW t \in Tools, NEW x
    PROVE  \/ FirstArea(t, x) = NoDevice
           \/ FirstArea(t, x) \in DevicesOf(t) /\ x \in Area[FirstArea(t, x)]
<1> DEFINE hits == {i \in DOMAIN AreaList[t] : PointInArea(AreaList[t][i], x)}
<1>1. CASE hits = {}
  BY <1>1 DEF FirstArea
<1>2. CASE hits # {}
  <2>1. \E i \in hits : \A j \in hits : i <= j
    BY <1>2, AreaTypes, LeastNat
  <2> DEFINE k == CHOOSE i \in hits : \A j \in hits : i <= j
  <2>2. k \in hits /\ FirstArea(t, x) = AreaList[t][k]
    BY <1>2, <2>1 DEF FirstArea
  <2> QED
    BY <2>2 DEF DevicesOf, PointInArea
<1> QED
  BY <1>1, <1>2

\* The area a sample is for is one of its tool's; the current area is kept
\* or sent out.
LEMMA AreaForType ==
    ASSUME CurrentInv, NEW t \in Tools, NEW x
    PROVE  /\ AreaFor(t, x) \in DevicesOf(t) \cup {NoDevice}
           /\ AreaOuts(t, x) \subseteq DevicesOf(t)
           /\ AreaFor(t, x) \notin AreaOuts(t, x)
           /\ current[t] # NoDevice =>
                \/ AreaFor(t, x) = current[t]
                \/ current[t] \in AreaOuts(t, x)
  BY FirstAreaType, AreaTypes, DeviceAssumption
  DEF AreaFor, AreaOuts, LeavesArea, PointInArea, CurrentInv, DevicesOf

\* Giving a sample its type keeps it a sample.
LEMMA TypedType ==
    ASSUME NEW c, NEW pk \in Packet, NEW ds \in Typed(c, pk)
    PROVE  ds \in Packet
<1>1. pk \in Packet /\ pk.idType \in Types
  BY DEF Packet
<1>2. ASSUME NEW type \in Types
      PROVE  [pk EXCEPT !.type = type] \in Packet
  BY <1>1 DEF Packet
<1>3. \A t \in Tools : ToolType[t] \in Types
  BY ToolAssumption
<1>4. \/ ds = pk
      \/ \E type \in Types : ds = [pk EXCEPT !.type = type]
  BY <1>1, <1>3 DEF Typed
<1> QED
  BY <1>1, <1>2, <1>4

\* What dispatch notes before it sends disturbs nothing.
LEMMA NotedView ==
    ASSUME IInv, NEW d \in Devices, NEW ds \in Packet
    PROVE  LET v == [View(d) EXCEPT !.p = Noted(d, ds)]
           IN  /\ v \in Views /\ ViewInv(v) /\ v.dev = d
               /\ v.xprox = xprox[d] /\ v.p.serial = priv[d].serial
               /\ Filtered(d, ds).buttons \in SUBSET Buttons
               /\ Filtered(d, ds).proximity \in BOOLEAN
               /\ Filtered(d, ds).type = ds.type
<1>1. priv[d] \in PrivState /\ View(d) \in Views /\ ViewInv(View(d))
  BY DEF IInv, TypeOK, View, Views
<1>2. MinPressure(priv[d], ds) \in Pressures
  BY <1>1, ValueAssumption DEF MinPressure, Lesser, PrivState, Packet, Pressures
<1>3. ds.proximity \in BOOLEAN
  BY DEF Packet
<1>4. /\ Noted(d, ds) \in PrivState
      /\ Noted(d, ds).oldProximity = priv[d].oldProximity
      /\ Noted(d, ds).oldButtons = priv[d].oldButtons
      /\ Noted(d, ds).tpcButtons = priv[d].tpcButtons
      /\ Noted(d, ds).tpcButtonOne = priv[d].tpcButtonOne
      /\ Noted(d, ds).button = priv[d].button
      /\ Noted(d, ds).serial = priv[d].serial
  BY <1>1, <1>2, <1>3 DEF Noted, PrivState
<1> DEFINE v == [View(d) EXCEPT !.p = Noted(d, ds)]
<1>5. /\ v \in Views /\ v.dev = d /\ v.p = Noted(d, ds)
      /\ v.down = down[d] /\ v.xprox = xprox[d]
  BY <1>1, <1>4 DEF View, Views
<1> HIDE DEF v
<1>6. ViewInv(v)
  BY <1>1, <1>4, <1>5 DEF ViewInv, ButtonInv, FlagsInv, HeldFor, Unmixed, HeldBy, Sent, View
<1>7. 1 \in Buttons
  BY ValueAssumption DEF Buttons
<1>8. TipButton(ds, MinPressure(priv[d], ds), wcmThreshold[Common[d]]) \in SUBSET Buttons
  BY <1>7 DEF TipButton, Packet
<1>9. /\ Filtered(d, ds).buttons \in SUBSET Buttons
      /\ Filtered(d, ds).proximity \in BOOLEAN
      /\ Filtered(d, ds).type = ds.type
  BY <1>8 DEF Filtered, Packet
<1> QED
  BY <1>4, <1>5, <1>6, <1>9 DEF v

\* The cursor distance extreme stays a distance.
LEMMA CursorTypes ==
    ASSUME TypeOK, NEW d \in Devices, NEW ds \in Packet
    PROVE  CursorStart(d) \in Distances /\ CursorDist(d, ds) \in Distances
<1>1. CursorStart(d) \in Distances
  BY DeviceAssumption DEF CursorStart, Distances, TypeOK
<1>2. ds.distance \in Distances
  BY DEF Packet
<1> QED
  BY <1>1, <1>2 DEF CursorDist, Lesser, Greater

-----------------------------------------------------------------------------
(* Posting rewrites the views of the device the sample is for and of the   *)
(* devices that are sent out.                                              *)

\* A view that satisfies the invariant may become the next one.
LEMMA ViewInvPrimed ==
    ASSUME NEW e \in Devices, NEW w \in Views, ViewInv(w), w.dev = e,
           priv'[e] = w.p, down'[e] = w.down, xprox'[e] = w.xprox,
           wcmTPCButton' = wcmTPCButton
    PROVE  ViewInv(View(e))'
  BY DEF ViewInv, ButtonInv, FlagsInv, HeldFor, Unmixed, HeldBy, Sent, Tpc, View

\* What the invariant says of one device, as a view.
LEMMA ViewType ==
    ASSUME IInv, NEW e \in Devices
    PROVE  /\ View(e) \in Views /\ ViewInv(View(e))
           /\ View(e).dev = e /\ View(e).p = priv[e]
           /\ View(e).down = down[e] /\ View(e).xprox = xprox[e]
  BY DEF IInv, TypeOK, View, Views

\* Posting keeps every view right; a bystander stays as it is or goes out.
LEMMA PostInv ==
    ASSUME IInv, NEW outs \in SUBSET Devices, NEW d, NEW v,
           d \in Devices => v \in Views /\ ViewInv(v) /\ v.dev = d,
           Post(outs, d, v),
           wcmTPCButton' = wcmTPCButton
    PROVE  /\ priv' \in [Devices -> PrivState]
           /\ down' \in [Devices -> SUBSET Codes]
           /\ xprox' \in [Devices -> BOOLEAN]
           /\ \A e \in Devices : ViewInv(View(e))'
           /\ d \in Devices => xprox'[d] = v.xprox /\ priv'[d].serial = v.p.serial
           /\ \A e \in Devices \ {d} :
                /\ priv'[e].serial = priv[e].serial
                /\ \/ xprox'[e] = xprox[e] /\ down'[e] = down[e]
                   \/ ~xprox'[e] /\ down'[e] = {}
                /\ e \in outs /\ priv[e].serial = 0 => ~xprox'[e]
<1> DEFINE view(e) == IF e = d THEN v
                      ELSE IF e \in outs THEN SoftOut(View(e)) ELSE View(e)
<1>1. /\ priv' = [e \in Devices |-> view(e).p]
      /\ down' = [e \in Devices |-> view(e).down]
      /\ xprox' = [e \in Devices |-> view(e).xprox]
  BY DEF Post
<1>2. ASSUME NEW e \in Devices
      PROVE  view(e) \in Views /\ ViewInv(view(e)) /\ view(e).dev = e
  BY ViewType, SoftOutInv
<1>3. ASSUME NEW w \in Views, ViewInv(w), ~w.xprox
      PROVE  w.down = {}
  BY <1>3 DEF ViewInv, ButtonInv, FlagsInv, HeldFor, Unmixed, Sent, HeldBy
<1>4. ASSUME NEW e \in Devices \ {d}
      PROVE  /\ view(e).p.serial = priv[e].serial
             /\ \/ view(e).xprox = xprox[e] /\ view(e).down = down[e]
                \/ ~view(e).xprox /\ view(e).down = {}
             /\ e \in outs /\ priv[e].serial = 0 => ~view(e).xprox
  <2>1. CASE e \in outs
    <3>1. view(e) = SoftOut(View(e))
      BY <2>1
    <3>2. /\ view(e) \in Views /\ ViewInv(view(e))
          /\ view(e).p.serial = priv[e].serial
          /\ ~view(e).xprox \/ view(e) = View(e)
          /\ priv[e].serial = 0 => ~view(e).xprox
      BY <3>1, ViewType, SoftOutInv
    <3> HIDE DEF view
    <3> QED
      BY <1>3, <3>2, ViewType
  <2>2. CASE e \notin outs
    BY <2>2, ViewType
  <2> QED
    BY <2>1, <2>2
<1>5. d \in Devices => view(d) = v
  OBVIOUS
<1> HIDE DEF view
<1>6. \A e \in Devices : view(e).p \in PrivState /\ view(e).down \in SUBSET Codes
                         /\ view(e).xprox \in BOOLEAN
  BY <1>2 DEF Views
<1>7. \A e \in Devices : ViewInv(View(e))'
  BY <1>1, <1>2, ViewInvPrimed
<1> QED
  BY <1>1, <1>4, <1>5, <1>6, <1>7

-----------------------------------------------------------------------------
(* Every step preserves the invariant.                                     *)

\* Two tools have no device in common.
LEMMA ToolsDisjoint ==
    ASSUME NEW t \in Tools, NEW u \in Tools, NEW d \in DevicesOf(t), d \in DevicesOf(u)
    PROVE  t = u
  BY ToolAssumption DEF DevicesOf

\* A device knows its tool.
LEMMA ToolOfDevice ==
    ASSUME NEW t \in Tools, NEW d \in DevicesOf(t)
    PROVE  ToolOf(d) = t
  BY ToolsDisjoint DEF ToolOf

\* What the three outcomes of dispatch have in common: a is the area the
\* sample is for, d the device that gets it (or none), c the tool's area
\* afterwards.
LEMMA DispatchedInv ==
    ASSUME IInv, NEW t \in Tools, NEW x, NEW a, a = AreaFor(t, x),
           NEW outs \in SUBSET Devices, AreaOuts(t, x) \subseteq outs,
           NEW d \in {a, NoDevice}, NEW v,
           d \in Devices => /\ v \in Views /\ ViewInv(v) /\ v.dev = d
                           /\ v.p.serial = priv[d].serial,
           Post(outs, d, v),
           NEW c \in {a, NoDevice}, current' = [current EXCEPT ![t] = c],
           \/ c = a
           \/ d = a /\ (ToolType[t] # "PAD" /\ priv[d].serial = 0 => ~v.xprox),
           wcmMaxCursorDist' \in [Commons -> Distances],
           UNCHANGED <<enabled, commonVars>>
    PROVE  /\ IInv'
           /\ \A e \in Devices \ {d} : Session!Bystander(e)
<1>1. /\ a \in DevicesOf(t) \cup {NoDevice}
      /\ current[t] # NoDevice => a = current[t] \/ current[t] \in outs
      /\ NoDevice \notin Devices
      /\ DevicesOf(t) \subseteq Devices
  BY AreaForType, AreaTypes, DeviceAssumption DEF IInv
<1>2. wcmTPCButton' = wcmTPCButton /\ enabled' = enabled
      /\ wcmTouch' = wcmTouch /\ wcmThreshold' = wcmThreshold
  BY DEF commonVars
<1>3. /\ priv' \in [Devices -> PrivState]
      /\ down' \in [Devices -> SUBSET Codes]
      /\ xprox' \in [Devices -> BOOLEAN]
      /\ \A e \in Devices : ViewInv(View(e))'
      /\ d \in Devices => xprox'[d] = v.xprox /\ priv'[d].serial = v.p.serial
      /\ \A e \in Devices \ {d} :
           /\ priv'[e].serial = priv[e].serial
           /\ \/ xprox'[e] = xprox[e] /\ down'[e] = down[e]
              \/ ~xprox'[e] /\ down'[e] = {}
           /\ e \in outs /\ priv[e].serial = 0 => ~xprox'[e]
  BY <1>2, PostInv
<1>4. \A e \in Devices : priv'[e].serial = priv[e].serial
  BY <1>3
<1>5. current \in [Tools -> Devices \cup {NoDevice}]
  BY DEF IInv, TypeOK
<1>6. TypeOK'
  <2>1. current' \in [Tools -> Devices \cup {NoDevice}]
    BY <1>1, <1>5
  <2> QED
    BY <1>2, <1>3, <2>1 DEF IInv, TypeOK
<1>7. CurrentInv'
  BY <1>1, <1>5 DEF IInv, CurrentInv
<1>8. SerialInv'
  BY <1>4, AreaTypes DEF IInv, SerialInv
<1>9. OneInProxPerTool'
  <2> SUFFICES ASSUME NEW u \in Tools, ToolType[u] # "PAD", ToolSerial[u] = 0, Shared(u),
                      NEW e \in DevicesOf(u), xprox'[e]
               PROVE  current'[u] = e
    BY DEF OneInProxPerTool
  <2>1. e \in Devices /\ priv[e].serial = 0
    BY AreaTypes DEF IInv, SerialInv
  <2>2. xprox[e] => current[u] = e
    BY DEF IInv, OneInProxPerTool
  <2>3. e # d => xprox[e]
    BY <1>3, <2>1, DeviceAssumption DEF IInv, TypeOK
  <2>4. CASE u # t
    <3>1. e # d
      BY <1>1, <2>1, <2>4, ToolsDisjoint
    <3> QED
      BY <1>5, <2>2, <2>3, <2>4, <3>1
  <2>5. CASE u = t /\ e = a
    <3>1. c = a
      BY <1>3, <2>1, <2>5
    <3> QED
      BY <1>5, <2>5, <3>1
  <2>6. CASE u = t /\ e # a
    <3>1. e # d
      BY <1>1, <2>1, <2>6
    <3>2. current[t] = e /\ e # NoDevice
      BY <1>1, <2>1, <2>2, <2>3, <2>6, <3>1
    <3>3. e \in outs
      BY <1>1, <2>6, <3>2
    <3> QED
      BY <1>3, <2>1, <3>1, <3>3
  <2> QED
    BY <2>4, <2>5, <2>6
<1>10. \A e \in Devices \ {d} : Session!Bystander(e)
  BY <1>3 DEF Session!Bystander
<1> QED
  BY <1>3, <1>6, <1>7, <1>8, <1>9, <1>10 DEF IInv

\* The tool of a sample is of the sample's type.
LEMMA ToolsForType ==
    ASSUME NEW c, NEW ds \in Packet, NEW t \in ToolsFor(c, ds)
    PROVE  t \in Tools /\ ToolType[t] = ds.type
  BY DEF ToolsFor

\* Dispatching a sample keeps the invariant, and all devices but one stay as
\* they are or are sent out.
LEMMA DispatchInv ==
    ASSUME IInv, NEW c, NEW ds \in Packet, NEW suppress, Dispatch(c, ds, suppress)
    PROVE  IInv' /\ \E w \in Devices : \A e \in Devices \ {w} : Session!Bystander(e)
<1>1. PICK t \in ToolsFor(c, ds) :
        \/ DispatchNowhere(t, ds)
        \/ DispatchIdle(t, ds, suppress)
        \/ DispatchSend(t, ds, suppress)
  BY DEF Dispatch
<1>2. t \in Tools /\ ToolType[t] = ds.type
  BY ToolsForType
<1> DEFINE d == AreaFor(t, ds.x)
           outs == AreaOuts(t, ds.x) \cup TouchOuts(d)
           noted == [View(d) EXCEPT !.p = Noted(d, ds)]
<1>3. /\ d \in DevicesOf(t) \cup {NoDevice}
      /\ AreaOuts(t, ds.x) \in SUBSET Devices
      /\ outs \in SUBSET Devices
      /\ DevicesOf(t) \subseteq Devices
      /\ NoDevice \notin Devices
      /\ enabled \subseteq Devices
      /\ wcmMaxCursorDist \in [Commons -> Distances]
      /\ d \in Devices => Common[d] \in Commons
  BY <1>2, AreaForType, AreaTypes, DeviceAssumption DEF IInv, TypeOK, TouchOuts
<1>4. TypeOK
  BY DEF IInv
<1>5. CASE DispatchNowhere(t, ds)
  <2>1. /\ Post(AreaOuts(t, ds.x), NoDevice, <<>>)
        /\ current' = [current EXCEPT ![t] = d]
        /\ UNCHANGED <<enabled, wcmMaxCursorDist, commonVars>>
    BY <1>5 DEF DispatchNowhere, PostOuts
  <2>2. IInv' /\ \A e \in Devices \ {NoDevice} : Session!Bystander(e)
    <3> HIDE DEF d
    <3> QED
      BY <1>2, <1>3, <2>1, DispatchedInv DEF d
  <2>3. 1 \in DOMAIN AreaList[t] /\ AreaList[t][1] \in Devices
    BY <1>2, AreaTypes
  <2> QED
    BY <1>3, <2>2, <2>3
<1>6. CASE DispatchIdle(t, ds, suppress)
  <2>1. /\ d \in enabled
        /\ Post(outs, d, noted)
        /\ current' = [current EXCEPT ![t] = d]
        /\ wcmMaxCursorDist' \in [Commons -> Distances]
        /\ UNCHANGED <<enabled, commonVars>>
    BY <1>3, <1>4, <1>6, CursorTypes DEF DispatchIdle
  <2>2. /\ d \in Devices
        /\ noted \in Views /\ ViewInv(noted) /\ noted.dev = d
        /\ noted.p.serial = priv[d].serial
    BY <1>3, <2>1, NotedView
  <2> HIDE DEF d, noted, outs
  <2>3. AreaOuts(t, ds.x) \subseteq outs
    BY DEF outs
  <2>4. IInv' /\ \A e \in Devices \ {d} : Session!Bystander(e)
    BY <1>2, <1>3, <2>1, <2>2, <2>3, DispatchedInv DEF d
  <2> QED
    BY <2>2, <2>4
<1>7. CASE DispatchSend(t, ds, suppress)
  <2> DEFINE filtered == Filtered(d, ds)
             sent == SendEvents(noted, filtered)
             a == IF filtered.proximity THEN d ELSE NoDevice
  <2>1. /\ d \in enabled
        /\ Post(outs, d, sent)
        /\ current' = [current EXCEPT ![t] = a]
        /\ wcmMaxCursorDist' \in [Commons -> Distances]
        /\ UNCHANGED <<enabled, commonVars>>
    BY <1>3, <1>4, <1>7, CursorTypes DEF DispatchSend
  <2>2. /\ d \in Devices
        /\ noted \in Views /\ ViewInv(noted) /\ noted.dev = d
        /\ noted.p.serial = priv[d].serial
        /\ filtered.buttons \in SUBSET Buttons
        /\ filtered.type = ds.type
    BY <1>3, <2>1, NotedView
  <2> HIDE DEF d, noted, outs, filtered
  <2>3. /\ sent \in Views /\ ViewInv(sent) /\ sent.dev = d
        /\ sent.p.serial = priv[d].serial
        /\ priv[d].serial = 0 /\ ds.type # "PAD" => (sent.xprox <=> filtered.proximity)
    BY <2>2, SendEventsInv
  <2>4. AreaOuts(t, ds.x) \subseteq outs
    BY DEF outs
  <2> HIDE DEF sent
  <2>5. IInv' /\ \A e \in Devices \ {d} : Session!Bystander(e)
    <3>1. CASE filtered.proximity
      BY ZenonT(40), <1>2, <1>3, <2>1, <2>3, <2>4, <3>1, DispatchedInv DEF d
    <3>2. CASE ~filtered.proximity
      BY <1>2, <1>3, <2>1, <2>3, <2>4, <3>2, DispatchedInv DEF d
    <3> QED
      BY <3>1, <3>2
  <2> QED
    BY <2>2, <2>5
<1> QED
  BY <1>1, <1>5, <1>6, <1>7

\* With everything out of proximity nothing is held and no flag is set.
LEMMA QuietView ==
    ASSUME IInv, NEW d \in Devices, ~priv[d].oldProximity
    PROVE  /\ priv[d].oldButtons = {} /\ down[d] = {} /\ ~xprox[d]
           /\ ~priv[d].tpcButtons /\ ~priv[d].tpcButtonOne
<1>1. View(d).p = priv[d] /\ View(d).down = down[d] /\ View(d).xprox = xprox[d]
      /\ ViewInv(View(d))
  BY ViewType
<1> QED
  BY <1>1 DEF ViewInv, ButtonInv, FlagsInv, HeldFor, Unmixed, Sent, HeldBy

\* A setting of one device, with the device's buttons as they were or nothing
\* pressed on it.
LEMMA SettingInv ==
    ASSUME IInv, NEW d \in Devices, NEW p \in PrivState,
           p.oldProximity = priv[d].oldProximity,
           p.oldButtons = priv[d].oldButtons,
           p.tpcButtons = priv[d].tpcButtons,
           p.tpcButtonOne = priv[d].tpcButtonOne,
           p.button = priv[d].button \/ ~priv[d].oldProximity,
           p.serial = priv[d].serial \/ ~Shared(ToolOf(d)),
           priv' = [priv EXCEPT ![d] = p],
           UNCHANGED <<enabled, current, wcmMaxCursorDist, commonVars, serverVars>>
    PROVE  IInv'
<1>1. /\ TypeOK /\ priv \in [Devices -> PrivState]
      /\ \A e \in Devices : ViewInv(View(e))
  BY DEF IInv, TypeOK
<1>2. /\ enabled' = enabled /\ current' = current
      /\ wcmMaxCursorDist' = wcmMaxCursorDist /\ wcmTPCButton' = wcmTPCButton
      /\ wcmTouch' = wcmTouch /\ wcmThreshold' = wcmThreshold
      /\ down' = down /\ xprox' = xprox
  BY DEF commonVars, serverVars
<1>3. TypeOK'
  <2>1. priv' \in [Devices -> PrivState]
    BY <1>1
  <2> QED
    BY <1>1, <1>2, <2>1 DEF TypeOK
<1>4. ASSUME NEW e \in Devices
      PROVE  ViewInv(View(e))'
  <2>1. CASE e # d
    <3>1. priv'[e] = View(e).p /\ down'[e] = View(e).down /\ xprox'[e] = View(e).xprox
      BY <1>1, <1>2, <2>1, ViewType
    <3> QED
      BY <1>2, <3>1, ViewType, ViewInvPrimed
  <2>2. CASE e = d
    <3> DEFINE w == [View(d) EXCEPT !.p = p]
    <3>1. /\ w \in Views /\ w.dev = d /\ w.p = p
          /\ w.down = down[d] /\ w.xprox = xprox[d]
      BY ViewType DEF Views
    <3>2. priv'[d] = p
      BY <1>1
    <3>3. /\ View(d).dev = d /\ View(d).p = priv[d] /\ View(d).down = down[d]
          /\ View(d).xprox = xprox[d] /\ ViewInv(View(d))
      BY ViewType
    <3> HIDE DEF w
    <3>4. ViewInv(w)
      <4>1. /\ Sent(w) = Sent(View(d))
            /\ FlagsInv(w)
            /\ w.xprox = w.p.oldProximity
            /\ ~w.p.oldProximity => w.p.oldButtons = {}
        BY <3>1, <3>3 DEF ViewInv, ButtonInv, FlagsInv, Sent
      <4>2. CASE p.button = priv[d].button
        BY <3>1, <3>3, <4>1, <4>2, HeldForButton DEF ViewInv, ButtonInv
      <4>3. CASE ~priv[d].oldProximity
        <5>1. w.down = {} /\ Sent(w) = {}
          BY <3>1, <3>3, <4>1, <4>3, QuietView DEF Sent
        <5> QED
          BY <4>1, <5>1, HeldForNone DEF ViewInv, ButtonInv
      <4> QED
        BY <4>2, <4>3
    <3> QED
      BY <1>2, <2>2, <3>1, <3>2, <3>4, ViewInvPrimed
  <2> QED
    BY <2>1, <2>2
<1>5. CurrentInv' /\ OneInProxPerTool'
  BY <1>2 DEF IInv, CurrentInv, OneInProxPerTool
<1>6. SerialInv'
  <2> SUFFICES ASSUME NEW t \in Tools, Shared(t), NEW e \in DevicesOf(t)
               PROVE  priv'[e].serial = ToolSerial[t]
    BY DEF SerialInv
  <2>1. e \in Devices /\ ToolOf(e) = t /\ priv[e].serial = ToolSerial[t]
    BY AreaTypes, ToolOfDevice DEF IInv, SerialInv
  <2> QED
    BY <1>1, <2>1
<1> QED
  BY <1>3, <1>4, <1>5, <1>6 DEF IInv

\* Switching the mode keeps the invariant.
LEMMA SetModeInv ==
    ASSUME IInv, NEW d \in Devices, NEW absolute \in BOOLEAN, SetMode(d, absolute)
    PROVE  IInv' /\ UNCHANGED serverVars
<1> DEFINE p == [priv[d] EXCEPT !.absolute = absolute]
<1>1. priv[d] \in PrivState
  BY DEF IInv, TypeOK
<1>2. /\ p \in PrivState
      /\ p.oldProximity = priv[d].oldProximity /\ p.oldButtons = priv[d].oldButtons
      /\ p.tpcButtons = priv[d].tpcButtons /\ p.tpcButtonOne = priv[d].tpcButtonOne
      /\ p.button = priv[d].button /\ p.serial = priv[d].serial
  BY <1>1 DEF PrivState
<1>3. priv' = [priv EXCEPT ![d] = p]
  BY DEF SetMode
<1> HIDE DEF p
<1> QED
  BY <1>2, <1>3, SettingInv DEF SetMode

\* Remapping a button of a device out of proximity keeps the invariant.
LEMMA SetButtonInv ==
    ASSUME IInv, NEW d \in Devices, NEW b \in Buttons, NEW action \in Actions,
           ~priv[d].oldProximity, SetButton(d, b, action)
    PROVE  IInv' /\ UNCHANGED serverVars
<1> DEFINE p == [priv[d] EXCEPT !.button[b] = action]
<1>1. priv[d] \in PrivState
  BY DEF IInv, TypeOK
<1>2. /\ p \in PrivState
      /\ p.oldProximity = priv[d].oldProximity /\ p.oldButtons = priv[d].oldButtons
      /\ p.tpcButtons = priv[d].tpcButtons /\ p.tpcButtonOne = priv[d].tpcButtonOne
      /\ p.serial = priv[d].serial
  BY <1>1 DEF PrivState
<1>3. priv' = [priv EXCEPT ![d] = p]
  BY DEF SetButton
<1> HIDE DEF p
<1> QED
  BY <1>2, <1>3, SettingInv DEF SetButton

\* Renumbering a device that shares no tool keeps the invariant.
LEMMA SetSerialInv ==
    ASSUME IInv, NEW d \in Devices, NEW serial \in Serials,
           ~Shared(ToolOf(d)), SetSerial(d, serial)
    PROVE  IInv' /\ UNCHANGED serverVars
<1> DEFINE p == [priv[d] EXCEPT !.serial = serial]
<1>1. priv[d] \in PrivState
  BY DEF IInv, TypeOK
<1>2. /\ p \in PrivState
      /\ p.oldProximity = priv[d].oldProximity /\ p.oldButtons = priv[d].oldButtons
      /\ p.tpcButtons = priv[d].tpcButtons /\ p.tpcButtonOne = priv[d].tpcButtonOne
      /\ p.button = priv[d].button
  BY <1>1 DEF PrivState
<1>3. priv' = [priv EXCEPT ![d] = p]
  BY DEF SetSerial
<1> HIDE DEF p
<1> QED
  BY <1>2, <1>3, SettingInv DEF SetSerial

\* Settings of the tablet, and the server enabling devices, leave every
\* device's record alone.
LEMMA CommonInv ==
    ASSUME IInv,
           \/ \E c \in Commons, on \in TouchModes : SetTouch(c, on)
           \/ \E c \in Commons, value \in Thresholds : SetThreshold(c, value)
           \/ \E d \in Devices : Enable(d)
           \/ \E c \in Commons, on \in TPCButtonModes : Quiet /\ SetTPCButton(c, on)
    PROVE  IInv' /\ UNCHANGED serverVars
<1>1. /\ priv' = priv /\ current' = current /\ down' = down /\ xprox' = xprox
      /\ wcmMaxCursorDist' = wcmMaxCursorDist
      /\ enabled' \subseteq Devices
      /\ wcmTPCButton' \in [Commons -> BOOLEAN]
      /\ wcmTouch' \in [Commons -> BOOLEAN]
      /\ wcmThreshold' \in [Commons -> Thresholds]
      /\ wcmTPCButton' = wcmTPCButton \/ Quiet
  BY ValueAssumption
  DEF IInv, TypeOK, SetTouch, SetThreshold, Enable, SetTPCButton, commonVars, serverVars
<1>2. TypeOK'
  BY <1>1 DEF IInv, TypeOK
<1>3. ASSUME NEW d \in Devices
      PROVE  ViewInv(View(d))'
  <2>1. View(d).p = priv[d] /\ View(d).down = down[d] /\ View(d).xprox = xprox[d]
        /\ View(d).dev = d /\ View(d) \in Views /\ ViewInv(View(d))
    BY ViewType
  <2>2. CASE wcmTPCButton' = wcmTPCButton
    BY <1>1, <2>1, <2>2, ViewInvPrimed
  <2>3. CASE Quiet
    <3>1. /\ priv[d].oldButtons = {} /\ down[d] = {} /\ ~xprox[d]
          /\ ~priv[d].tpcButtons /\ ~priv[d].tpcButtonOne /\ ~priv[d].oldProximity
          /\ xprox[d] \in BOOLEAN /\ priv[d].oldProximity \in BOOLEAN
      BY <2>3, QuietView DEF Quiet, IInv, TypeOK, PrivState
    <3> QED
      BY <1>1, <3>1 DEF ViewInv, ButtonInv, FlagsInv, HeldFor, HeldBy, Sent, View
  <2> QED
    BY <1>1, <2>2, <2>3
<1>4. CurrentInv' /\ SerialInv' /\ OneInProxPerTool'
  BY <1>1 DEF IInv, CurrentInv, SerialInv, OneInProxPerTool
<1> QED
  BY <1>1, <1>2, <1>3, <1>4 DEF IInv, serverVars

\* A step that changes nothing keeps the invariant.
LEMMA StutterInv ==
    ASSUME IInv, UNCHANGED vars
    PROVE  IInv' /\ UNCHANGED serverVars
<1>1. /\ priv' = priv /\ enabled' = enabled /\ current' = current
      /\ wcmMaxCursorDist' = wcmMaxCursorDist /\ wcmTPCButton' = wcmTPCButton
      /\ wcmTouch' = wcmTouch /\ wcmThreshold' = wcmThreshold
      /\ down' = down /\ xprox' = xprox
  BY DEF vars, commonVars, serverVars
<1>2. TypeOK'
  BY <1>1 DEF IInv, TypeOK
<1>3. ASSUME NEW d \in Devices
      PROVE  ViewInv(View(d))'
  BY <1>1, ViewType, ViewInvPrimed
<1>4. CurrentInv' /\ SerialInv' /\ OneInProxPerTool'
  BY <1>1 DEF IInv, CurrentInv, SerialInv, OneInProxPerTool
<1> QED
  BY <1>1, <1>2, <1>3, <1>4 DEF IInv, serverVars

\* Settings changed with care keep the invariant and show the server nothing.
LEMMA CarefulSettingsInv ==
    ASSUME IInv, CarefulSettings
    PROVE  IInv' /\ UNCHANGED serverVars
<1>1. CASE SafeSettings
  BY <1>1, SetModeInv, CommonInv, DeviceAssumption DEF SafeSettings
<1>2. CASE \E d \in Remapped, b \in Buttons, action \in Actions :
             Quiet /\ SetButton(d, b, action)
  BY <1>2, SetButtonInv, DeviceAssumption DEF Quiet
<1>3. CASE \E c \in Commons, on \in TPCButtonModes : Quiet /\ SetTPCButton(c, on)
  BY <1>3, CommonInv
<1>4. CASE \E d \in Renumbered, serial \in Serials :
             ~Shared(ToolOf(d)) /\ SetSerial(d, serial)
  BY <1>4, SetSerialInv, DeviceAssumption
<1> QED
  BY <1>1, <1>2, <1>3, <1>4 DEF CarefulSettings

\* A step keeps the invariant, and either shows the X server nothing or is
\* one report about one device.
LEMMA StepInv ==
    ASSUME IInv, [CarefulNext]_vars
    PROVE  /\ IInv'
           /\ \/ UNCHANGED serverVars
              \/ \E w \in Devices : \A e \in Devices \ {w} : Session!Bystander(e)
<1>1. CASE Sample
  <2>1. PICK c \in Commons, pk \in Packets, suppress \in {1, 2} :
          \E ds \in Typed(c, pk) : Dispatch(c, ds, suppress)
    BY <1>1 DEF Sample
  <2>2. PICK ds \in Typed(c, pk) : Dispatch(c, ds, suppress)
    BY <2>1
  <2>3. pk \in Packet
    BY ValueAssumption
  <2> QED
    BY <2>2, <2>3, TypedType, DispatchInv
<1>2. CASE CarefulSettings
  BY <1>2, CarefulSettingsInv
<1>3. CASE UNCHANGED vars
  BY <1>3, StutterInv
<1> QED
  BY <1>1, <1>2, <1>3 DEF CarefulNext

\* The driver starts in the invariant.
LEMMA InitInv ==
    ASSUME Init
    PROVE  IInv
<1>1. \A d \in Devices : ToolOf(d) \in Tools
  BY ToolAssumption DEF ToolOf, DevicesOf
<1>2. \A d \in Devices : priv[d] = InitPriv(d)
  BY DEF Init
<1>3. TypeOK
  <2>1. ASSUME NEW d \in Devices
        PROVE  InitPriv(d) \in PrivState
    <3>1. ToolSerial[ToolOf(d)] \in Serials /\ InitButton[d] \in [Buttons -> Actions]
      BY <1>1, ToolAssumption, ValueAssumption
    <3>2. 0 \in Pressures
      BY ValueAssumption DEF Pressures
    <3> QED
      BY <3>1, <3>2 DEF InitPriv, PrivState
  <2>2. wcmMaxCursorDist \in [Commons -> Distances]
    BY DEF Init, Distances
  <2>3. wcmTPCButton \in [Commons -> BOOLEAN] /\ wcmTouch \in [Commons -> BOOLEAN]
    BY ValueAssumption DEF Init
  <2> QED
    BY <2>1, <2>2, <2>3 DEF Init, TypeOK
<1>4. ASSUME NEW d \in Devices
      PROVE  ViewInv(View(d))
  <2>1. /\ View(d).p.oldProximity = FALSE /\ View(d).p.oldButtons = {}
        /\ View(d).p.tpcButtons = FALSE /\ View(d).p.tpcButtonOne = FALSE
        /\ View(d).down = {} /\ View(d).xprox = FALSE
    BY <1>2 DEF Init, View, InitPriv
  <2> QED
    BY <2>1, HeldForNone DEF ViewInv, ButtonInv, FlagsInv, Sent
<1>5. CurrentInv
  BY DEF Init, CurrentInv
<1>6. SerialInv
  <2> SUFFICES ASSUME NEW t \in Tools, NEW d \in DevicesOf(t)
               PROVE  priv[d].serial = ToolSerial[t]
    BY DEF SerialInv
  <2>1. d \in Devices /\ ToolOf(d) = t
    BY AreaTypes, ToolOfDevice
  <2>2. InitPriv(d).serial = ToolSerial[ToolOf(d)]
    BY DEF InitPriv
  <2> QED
    BY <1>2, <2>1, <2>2
<1>7. OneInProxPerTool
  BY AreaTypes DEF Init, OneInProxPerTool
<1> QED
  BY <1>3, <1>4, <1>5, <1>6, <1>7 DEF IInv

-----------------------------------------------------------------------------
(* The theorems, for every tablet, configuration and stream of samples.    *)

\* The inductive invariant holds of every driver whose settings are changed
\* with care.
THEOREM Invariant == CarefulSpec => []IInv
<1>1. Init => IInv
  BY InitInv
<1>2. IInv /\ [CarefulNext]_vars => IInv'
  BY StepInv
<1> QED
  BY <1>1, <1>2, PTL DEF CarefulSpec

\* The driver's records stay within their types: no pressure minimum, cursor
\* distance or current area leaves its range.
THEOREM TypeCorrect == CarefulSpec => []TypeOK
<1>1. IInv => TypeOK
  BY DEF IInv
<1> QED
  BY <1>1, Invariant, PTL

\* The invariant gives the three button properties.
LEMMA StuckAndHeld ==
    ASSUME IInv
    PROVE  NoStuckButton /\ HeldIsReported /\ ReportedIsHeld
<1> SUFFICES ASSUME NEW d \in Devices
             PROVE  /\ ~xprox[d] => down[d] = {}
                    /\ down[d] \subseteq HeldBy(priv[d], Sent(View(d)))
                    /\ Separate(d) => HeldBy(priv[d], Sent(View(d))) \subseteq down[d]
  BY DEF NoStuckButton, HeldIsReported, ReportedIsHeld
<1>1. /\ View(d).p = priv[d] /\ View(d).down = down[d] /\ View(d).xprox = xprox[d]
      /\ ViewInv(View(d))
  BY ViewType
<1>2. HeldFor(priv[d], down[d], Sent(View(d)))
  BY <1>1 DEF ViewInv, ButtonInv
<1>3. ~xprox[d] => down[d] = {}
  BY <1>1, <1>2, HeldForNone DEF ViewInv, ButtonInv, FlagsInv, Sent
<1> QED
  BY <1>2, <1>3 DEF HeldFor, Unmixed, Separate

\* xf86WcmSendEvents and the soft prox-outs leave nothing pressed on a device
\* that is out of proximity.
THEOREM NothingStuck == CarefulSpec => []NoStuckButton
<1>1. IInv => NoStuckButton
  BY StuckAndHeld
<1> QED
  BY <1>1, Invariant, PTL

\* xf86WcmSendButtons, Tablet PC mode and its button 1 workaround included,
\* holds nothing the hardware no longer reports.
THEOREM NothingUnowed == CarefulSpec => []HeldIsReported
<1>1. IInv => HeldIsReported
  BY StuckAndHeld
<1> QED
  BY <1>1, Invariant, PTL

\* It holds everything the hardware reports, too, unless two buttons of a
\* device are configured to the same code.
THEOREM NothingLost == CarefulSpec => []ReportedIsHeld
<1>1. IInv => ReportedIsHeld
  BY StuckAndHeld
<1> QED
  BY <1>1, Invariant, PTL

\* commonDispatchDevice hands a default tool from area to area without ever
\* having two of its devices in proximity.
THEOREM OneArea == CarefulSpec => []OneInProxPerTool
<1>1. IInv => OneInProxPerTool
  BY DEF IInv
<1> QED
  BY <1>1, Invariant, PTL

\* What the outcomes of dispatch show the X server of the devices: d gets the
\* sample or there is none, and the others stay as they are or go out.
LEMMA DispatchShown ==
    ASSUME IInv, NEW c, NEW ds \in Packet, NEW suppress, NEW t \in ToolsFor(c, ds),
           \/ DispatchNowhere(t, ds)
           \/ DispatchIdle(t, ds, suppress)
           \/ DispatchSend(t, ds, suppress),
           NEW d, d = AreaFor(t, ds.x)
    PROVE  /\ \A e \in Devices \ {d} :
                /\ xprox'[e] => xprox[e]
                /\ d # NoDevice /\ d \in enabled /\ priv[e].serial = 0
                     /\ e \in AreaOuts(t, ds.x) \cup TouchOuts(d) => ~xprox'[e]
           /\ d \in Devices /\ d \notin enabled => (xprox'[d] => xprox[d])
<1> DEFINE outs == AreaOuts(t, ds.x) \cup TouchOuts(d)
           noted == [View(d) EXCEPT !.p = Noted(d, ds)]
           sent == SendEvents(noted, Filtered(d, ds))
<1>1. /\ t \in Tools /\ NoDevice \notin Devices
      /\ AreaOuts(t, ds.x) \in SUBSET Devices /\ outs \in SUBSET Devices
      /\ d \in Devices \cup {NoDevice}
      /\ xprox \in [Devices -> BOOLEAN]
  <2>1. t \in Tools
    BY ToolsForType
  <2> QED
    BY <2>1, AreaForType, AreaTypes, DeviceAssumption DEF IInv, TypeOK, TouchOuts
<1>2. CASE DispatchNowhere(t, ds)
  <2>1. /\ Post(AreaOuts(t, ds.x), NoDevice, <<>>) /\ d \notin enabled
        /\ wcmTPCButton' = wcmTPCButton
    BY <1>2 DEF DispatchNowhere, PostOuts, commonVars
  <2>2. \A e \in Devices \ {NoDevice} :
          \/ xprox'[e] = xprox[e] /\ down'[e] = down[e]
          \/ ~xprox'[e] /\ down'[e] = {}
    BY <1>1, <2>1, PostInv
  <2> QED
    BY <1>1, <2>1, <2>2
<1>3. CASE DispatchIdle(t, ds, suppress)
  <2>1. /\ Post(outs, d, noted) /\ d \in enabled /\ d \in Devices
        /\ wcmTPCButton' = wcmTPCButton
    BY <1>3 DEF DispatchIdle, commonVars, IInv, TypeOK
  <2>2. noted \in Views /\ ViewInv(noted) /\ noted.dev = d
    BY <2>1, NotedView
  <2> HIDE DEF outs, noted
  <2>3. \A e \in Devices \ {d} :
          /\ \/ xprox'[e] = xprox[e] /\ down'[e] = down[e]
             \/ ~xprox'[e] /\ down'[e] = {}
          /\ e \in outs /\ priv[e].serial = 0 => ~xprox'[e]
    BY <1>1, <2>1, <2>2, PostInv
  <2> QED
    BY <2>1, <2>3 DEF outs
<1>4. CASE DispatchSend(t, ds, suppress)
  <2>1. /\ Post(outs, d, sent) /\ d \in enabled /\ d \in Devices
        /\ wcmTPCButton' = wcmTPCButton
    BY <1>4 DEF DispatchSend, commonVars, IInv, TypeOK
  <2>2. sent \in Views /\ ViewInv(sent) /\ sent.dev = d
    <3>1. /\ noted \in Views /\ ViewInv(noted) /\ noted.dev = d
          /\ Filtered(d, ds).buttons \in SUBSET Buttons
      BY <2>1, NotedView
    <3> HIDE DEF noted
    <3> QED
      BY <3>1, SendEventsInv
  <2> HIDE DEF outs, sent
  <2>3. \A e \in Devices \ {d} :
          /\ \/ xprox'[e] = xprox[e] /\ down'[e] = down[e]
             \/ ~xprox'[e] /\ down'[e] = {}
          /\ e \in outs /\ priv[e].serial = 0 => ~xprox'[e]
    BY <1>1, <2>1, <2>2, PostInv
  <2> QED
    BY <2>1, <2>3 DEF outs
<1> QED
  BY <1>2, <1>3, <1>4

\* The touch devices that are in proximity are among those sent out.
LEMMA DispatchEndsTouch ==
    ASSUME IInv, NEW c, NEW ds \in Packet, NEW suppress, Dispatch(c, ds, suppress),
           NEW d \in Devices, NEW e \in Devices,
           wcmTouch[Common[d]], DevType[d] # "TOUCH", ~xprox[d], xprox'[d],
           DevType[e] = "TOUCH", priv[e].serial = 0
    PROVE  ~xprox'[e]
<1>1. PICK t \in ToolsFor(c, ds) :
        \/ DispatchNowhere(t, ds)
        \/ DispatchIdle(t, ds, suppress)
        \/ DispatchSend(t, ds, suppress)
  BY DEF Dispatch
<1> DEFINE a == AreaFor(t, ds.x)
<1>2. /\ \A f \in Devices \ {a} :
           /\ xprox'[f] => xprox[f]
           /\ a # NoDevice /\ a \in enabled /\ priv[f].serial = 0
                /\ f \in AreaOuts(t, ds.x) \cup TouchOuts(a) => ~xprox'[f]
      /\ a \in Devices /\ a \notin enabled => (xprox'[a] => xprox[a])
  BY <1>1, DispatchShown
<1> HIDE DEF a
<1>3. d = a /\ d \in enabled /\ d # NoDevice /\ e # d
  BY <1>2, DeviceAssumption
<1>4. /\ xprox[e] = priv[e].oldProximity /\ xprox[d] = priv[d].oldProximity
  BY ViewType DEF ViewInv
<1>5. priv[e].oldProximity => e \in TouchOuts(d)
  BY <1>4 DEF TouchOuts
<1> QED
  BY <1>2, <1>3, <1>4, <1>5

\* A pen, mouse or pad coming into proximity with touch enabled sends the
\* touch devices out in the same step.
THEOREM TouchEnded == CarefulSpec => PenEndsTouch
<1> DEFINE Ended ==
      \A d, e \in Devices :
         /\ wcmTouch[Common[d]]
         /\ DevType[d] # "TOUCH" /\ ~xprox[d] /\ xprox'[d]
         /\ DevType[e] = "TOUCH" /\ priv[e].serial = 0
         => ~xprox'[e]
<1>1. ASSUME IInv, [CarefulNext]_vars
      PROVE  Ended
  <2>1. CASE Sample
    <3>1. PICK c \in Commons, pk \in Packets, suppress \in {1, 2} :
            \E ds \in Typed(c, pk) : Dispatch(c, ds, suppress)
      BY <2>1 DEF Sample
    <3>2. PICK ds \in Typed(c, pk) : Dispatch(c, ds, suppress)
      BY <3>1
    <3>3. ds \in Packet
      BY <3>2, TypedType, ValueAssumption
    <3> QED
      BY <1>1, <3>2, <3>3, DispatchEndsTouch
  <2>2. CASE CarefulSettings
    BY <1>1, <2>2, CarefulSettingsInv DEF serverVars
  <2>3. CASE UNCHANGED vars
    BY <2>3 DEF vars, serverVars
  <2> QED
    BY <1>1, <2>1, <2>2, <2>3 DEF CarefulNext
<1>2. Ended => [Ended]_vars
  OBVIOUS
<1>3. PenEndsTouch <=> [][Ended]_vars
  BY DEF PenEndsTouch
<1> HIDE DEF Ended
<1> QED
  BY <1>1, <1>3, Invariant, PTL DEF CarefulSpec

\* A sample out of proximity that the serial number lets through takes the
\* device out.
LEMMA SendEventsOut ==
    ASSUME NEW v \in Views, ViewInv(v), NEW ds, ds.type # "PAD", ~ds.proximity,
           v.p.serial = 0 \/ v.p.serial = ds.serial
    PROVE  ~SendEvents(v, ds).xprox
  BY OutOfProximityInv DEF SendEvents

\* The device the sample is for shows what its view does.
LEMMA PostShows ==
    ASSUME NEW d \in Devices, NEW outs, NEW v, Post(outs, d, v)
    PROVE  xprox'[d] = v.xprox
  BY DEF Post

\* A tool that is about to be nowhere was nowhere, and shares its areas.
LEMMA NowhereType ==
    ASSUME NEW t \in Tools, NEW x, AreaFor(t, x) = NoDevice
    PROVE  Shared(t) /\ current[t] = NoDevice
  BY AreaTypes, DeviceAssumption DEF AreaFor, LeavesArea

\* A tool with one area is always there, unless it was nowhere it could be.
LEMMA OnlyArea ==
    ASSUME CurrentInv, NEW t \in Tools, ~Shared(t), NEW x, NEW d \in DevicesOf(t)
    PROVE  AreaFor(t, x) = d
<1>1. AreaList[t] \in Seq(Devices) /\ Len(AreaList[t]) <= 1
  BY ToolAssumption DEF Shared
<1>2. \A i \in DOMAIN AreaList[t] : i = 1
  BY <1>1
<1>3. \A e \in DevicesOf(t) : e = AreaList[t][1]
  BY <1>2 DEF DevicesOf
<1>4. AreaFor(t, x) # NoDevice
  BY NowhereType
<1> QED
  BY <1>3, <1>4, AreaForType

\* Dispatch of a prox-out takes the tool's device out, whichever of its areas
\* the last position is in.
LEMMA DispatchGoesOut ==
    ASSUME IInv, NEW c, NEW pk \in Packet, ~pk.proximity, pk.type # "PAD",
           Dispatch(c, pk, 1), NEW t \in ToolsFor(c, pk), NEW d \in DevicesOf(t),
           DevicesOf(t) \subseteq enabled,
           priv[d].serial = 0 \/ (priv[d].serial = pk.serial /\ ~Shared(t))
    PROVE  ~xprox'[d]
<1>1. PICK u \in ToolsFor(c, pk) :
        \/ DispatchNowhere(u, pk)
        \/ DispatchIdle(u, pk, 1)
        \/ DispatchSend(u, pk, 1)
  BY DEF Dispatch
<1>2. u = t
  BY SMTT(20), ToolAssumption DEF ToolsFor
<1> DEFINE a == AreaFor(t, pk.x)
<1>3. /\ t \in Tools /\ ToolType[t] # "PAD" /\ d \in Devices /\ d \in enabled
      /\ a \in DevicesOf(t) \cup {NoDevice}
      /\ current[t] # NoDevice => a = current[t] \/ current[t] \in AreaOuts(t, pk.x)
      /\ NoDevice \notin Devices /\ d # NoDevice
  BY ToolsForType, AreaTypes, AreaForType, DeviceAssumption DEF IInv
<1>4. xprox[d] => d = a \/ current[t] = d
  <2>1. CASE Shared(t)
    <3>1. ToolSerial[t] = 0
      BY <1>3, <2>1 DEF IInv, SerialInv
    <3> QED
      BY <1>3, <2>1, <3>1 DEF IInv, OneInProxPerTool
  <2>2. CASE ~Shared(t)
    BY <1>3, <2>2, OnlyArea DEF IInv
  <2> QED
    BY <2>1, <2>2
<1>5. /\ \A e \in Devices \ {a} :
           /\ xprox'[e] => xprox[e]
           /\ a # NoDevice /\ a \in enabled /\ priv[e].serial = 0
                /\ e \in AreaOuts(t, pk.x) \cup TouchOuts(a) => ~xprox'[e]
      /\ a \in Devices /\ a \notin enabled => (xprox'[a] => xprox[a])
  BY <1>1, <1>2, DispatchShown
<1>6. CASE d # a
  <2>1. Shared(t) /\ priv[d].serial = 0
    BY <1>3, <1>6, OnlyArea DEF IInv
  <2>2. SUFFICES ASSUME xprox[d]
                 PROVE  ~xprox'[d]
    BY <1>3, <1>5, <1>6
  <2>3. current[t] = d /\ d \in AreaOuts(t, pk.x)
    BY <1>3, <1>4, <1>6, <2>2
  <2>4. a # NoDevice /\ a \in enabled
    BY <1>3, <2>3, NowhereType
  <2> HIDE DEF a
  <2> QED
    BY <1>3, <1>5, <1>6, <2>1, <2>3, <2>4
<1>7. CASE d = a
  <2>1. ~DispatchNowhere(t, pk)
    BY <1>3, <1>7 DEF DispatchNowhere
  <2> DEFINE noted == [View(d) EXCEPT !.p = Noted(d, pk)]
             filtered == Filtered(d, pk)
             outs == AreaOuts(t, pk.x) \cup TouchOuts(d)
  <2>2. /\ noted \in Views /\ ViewInv(noted) /\ noted.dev = d
        /\ noted.xprox = xprox[d] /\ noted.p.serial = priv[d].serial
        /\ filtered.buttons \in SUBSET Buttons
        /\ filtered.type = pk.type /\ filtered.serial = pk.serial /\ ~filtered.proximity
        /\ outs \in SUBSET Devices
        /\ xprox[d] = priv[d].oldProximity
    <3>1. filtered.serial = pk.serial /\ ~filtered.proximity
      BY DEF Filtered, Packet
    <3>2. outs \in SUBSET Devices
      BY <1>3, AreaForType, AreaTypes DEF IInv, TouchOuts
    <3>3. xprox[d] = priv[d].oldProximity
      BY <1>3, ViewType DEF ViewInv
    <3> QED
      BY <1>3, <3>1, <3>2, <3>3, NotedView
  <2>3. CASE DispatchIdle(t, pk, 1)
    <3>1. HeldOut(d, pk)
      BY <1>7, <2>3 DEF DispatchIdle, Idles
    <3>2. Post(outs, d, noted) /\ wcmTPCButton' = wcmTPCButton
      BY <1>7, <2>3 DEF DispatchIdle, commonVars
    <3> HIDE DEF a, outs, noted, filtered
    <3>3. xprox'[d] = noted.xprox
      BY <1>3, <3>2, PostShows
    <3> QED
      BY <2>2, <3>1, <3>3 DEF HeldOut
  <2>4. CASE DispatchSend(t, pk, 1)
    <3> DEFINE sent == SendEvents(noted, filtered)
    <3>1. Post(outs, d, sent) /\ wcmTPCButton' = wcmTPCButton
      BY <1>7, <2>4 DEF DispatchSend, commonVars
    <3> HIDE DEF outs, noted, filtered
    <3>2. sent \in Views /\ ViewInv(sent) /\ sent.dev = d /\ ~sent.xprox
      BY <2>2, SendEventsInv, SendEventsOut
    <3> HIDE DEF a, sent
    <3>3. xprox'[d] = sent.xprox
      BY <1>3, <3>1, PostShows
    <3> QED
      BY <3>2, <3>3
  <2> QED
    BY <1>1, <1>2, <2>1, <2>3, <2>4
<1> QED
  BY <1>6, <1>7

\* No prox-out of the hardware is lost between commonDispatchDevice and
\* xf86WcmSendEvents, wherever it was reported.
THEOREM ProxOutArrives == CarefulSpec => OutMeansOut
<1> DEFINE Arrives ==
      \A c \in Commons, pk \in Packets :
         ~pk.proximity /\ pk.type \in Types \ {"PAD"} /\ Dispatch(c, pk, 1) =>
           \A t \in ToolsFor(c, pk) : \A d \in DevicesOf(t) :
             /\ DevicesOf(t) \subseteq enabled
             /\ priv[d].serial = 0 \/ (priv[d].serial = pk.serial /\ ~Shared(t))
             => ~xprox'[d]
<1>1. IInv => Arrives
  BY DispatchGoesOut, ValueAssumption
<1>2. OutMeansOut <=> [][Arrives]_vars
  BY DEF OutMeansOut
<1> HIDE DEF Arrives
<1> QED
  BY <1>1, <1>2, Invariant, PTL

\* At most one device of each default tool is in a session.
LEMMA GroupsInv ==
    ASSUME IInv
    PROVE  Session!AtMostOne(xprox)
<1> SUFFICES ASSUME NEW t \in Tools, ToolType[t] # "PAD", ToolSerial[t] = 0,
                    NEW d \in DevicesOf(t), NEW e \in DevicesOf(t), xprox[d], xprox[e]
             PROVE  d = e
  BY DEF Session!AtMostOne, Groups
<1>1. CASE Shared(t)
  BY <1>1 DEF IInv, OneInProxPerTool
<1>2. CASE ~Shared(t)
  <2>1. AreaList[t] \in Seq(Devices) /\ Len(AreaList[t]) <= 1
    BY <1>2, ToolAssumption DEF Shared
  <2>2. \A i \in DOMAIN AreaList[t] : i = 1
    BY <2>1
  <2> QED
    BY <2>2 DEF DevicesOf
<1> QED
  BY <1>1, <1>2

\* What the refinement needs of the state after a step.
SessionInv ==
    /\ Session!SessionTypeOK
    /\ Session!AtMostOne(xprox)
    /\ NoStuckButton

\* The invariant gives what the refinement needs.
LEMMA SessionInvHolds ==
    ASSUME IInv
    PROVE  SessionInv
  BY GroupsInv, StuckAndHeld DEF IInv, TypeOK, SessionInv, Session!SessionTypeOK

\* A step that leaves all devices but one as they are, or sent out, is a step
\* of the sessions.
LEMMA SessionStep ==
    ASSUME SessionInv',
           \/ UNCHANGED serverVars
           \/ \E w \in Devices : \A e \in Devices \ {w} : Session!Bystander(e)
    PROVE  [Session!SessionNext]_(Session!sessionVars)
<1>1. CASE UNCHANGED serverVars
  BY <1>1 DEF serverVars, Session!sessionVars
<1>2. CASE \E w \in Devices : \A e \in Devices \ {w} : Session!Bystander(e)
  <2>1. Session!SessionTypeOK'
    BY DEF SessionInv
  <2>2. Session!AtMostOne(xprox')
    BY DEF SessionInv, Session!AtMostOne
  <2>3. \A w \in Devices : Session!Reports(w)
    BY DEF SessionInv, NoStuckButton, Session!Reports
  <2> QED
    BY <1>2, <2>1, <2>2, <2>3 DEF Session!SessionNext
<1> QED
  BY <1>1, <1>2

\* The sessions start where the driver does.
LEMMA SessionStart ==
    ASSUME Init
    PROVE  Session!SessionInit
  BY DEF Init, Session!SessionInit, Session!Idle

\* The event path implements the abstract proximity sessions: every step is
\* one report about one device, or shows the X server nothing.
THEOREM Refinement == CarefulSpec => SessionSpec
<1>1. IInv => SessionInv
  BY SessionInvHolds
<1>2. Init => Session!SessionInit
  BY SessionStart
<1>3. IInv /\ SessionInv' /\ [CarefulNext]_vars => [Session!SessionNext]_(Session!sessionVars)
  BY StepInv, SessionStep
<1>4. SessionInv => Session!SessionTypeOK
  BY DEF SessionInv
<1> QED
  BY <1>1, <1>2, <1>3, <1>4, InitInv, Invariant, PTL
  DEF CarefulSpec, SessionSpec, Session!SessionSpec
=============================================================================
