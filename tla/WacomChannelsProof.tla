-------------------------- MODULE WacomChannelsProof --------------------------
(***************************************************************************)
(* Proofs about WacomChannels: for any tablets, tools and keys,            *)
(*   - every state is typed;                                               *)
(*   - the careful user's tools never lack a channel (NeverForced): on a   *)
(*     tablet that follows two tools because every number in the queue and *)
(*     in a channel is that of one of the tools, on the others because of  *)
(*     the next argument;                                                  *)
(*   - the channels of a tablet that follows one tool follow the hand      *)
(*     (ToolFollows, PadFollows).  What the kernel has sent and the driver *)
(*     has not read is a chain of moments: the first is the one that the   *)
(*     channels show, the last is what the input core has now, which is    *)
(*     what the hand does, and each frame tells one moment from the next.  *)
(*     A report adds a link (Continued), reading takes one away            *)
(*     (SingleReads).                                                      *)
(***************************************************************************)
EXTENDS WacomChannels, FiniteSetTheorems, TLAPS

\* A product has the type that lists it.
LEMMA TypeLists ==
    ASSUME NEW p \in ProductIds
    PROVE  TypeOf[p] \in DOMAIN ProductsOf /\ p \in ProductsOf[TypeOf[p]]
<1>1. PICK t \in DOMAIN ProductsOf : p \in ProductsOf[t]
  BY DEF ProductIds
<1> QED
  BY <1>1 DEF TypeOf

\* The X driver takes the tablets of wacom_intuos_irq, and no others, for
\* tablets of protocol 5.
LEMMA IsDual ==
    ASSUME NEW p \in ProductIds, TypeOf[p] = "INTUOS"
    PROVE  ProtocolLevel[p] = 5 /\ DualInput[p]
<1>1. p \in ProductsOf["INTUOS"]
  BY TypeLists
<1>2. p \in {\h20, \h21, \h22, \h23, \h24, \h41, \h42, \h43, \h44, \h45, \h47}
  BY <1>1 DEF ProductsOf
<1>3. ModelOf(p) \in {"usbIntuos1", "usbIntuos2"}
  BY <1>2 DEF ModelOf
<1> QED
  BY <1>3 DEF ProtocolLevel, DualInput, Protocol5Models

\* One of a tablet that follows one tool
LEMMA IsSingle ==
    ASSUME NEW p \in ProductIds, TypeOf[p] \in IntuosTypes \ {"INTUOS"}
    PROVE  ProtocolLevel[p] = 5 /\ ~DualInput[p]
<1> DEFINE ids == {\hB0, \hB7, \hB1, \hB2, \hB5, \hB3, \hB4, \hB8, \hB9, \hBC, \hBA, \hBB,
       \h26, \h29, \h27, \h2A, \h28, \h314, \h315, \h317, \h3F, \hC5, \hC6, \h304,
       \h57, \h59, \hF4, \hF8, \hCC, \hFA, \h5B}
<1>2. p \in ids
  BY TypeLists DEF ProductsOf, IntuosTypes, Intuos3, Intuos4, Intuos5, Displays
<1>3. ModelOf(p) \in {"usbIntuos3", "usbIntuos4", "usbIntuos5", "usbIntuosPro", "usbCintiqV5", "usbUnknown"}
  BY <1>2 DEF ModelOf
<1> QED
  BY <1>3 DEF ProtocolLevel, DualInput, Protocol5Models

\* One of a display or a PenPartner is of protocol 4.
LEMMA IsDisplay ==
    ASSUME NEW p \in ProductIds, TypeOf[p] \in PenDisplays
    PROVE  ProtocolLevel[p] = 4 /\ ~DualInput[p]
<1> DEFINE ids == {\h00, \h30, \h31, \h32, \h33, \h34, \h35, \h37, \h38, \h39, \hC0, \hC2, \hC4, \hC7,
   \h03, \hCE, \hF0, \hFB}
<1>2. p \in ids
  BY TypeLists DEF ProductsOf, PenDisplays
<1>3. ModelOf(p) \in {"usbPenPartner", "usbCintiqPartner", "usbCintiq"}
  BY <1>2 DEF ModelOf
<1> QED
  BY <1>3 DEF ProtocolLevel, DualInput, Protocol5Models

-----------------------------------------------------------------------------
(* The tables of keys.                                                     *)

\* The keys by which the driver knows a tool
LEMMA ToolKeyList ==
    ToolKeys = {"BTN_TOOL_PEN", "BTN_TOOL_PENCIL", "BTN_TOOL_BRUSH", "BTN_TOOL_AIRBRUSH",
                "BTN_TOOL_RUBBER", "BTN_TOOL_MOUSE", "BTN_TOOL_LENS", "BTN_TOOL_FINGER"}
  BY DEF ToolKeys, TypeToKey

\* The keys of a tool with a serial number
NumberedKeys == ToolKeys \ {"BTN_TOOL_FINGER"}

\* The kernel gives every tool id the key of a tool.
LEMMA ToolKeyIs ==
    ASSUME NEW id
    PROVE  ToolKeyOf(id) \in NumberedKeys
  BY ToolKeyList DEF ToolKeyOf, NumberedKeys

\* The key of a tool has a type.
LEMMA KeyHasType ==
    ASSUME NEW key \in ToolKeys
    PROVE  KeyType[key] \in Types
<1>1. PICK i \in DOMAIN TypeToKey : TypeToKey[i][2] = key
  BY DEF ToolKeys
<1>2. \A j \in DOMAIN TypeToKey : TypeToKey[j][1] \in Types
  BY DEF TypeToKey, Types
<1> QED
  BY <1>1, <1>2 DEF KeyType

\* Every tool id has a type.
LEMMA IdHasType ==
    ASSUME NEW id
    PROVE  FindDeviceType(id) \in Types
<1>1. IdToType(id) \in Types
  BY DEF IdToType, Types
<1> QED
  BY <1>1 DEF FindDeviceType, Types

\* The switches of tools, and all codes that a report can say are on
Written == PenSwitches \cup PuckButtons \cup {"ABS_Z"}
Spoken == Written \cup ExpressKeys \cup ToolKeys

\* The numbered express keys, one by one
LEMMA NumberKeys ==
    /\ KeysTo(9) = {"BTN_0", "BTN_1", "BTN_2", "BTN_3", "BTN_4", "BTN_5",
                    "BTN_6", "BTN_7", "BTN_8", "BTN_9"}
    /\ \A n \in 0 .. 9 : KeysTo(n) \subseteq KeysTo(9)
<1>1. /\ Keys(0) = "BTN_0" /\ Keys(1) = "BTN_1" /\ Keys(2) = "BTN_2" /\ Keys(3) = "BTN_3"
      /\ Keys(4) = "BTN_4" /\ Keys(5) = "BTN_5" /\ Keys(6) = "BTN_6" /\ Keys(7) = "BTN_7"
      /\ Keys(8) = "BTN_8" /\ Keys(9) = "BTN_9"
  BY DEF Keys
<1>2. KeysTo(9) = {Keys(i) : i \in 0 .. 9}
  BY DEF KeysTo
<1>3. \A i : i \in 0 .. 9 <=> i \in {0, 1, 2, 3, 4, 5, 6, 7, 8, 9}
  OBVIOUS
<1>4. \A n \in 0 .. 9 : KeysTo(n) \subseteq KeysTo(9)
  BY DEF KeysTo
<1> QED
  BY <1>1, <1>2, <1>3, <1>4

\* A code that is a button has one of thirty numbers.
LEMMA ButtonIs ==
    ASSUME NEW s \in Spoken, s \notin Axes, s \notin ToolKeys
    PROVE  ButtonOf(s) \in 0 .. 29
<1>1. CASE s \in KeysTo(9) \cup LetterKeys \cup {"BTN_BASE3"}
  <2>1. \E i \in DOMAIN PadKeyCodes : PadKeyCodes[i] = s
    BY <1>1, NumberKeys DEF PadKeyCodes, LetterKeys
  <2>2. DOMAIN PadKeyCodes = 1 .. 19
    BY DEF PadKeyCodes
  <2>3. (CHOOSE i \in DOMAIN PadKeyCodes : PadKeyCodes[i] = s) \in 1 .. 19
    BY <2>1, <2>2
  <2> QED
    BY <1>1, <2>3, NumberKeys DEF ButtonOf, LetterKeys, ProgKeys
<1>2. CASE s \in Written \cup ProgKeys
  BY <1>2 DEF ButtonOf, Written, PenSwitches, PuckButtons, ProgKeys, Axes
<1> QED
  BY <1>1, <1>2 DEF Spoken, ExpressKeys

\* No tablet declares the key of nothing.
LEMMA NothingDeclared ==
    ASSUME NEW t \in DOMAIN ProductsOf
    PROVE  NoKey \notin Capabilities[t]
<1>1. NoKey \notin KeysTo(9)
  BY NumberKeys DEF NoKey
<1>2. \A n \in 0 .. 9 : NoKey \notin KeysTo(n)
  BY <1>1, NumberKeys
<1>3. NoKey \notin PadEvents(t)
  <2>1. /\ NoKey \notin KeysTo(3) /\ NoKey \notin KeysTo(5) /\ NoKey \notin KeysTo(6)
        /\ NoKey \notin KeysTo(7) /\ NoKey \notin KeysTo(8) /\ NoKey \notin KeysTo(9)
    BY <1>2
  <2>2. NoKey \notin LetterKeys /\ NoKey \notin ProgKeys /\ NoKey \notin {"BTN_BASE3", "ABS_Z"}
    BY DEF LetterKeys, ProgKeys, NoKey
  <2> QED
    BY <2>1, <2>2 DEF PadEvents
<1>4. NoKey \notin CintiqEvents /\ NoKey \notin IntuosEvents
  BY DEF CintiqEvents, IntuosEvents, PenButtons, PuckButtons, NoKey
<1> QED
  BY <1>3, <1>4 DEF Capabilities, NoKey, PenButtons

-----------------------------------------------------------------------------
(* The kernel's types.                                                     *)

\* The serial numbers in the frames of the tablet
SerialsHere == IF type \in IntuosTypes THEN Nat \cup {PadSerial}
               ELSE {NoSerial, 1, DtusPadSerial}

CoreState == [on: SUBSET Codes, misc: Nat, origin: BOOLEAN]

WellMade(f) == f \in Frame /\ f.on \subseteq Spoken /\ f.serial \in SerialsHere

HandTyped == hand \in [tool: [Slots -> Tools \cup {NoTool}],
                       pressed: [Slots -> SUBSET SwitchesOf[product]], pads: SUBSET PadKeys]
WacTyped == wac \in [tool: [Slots -> ToolKeys \cup {NoKey}], id: [Slots -> Nat],
                     serial: [Slots -> Nat]]
QueueTyped == queue \in Seq(Frame) /\ \A i \in 1 .. Len(queue) : WellMade(queue[i])

KernelTyped ==
    /\ product \in Products /\ HandTyped /\ WacTyped
    /\ core \in CoreState /\ QueueTyped /\ open \in BOOLEAN

\* What a report leaves is typed.
SentWell ==
    /\ core' \in CoreState /\ queue' \in Seq(Frame)
    /\ \A i \in 1 .. Len(queue') : WellMade(queue'[i])

\* The typed parts are the type invariant of the reports.
LEMMA TypedReports ==
    ASSUME KernelTyped
    PROVE  ReportsTypeOK
  BY DEF KernelTyped, ReportsTypeOK, HandTyped, WacTyped, CoreState, QueueTyped

\* The tablet stays the same.
LEMMA SameTablet ==
    ASSUME UNCHANGED product
    PROVE  /\ type' = type /\ Codes' = Codes /\ Frame' = Frame
           /\ CoreState' = CoreState /\ SerialsHere' = SerialsHere
           /\ \A f : WellMade(f)' <=> WellMade(f)
  BY DEF type, Codes, Frame, CoreState, SerialsHere, WellMade

\* What is known of the tablet that is plugged in
LEMMA TypeKnown ==
    ASSUME product \in Products
    PROVE  /\ product \in ProductIds /\ type = TypeOf[product] /\ type \in DOMAIN ProductsOf
           /\ type \in IntuosTypes \cup PenDisplays
           /\ Codes = Capabilities[type] /\ NoKey \notin Codes
<1>1. product \in ProductIds /\ type \in IntuosTypes \cup PenDisplays /\ type = TypeOf[product]
  BY ReportsAssumption DEF type
<1>2. type \in DOMAIN ProductsOf
  BY <1>1, TypeLists
<1> QED
  BY <1>1, <1>2, NothingDeclared DEF Codes

\* What the input core makes of a report
News(on, off, misc, first, serial, axes) ==
    Report(Heard(on) \ core.on, Heard(off) \cap core.on,
           IF misc = core.misc THEN NoMisc ELSE misc, first, serial, axes)

Kept(on, off, misc, origin) ==
    [on |-> (core.on \cup Heard(on)) \ off, misc |-> IF misc = NoMisc THEN core.misc ELSE misc,
     origin |-> origin]

Sending(on, off, misc, first, serial, axes, origin) ==
    /\ core' = Kept(on, off, misc, origin)
    /\ \/ queue' = Append(queue, News(on, off, misc, first, serial, axes))
       \/ serial = NoSerial /\ queue' = queue

\* A report sent is heard, and what it changes is queued unless it changes
\* nothing.
LEMMA SendDoes ==
    ASSUME NEW on, NEW off, NEW misc, NEW first, NEW serial, NEW axes, NEW origin,
           Send(Report(on, off, misc, first, serial, axes), origin)
    PROVE  Sending(on, off, misc, first, serial, axes, origin)
<1> DEFINE r == Report(on, off, misc, first, serial, axes)
           frame == Changed(r)
<1>1. /\ r.on = on /\ r.off = off /\ r.misc = misc /\ r.serial = serial
      /\ r = [on |-> on, off |-> off, misc |-> misc, miscFirst |-> first,
              serial |-> serial, axes |-> axes]
  BY DEF Report
<1>2. frame = News(on, off, misc, first, serial, axes)
  <2> HIDE DEF r
  <2> DEFINE heard == Heard(on)
             unheard == Heard(off)
  <2>1. frame = [r EXCEPT !.on = heard \ core.on, !.off = unheard \cap core.on,
                          !.misc = IF misc = core.misc THEN NoMisc ELSE misc]
    BY <1>1 DEF Changed
  <2> HIDE DEF heard, unheard, frame
  <2>2. frame = [on |-> heard \ core.on, off |-> unheard \cap core.on,
                 misc |-> IF misc = core.misc THEN NoMisc ELSE misc, miscFirst |-> first,
                 serial |-> serial, axes |-> axes]
    <3>1. r = [on |-> on, off |-> off, misc |-> misc, miscFirst |-> first,
               serial |-> serial, axes |-> axes]
      BY <1>1
    <3> DEFINE x == heard \ core.on
               y == unheard \cap core.on
               z == IF misc = core.misc THEN NoMisc ELSE misc
    <3>2. frame = [r EXCEPT !.on = x, !.off = y, !.misc = z]
      BY <2>1
    <3> HIDE DEF x, y, z
    <3>3. frame = [on |-> x, off |-> y, misc |-> z, miscFirst |-> first,
                   serial |-> serial, axes |-> axes]
      BY <3>1, <3>2
    <3> QED
      BY <3>3 DEF x, y, z
  <2> QED
    BY <2>2 DEF News, Report, heard, unheard
<1>3. frame.serial = serial
  BY <1>2 DEF News, Report
<1>4. Send(r, origin)
  OBVIOUS
<1>5. core' = [on |-> (core.on \cup Heard(r.on)) \ r.off,
               misc |-> IF r.misc = NoMisc THEN core.misc ELSE r.misc, origin |-> origin]
  BY <1>4 DEF Send
<1>6. queue' = IF /\ frame.on \cup frame.off = {} /\ frame.misc = NoMisc
                  /\ frame.serial = NoSerial /\ ~frame.axes
               THEN queue ELSE Append(queue, frame)
  BY <1>4 DEF Send
<1> HIDE DEF r, frame
<1>7. core' = Kept(on, off, misc, origin)
  BY <1>1, <1>5 DEF Kept
<1>8. CASE serial = NoSerial
  BY <1>2, <1>6, <1>7, <1>8 DEF Sending
<1>9. CASE serial # NoSerial
  BY <1>2, <1>3, <1>6, <1>7, <1>9 DEF Sending
<1> QED
  BY <1>8, <1>9

\* A report of a tool that leaves says that coordinates changed if they did.
LEMMA SendAwayDoes ==
    ASSUME NEW on, NEW off, NEW misc, NEW first, NEW serial, NEW axes,
           SendAway(Report(on, off, misc, first, serial, axes))
    PROVE  Send(Report(on, off, misc, first, serial, ~core.origin), TRUE)
<1>1. [Report(on, off, misc, first, serial, axes) EXCEPT !.axes = ~core.origin]
        = Report(on, off, misc, first, serial, ~core.origin)
  BY DEF Report
<1> QED
  BY <1>1 DEF SendAway

\* The report of a tool that is near
LEMMA SendNearDoes ==
    ASSUME NEW on, NEW off, NEW misc, NEW first, NEW serial, NEW axes,
           SendNear(Report(on, off, misc, first, serial, axes))
    PROVE  Send(Report(on, off, misc, first, serial, axes), core.origin /\ ~axes)
  BY DEF SendNear, Report

\* A report that says what is spoken keeps the types.
LEMMA SentTyped ==
    ASSUME KernelTyped, NEW on, on \subseteq Spoken \cup {NoKey}, NEW off,
           NEW misc \in Nat \cup {NoMisc}, NEW first \in BOOLEAN, NEW serial \in SerialsHere,
           NEW axes \in BOOLEAN, NEW origin \in BOOLEAN,
           Send(Report(on, off, misc, first, serial, axes), origin)
    PROVE  SentWell
<1> DEFINE f == News(on, off, misc, first, serial, axes)
<1>1. core \in CoreState /\ QueueTyped /\ product \in Products
  BY DEF KernelTyped
<1>2. Heard(on) \subseteq Codes /\ Heard(on) \subseteq on /\ NoKey \notin Codes
  BY <1>1, TypeKnown DEF Heard
<1>3. core' = Kept(on, off, misc, origin)
  BY SendDoes DEF Sending
<1>4. core' \in CoreState
  BY <1>1, <1>2, <1>3 DEF Kept, CoreState
<1>5. WellMade(f)
  <2>1. serial \in Int
    BY DEF SerialsHere, NoSerial, PadSerial, DtusPadSerial
  <2>2. f \in Frame
    BY <1>1, <1>2, <2>1 DEF News, Report, Frame, CoreState
  <2>3. f.on \subseteq Spoken /\ f.serial = serial
    BY <1>2 DEF News, Report
  <2> QED
    BY <2>2, <2>3 DEF WellMade
<1>6. queue' = Append(queue, f) \/ queue' = queue
  BY SendDoes DEF Sending
<1> HIDE DEF f
<1>7. CASE queue' = Append(queue, f)
  <2>1. f \in Frame
    BY <1>5 DEF WellMade
  <2>2. queue' \in Seq(Frame) /\ Len(queue') = Len(queue) + 1
    BY <1>1, <1>7, <2>1 DEF QueueTyped
  <2>3. ASSUME NEW i \in 1 .. Len(queue')
        PROVE  WellMade(queue'[i])
    <3>1. CASE i = Len(queue) + 1
      BY <1>1, <1>5, <1>7, <2>1, <3>1 DEF QueueTyped
    <3>2. CASE i # Len(queue) + 1
      <4>1. i \in 1 .. Len(queue) /\ queue'[i] = queue[i]
        BY <1>1, <1>7, <2>1, <2>2, <3>2 DEF QueueTyped
      <4> QED
        BY <1>1, <4>1 DEF QueueTyped
    <3> QED
      BY <3>1, <3>2
  <2> QED
    BY <1>4, <2>2, <2>3 DEF SentWell
<1>8. CASE queue' = queue
  BY <1>1, <1>4, <1>8 DEF QueueTyped, SentWell
<1> QED
  BY <1>6, <1>7, <1>8

\* What a step may change, kept typed
LEMMA StepTyped ==
    ASSUME KernelTyped, UNCHANGED product, open' \in BOOLEAN,
           hand' \in [tool: [Slots -> Tools \cup {NoTool}],
                      pressed: [Slots -> SUBSET SwitchesOf[product]], pads: SUBSET PadKeys],
           WacTyped', SentWell
    PROVE  KernelTyped'
<1>1. product' \in Products /\ HandTyped'
  BY DEF KernelTyped, HandTyped
<1>2. core' \in CoreState'
  BY SameTablet DEF SentWell
<1>3. QueueTyped'
  BY SameTablet DEF QueueTyped, SentWell
<1> QED
  BY <1>1, <1>2, <1>3 DEF KernelTyped

\* A packet that is ignored leaves the types alone.
LEMMA IgnoreTyped ==
    ASSUME KernelTyped, Ignore
    PROVE  SentWell
  BY DEF KernelTyped, Ignore, QueueTyped, SentWell

-----------------------------------------------------------------------------
(* Types: the reports of a tool with a serial number.                      *)

\* The user's tools have an id and a serial number.
LEMMA ToolTyped ==
    ASSUME NEW p \in Products, NEW t \in ToolsOf[p]
    PROVE  t \in Tools /\ t.id \in Nat \ {0} /\ t.serial \in Nat \ {0}
  BY ReportsAssumption DEF Tools

\* An enter report sends nothing.
LEMMA EnterTyped ==
    ASSUME KernelTyped, NEW slot \in Slots, NEW t \in ToolsOf[product], Enter(slot, t)
    PROVE  KernelTyped'
<1>1. product \in Products /\ HandTyped /\ WacTyped
  BY DEF KernelTyped
<1>2. t \in Tools /\ t.id \in Nat /\ t.serial \in Nat
  BY <1>1, ToolTyped
<1>3. ToolKeyOf(t.id) \in ToolKeys
  BY ToolKeyIs DEF NumberedKeys
<1>4. /\ hand' = [hand EXCEPT !.tool[slot] = t]
      /\ UNCHANGED <<product, core, queue, open>>
      /\ wac' = IF open THEN [tool |-> [wac.tool EXCEPT ![slot] = ToolKeyOf(t.id)],
                              id |-> [wac.id EXCEPT ![slot] = t.id],
                              serial |-> [wac.serial EXCEPT ![slot] = t.serial]]
                ELSE wac
  BY DEF Enter
<1>5. hand' \in [tool: [Slots -> Tools \cup {NoTool}],
                 pressed: [Slots -> SUBSET SwitchesOf[product]], pads: SUBSET PadKeys]
  BY <1>1, <1>2, <1>4 DEF HandTyped
<1>6. WacTyped'
  BY <1>1, <1>2, <1>3, <1>4 DEF WacTyped
<1>7. SentWell
  BY <1>4, IgnoreTyped DEF Ignore
<1>8. open' \in BOOLEAN
  BY <1>4 DEF KernelTyped
<1> QED
  BY <1>4, <1>5, <1>6, <1>7, <1>8, StepTyped

\* A slot is one only on a tablet whose tools have serial numbers.
LEMMA SlotSerial ==
    ASSUME KernelTyped, NEW slot \in Slots, Slot(slot)
    PROVE  /\ wac.serial[slot] \in SerialsHere /\ wac.id[slot] \in Nat
           /\ wac.tool[slot] \in ToolKeys \cup {NoKey}
  BY DEF KernelTyped, WacTyped, Slot, SerialsHere

\* An exit report is well made.
LEMMA ExitTyped ==
    ASSUME KernelTyped, NEW slot \in Slots, Exit(slot)
    PROVE  KernelTyped'
<1>1. product \in Products /\ HandTyped /\ WacTyped /\ core.origin \in BOOLEAN
  BY DEF KernelTyped, CoreState
<1>2. /\ Slot(slot) /\ hand' = [hand EXCEPT !.tool[slot] = NoTool, !.pressed[slot] = {}]
      /\ UNCHANGED <<product, open>>
  BY DEF Exit
<1>3. hand' \in [tool: [Slots -> Tools \cup {NoTool}],
                 pressed: [Slots -> SUBSET SwitchesOf[product]], pads: SUBSET PadKeys]
  BY <1>1, <1>2 DEF HandTyped
<1>4. open' \in BOOLEAN
  BY <1>2 DEF KernelTyped
<1>5. CASE ~open \/ Blocked(slot)
  <2>1. Ignore /\ UNCHANGED wac
    BY <1>5 DEF Exit
  <2>2. WacTyped'
    BY <1>1, <2>1 DEF WacTyped
  <2> QED
    BY <1>2, <1>3, <1>4, <2>1, <2>2, IgnoreTyped, StepTyped
<1>6. CASE ~(~open \/ Blocked(slot))
  <2>1. SendAway(ExitReport(slot)) /\ wac' = [wac EXCEPT !.id[slot] = 0]
    BY <1>6 DEF Exit
  <2> DEFINE off == ResetSwitches(slot) \cup {wac.tool[slot]}
             serial == wac.serial[slot]
             away == ~core.origin
  <2>2. Send(Report({}, off, 0, FALSE, serial, away), TRUE)
    BY <2>1, SendAwayDoes DEF ExitReport
  <2>3. serial \in SerialsHere /\ away \in BOOLEAN /\ 0 \in Nat \cup {NoMisc}
    BY <1>1, <1>2, SlotSerial
  <2>4. WacTyped'
    BY <1>1, <2>1 DEF WacTyped
  <2> HIDE DEF off, serial, away
  <2>5. SentWell
    BY <2>2, <2>3, SentTyped
  <2> QED
    BY <1>2, <1>3, <1>4, <2>4, <2>5, StepTyped
<1> QED
  BY <1>5, <1>6

\* A report of a tool that is near
LEMMA ToolReportDoes ==
    ASSUME KernelTyped, NEW slot \in Slots, Slot(slot), NEW on, NEW off, NEW axes \in BOOLEAN,
           SendNear(ToolReport(slot, on, off, axes))
    PROVE  Send(Report(on \cup {wac.tool[slot]}, off, wac.id[slot], TRUE, wac.serial[slot], axes),
                core.origin /\ ~axes)
  BY SendNearDoes DEF ToolReport

\* So is any report of a tool that is near.
LEMMA ToolReportTyped ==
    ASSUME KernelTyped, NEW slot \in Slots, Slot(slot),
           NEW on, on \subseteq Spoken, NEW off, NEW axes \in BOOLEAN,
           SendNear(ToolReport(slot, on, off, axes))
    PROVE  SentWell
<1> DEFINE said == on \cup {wac.tool[slot]}
           id == wac.id[slot]
           serial == wac.serial[slot]
           origin == core.origin /\ ~axes
<1>1. Send(Report(said, off, id, TRUE, serial, axes), origin)
  BY ToolReportDoes
<1>2. serial \in SerialsHere /\ id \in Nat \cup {NoMisc} /\ said \subseteq Spoken \cup {NoKey}
  BY SlotSerial DEF Spoken
<1>3. origin \in BOOLEAN
  OBVIOUS
<1> HIDE DEF said, id, serial, origin
<1> QED
  BY <1>1, <1>2, <1>3, SentTyped

\* A range report is one of them.
LEMMA RangeTyped ==
    ASSUME KernelTyped, NEW slot \in Slots, RangeReport(slot)
    PROVE  KernelTyped'
<1>1. /\ Slot(slot) /\ UNCHANGED <<product, hand, wac, open>>
      /\ SendNear(ToolReport(slot, {}, {"ABS_PRESSURE"}, TRUE))
  BY DEF RangeReport
<1>2. {} \subseteq Spoken /\ TRUE \in BOOLEAN
  OBVIOUS
<1>3. SentWell
  BY <1>1, <1>2, ToolReportTyped
<1>4. hand' \in [tool: [Slots -> Tools \cup {NoTool}],
                 pressed: [Slots -> SUBSET SwitchesOf[product]], pads: SUBSET PadKeys]
  BY <1>1 DEF KernelTyped, HandTyped
<1>5. WacTyped' /\ open' \in BOOLEAN
  BY <1>1 DEF KernelTyped, WacTyped
<1> QED
  BY <1>1, <1>3, <1>4, <1>5, StepTyped

\* What the packets of a tool report are switches of tools.
LEMMA PacketCodes ==
    ASSUME NEW key \in NumberedKeys, NEW codes \in Packets(key), type \in IntuosTypes
    PROVE  codes \subseteq Written
<1>1. key \in Pens \cup {"BTN_TOOL_MOUSE", "BTN_TOOL_LENS"}
  BY ToolKeyList DEF NumberedKeys, Pens
<1>2. PenSwitches \subseteq Written /\ PuckButtons \subseteq Written
      /\ {"ABS_Z"} \subseteq Written /\ {"BTN_LEFT", "BTN_MIDDLE", "BTN_RIGHT"} \subseteq Written
  BY DEF Written, PuckButtons
<1>3. CASE key \in Pens
  <2>1. key # "BTN_TOOL_MOUSE" /\ key # "BTN_TOOL_LENS"
    BY <1>3 DEF Pens
  <2>2. Packets(key) = {PenSwitches} \cup (IF type = "INTUOS" THEN {{}} ELSE {{"ABS_Z"}})
    BY <1>3, <2>1 DEF Packets
  <2> QED
    BY <1>2, <2>2
<1>4. CASE key = "BTN_TOOL_LENS"
  <2>1. Packets(key) = {PuckButtons}
    BY <1>4 DEF Packets, Pens
  <2> QED
    BY <1>2, <2>1
<1>5. CASE key = "BTN_TOOL_MOUSE"
  <2>1. Packets(key) \in {{PuckButtons, {}}, {PuckButtons}, {{"BTN_LEFT", "BTN_MIDDLE", "BTN_RIGHT"}}}
    BY <1>5 DEF Packets, Pens
  <2> QED
    BY <1>2, <2>1
<1> QED
  BY <1>1, <1>3, <1>4, <1>5

\* Only a tablet of wacom_intuos_irq has slots.
LEMMA SlotType ==
    ASSUME NEW slot, Slot(slot)
    PROVE  type \in IntuosTypes
  BY DEF Slot

\* What the kernel makes of a packet
PacketSent(slot, axes) ==
    \/ Ignore
    \/ /\ open /\ ~Unheard(slot)
       /\ \E codes \in Packets(ToolKeyOf(hand.tool[slot].id)), on \in SUBSET Written :
            /\ on \subseteq codes
            /\ SendNear(ToolReport(slot, on, codes \ on, axes))

\* A packet of a tool is ignored or sent.
LEMMA ToolPacketDoes ==
    ASSUME KernelTyped, NEW slot \in Slots, NEW pressed \in SUBSET SwitchesOf[product],
           NEW axes \in BOOLEAN, NEW ready \in BOOLEAN, ToolPacket(slot, pressed, axes, ready)
    PROVE  /\ Slot(slot) /\ hand.tool[slot] # NoTool
           /\ UNCHANGED <<product, wac, open>>
           /\ hand' = [hand EXCEPT !.pressed[slot] = pressed]
           /\ PacketSent(slot, axes)
<1>1. /\ Slot(slot) /\ hand.tool[slot] # NoTool /\ UNCHANGED <<product, wac, open>>
      /\ hand' = [hand EXCEPT !.pressed[slot] = pressed]
      /\ \E codes \in Packets(ToolKeyOf(hand.tool[slot].id)) :
           IF ~open \/ Unheard(slot) \/ (type = "CINTIQ" /\ ~ready) THEN Ignore
           ELSE LET on == Pressed(wac.tool[slot], pressed) \cap codes
                IN  SendNear(ToolReport(slot, on, codes \ on, axes))
  BY DEF ToolPacket
<1>2. PICK codes \in Packets(ToolKeyOf(hand.tool[slot].id)) :
           IF ~open \/ Unheard(slot) \/ (type = "CINTIQ" /\ ~ready) THEN Ignore
           ELSE LET on == Pressed(wac.tool[slot], pressed) \cap codes
                IN  SendNear(ToolReport(slot, on, codes \ on, axes))
  BY <1>1
<1>3. CASE ~open \/ Unheard(slot) \/ (type = "CINTIQ" /\ ~ready)
  BY <1>1, <1>2, <1>3 DEF PacketSent
<1>4. CASE ~(~open \/ Unheard(slot) \/ (type = "CINTIQ" /\ ~ready))
  <2> DEFINE on == Pressed(wac.tool[slot], pressed) \cap codes
  <2>1. SendNear(ToolReport(slot, on, codes \ on, axes))
    BY <1>2, <1>4
  <2>2. codes \subseteq Written
    BY <1>1, SlotType, ToolKeyIs, PacketCodes
  <2>3. on \in SUBSET Written /\ on \subseteq codes
    BY <2>2
  <2>4. open /\ ~Unheard(slot)
    BY <1>4
  <2> HIDE DEF on
  <2> QED
    BY <1>1, <2>1, <2>3, <2>4 DEF PacketSent
<1> QED
  BY <1>3, <1>4

\* A packet of a tool is well made.
LEMMA ToolPacketTyped ==
    ASSUME KernelTyped, NEW slot \in Slots, NEW pressed \in SUBSET SwitchesOf[product],
           NEW axes \in BOOLEAN, NEW ready \in BOOLEAN, ToolPacket(slot, pressed, axes, ready)
    PROVE  KernelTyped'
<1>1. /\ Slot(slot) /\ UNCHANGED <<product, wac, open>>
      /\ hand' = [hand EXCEPT !.pressed[slot] = pressed]
  BY ToolPacketDoes
<1>2. hand' \in [tool: [Slots -> Tools \cup {NoTool}],
                 pressed: [Slots -> SUBSET SwitchesOf[product]], pads: SUBSET PadKeys]
  BY <1>1 DEF KernelTyped, HandTyped
<1>3. WacTyped' /\ open' \in BOOLEAN
  BY <1>1 DEF KernelTyped, WacTyped
<1>4. SentWell
  <2>1. CASE Ignore
    BY <2>1, IgnoreTyped
  <2>2. ASSUME NEW codes, NEW on \in SUBSET Written,
               SendNear(ToolReport(slot, on, codes \ on, axes))
        PROVE  SentWell
    <3>1. on \subseteq Spoken
      BY DEF Spoken
    <3> QED
      BY <1>1, <2>2, <3>1, ToolReportTyped
  <2>3. \/ Ignore
        \/ \E codes \in Packets(ToolKeyOf(hand.tool[slot].id)), on \in SUBSET Written :
             SendNear(ToolReport(slot, on, codes \ on, axes))
    <3>1. PacketSent(slot, axes)
      BY ToolPacketDoes
    <3> QED
      BY <3>1 DEF PacketSent
  <2> QED
    BY <2>1, <2>2, <2>3
<1> QED
  BY <1>1, <1>2, <1>3, <1>4, StepTyped

-----------------------------------------------------------------------------
(* Types: the express keys.                                                *)

\* A report of the keys of a tablet of protocol 5
PadOn(pads) == pads \cup (IF PadNear(pads) THEN {"BTN_TOOL_FINGER"} ELSE {})
PadOff(pads) == (PadWritten \ pads) \cup (IF PadNear(pads) THEN {} ELSE {"BTN_TOOL_FINGER"})
PadMisc(pads) == IF PadNear(pads) THEN PAD_DEVICE_ID ELSE 0

\* What the pad's packet reports
LEMMA PadDoes ==
    ASSUME KernelTyped, NEW pads \in SUBSET PadKeys, Pad(pads)
    PROVE  /\ type \in IntuosTypes \ {"INTUOS"} /\ pads # hand.pads /\ pads \subseteq Codes
           /\ pads \subseteq ExpressKeys
           /\ UNCHANGED <<product, wac, open>> /\ hand' = [hand EXCEPT !.pads = pads]
           /\ \/ ~open /\ Ignore
              \/ /\ open
                 /\ Send(Report(PadOn(pads), PadOff(pads), PadMisc(pads), FALSE, PadSerial, FALSE),
                         core.origin)
<1>1. /\ type \in IntuosTypes \ {"INTUOS"} /\ pads # hand.pads /\ pads \subseteq Codes
      /\ UNCHANGED <<product, wac, open>> /\ hand' = [hand EXCEPT !.pads = pads]
  BY DEF Pad, Codes
<1>2. pads \subseteq ExpressKeys
  BY ReportsAssumption
<1>3. CASE open
  <2>1. SendNear(Report(PadOn(pads), PadOff(pads), PadMisc(pads), FALSE, PadSerial, FALSE))
    BY <1>3 DEF Pad, PadOn, PadOff, PadMisc
  <2>2. Send(Report(PadOn(pads), PadOff(pads), PadMisc(pads), FALSE, PadSerial, FALSE),
             core.origin /\ ~FALSE)
    BY <2>1, SendNearDoes
  <2>3. (core.origin /\ ~FALSE) = core.origin
    BY DEF KernelTyped, CoreState
  <2> QED
    BY <1>1, <1>2, <1>3, <2>2, <2>3
<1>4. CASE ~open
  BY <1>1, <1>2, <1>4 DEF Pad
<1> QED
  BY <1>3, <1>4

\* The pad's packet is well made.
LEMMA PadTyped ==
    ASSUME KernelTyped, NEW pads \in SUBSET PadKeys, Pad(pads)
    PROVE  KernelTyped'
<1>1. /\ type \in IntuosTypes /\ pads \subseteq ExpressKeys
      /\ UNCHANGED <<product, wac, open>> /\ hand' = [hand EXCEPT !.pads = pads]
  BY PadDoes
<1>2. hand' \in [tool: [Slots -> Tools \cup {NoTool}],
                 pressed: [Slots -> SUBSET SwitchesOf[product]], pads: SUBSET PadKeys]
  BY <1>1 DEF KernelTyped, HandTyped
<1>3. WacTyped' /\ open' \in BOOLEAN
  BY <1>1 DEF KernelTyped, WacTyped
<1>4. SentWell
  <2>1. CASE Ignore
    BY <2>1, IgnoreTyped
  <2>2. CASE Send(Report(PadOn(pads), PadOff(pads), PadMisc(pads), FALSE, PadSerial, FALSE),
                  core.origin)
    <3> DEFINE on == PadOn(pads)
               off == PadOff(pads)
               misc == PadMisc(pads)
    <3>1. on \subseteq Spoken \cup {NoKey}
      BY <1>1, ToolKeyList DEF PadOn, Spoken
    <3>2. misc \in Nat \cup {NoMisc} /\ PadSerial \in SerialsHere /\ core.origin \in BOOLEAN
      BY <1>1 DEF PadMisc, PAD_DEVICE_ID, SerialsHere, KernelTyped, CoreState
    <3>3. FALSE \in BOOLEAN /\ Send(Report(on, off, misc, FALSE, PadSerial, FALSE), core.origin)
      BY <2>2
    <3> HIDE DEF on, off, misc
    <3> QED
      BY <3>1, <3>2, <3>3, SentTyped
  <2> QED
    BY <2>1, <2>2, PadDoes
<1> QED
  BY <1>1, <1>2, <1>3, <1>4, StepTyped

\* So is that of a DTU-1031's pad.
LEMMA DtusPadTyped ==
    ASSUME KernelTyped, NEW pads \in SUBSET PadKeys, DtusPad(pads)
    PROVE  KernelTyped'
<1>1. /\ type = "DTUS" /\ hand' = [hand EXCEPT !.pads = pads] /\ UNCHANGED <<product, wac, open>>
  BY DEF DtusPad
<1>2. hand' \in [tool: [Slots -> Tools \cup {NoTool}],
                 pressed: [Slots -> SUBSET SwitchesOf[product]], pads: SUBSET PadKeys]
  BY <1>1 DEF KernelTyped, HandTyped
<1>3. WacTyped' /\ open' \in BOOLEAN
  BY <1>1 DEF KernelTyped, WacTyped
<1>4. SentWell
  <2>1. CASE ~open
    BY <2>1, IgnoreTyped DEF DtusPad
  <2>2. CASE open
    <3> DEFINE off == KeysTo(3) \ pads
               misc == IF pads # {} THEN PAD_DEVICE_ID ELSE 0
               origin == core.origin /\ ~FALSE
    <3>1. SendNear(Report(pads, off, misc, FALSE, DtusPadSerial, FALSE))
      BY <2>2 DEF DtusPad
    <3>2. Send(Report(pads, off, misc, FALSE, DtusPadSerial, FALSE), origin)
      BY <3>1, SendNearDoes
    <3>3. pads \subseteq Spoken \cup {NoKey}
      BY ReportsAssumption DEF Spoken
    <3>4. misc \in Nat \cup {NoMisc} /\ DtusPadSerial \in SerialsHere /\ origin \in BOOLEAN
      BY <1>1 DEF PAD_DEVICE_ID, SerialsHere, IntuosTypes, Intuos3, Intuos4, Intuos5, Displays
    <3> HIDE DEF off, misc, origin
    <3> QED
      BY <3>2, <3>3, <3>4, SentTyped
  <2> QED
    BY <2>1, <2>2
<1> QED
  BY <1>1, <1>2, <1>3, <1>4, StepTyped

-----------------------------------------------------------------------------
(* Types: the displays.                                                    *)

\* What the handler of a display leaves
DisplayWell == WacTyped' /\ SentWell

DisplayKeys == {"BTN_TOOL_PEN", "BTN_TOOL_RUBBER"}

\* A display's tool is a pen or an eraser.
LEMMA DisplayKeyIs ==
    /\ DisplayKeys \subseteq ToolKeys
    /\ \A id : DisplayKey(id) \in DisplayKeys
  BY ToolKeyList DEF DisplayKeys, DisplayKey

\* A display's report, near or away, keeps the types.
LEMMA DisplayReportTyped ==
    ASSUME KernelTyped, NEW key \in ToolKeys \cup {NoKey}, NEW near \in BOOLEAN,
           NEW pressed \in SUBSET Written, NEW codes, NEW misc \in Nat \cup {NoMisc},
           NEW serial \in SerialsHere, NEW axes \in BOOLEAN,
           \/ SendNear(DisplayReport(key, near, pressed, codes, misc, serial, axes))
           \/ SendAway(DisplayReport(key, near, pressed, codes, misc, serial, axes))
    PROVE  SentWell
<1> DEFINE on == pressed \cup (IF near THEN {key} ELSE {})
           off == (codes \ pressed) \cup (IF near THEN {} ELSE {key})
           away == ~core.origin
           still == core.origin /\ ~axes
<1>1. on \subseteq Spoken \cup {NoKey}
  BY DEF Spoken
<1>2. DisplayReport(key, near, pressed, codes, misc, serial, axes)
        = Report(on, off, misc, FALSE, serial, axes)
  BY DEF DisplayReport
<1>3. away \in BOOLEAN /\ still \in BOOLEAN /\ FALSE \in BOOLEAN /\ TRUE \in BOOLEAN
  OBVIOUS
<1>4. \/ Send(Report(on, off, misc, FALSE, serial, axes), still)
      \/ Send(Report(on, off, misc, FALSE, serial, away), TRUE)
  <2> HIDE DEF on, off
  <2> QED
    BY <1>2, SendNearDoes, SendAwayDoes
<1> HIDE DEF on, off, away, still
<1>5. CASE Send(Report(on, off, misc, FALSE, serial, axes), still)
  BY <1>1, <1>3, <1>5, SentTyped
<1>6. CASE Send(Report(on, off, misc, FALSE, serial, away), TRUE)
  BY <1>1, <1>3, <1>6, SentTyped
<1> QED
  BY <1>4, <1>5, <1>6

\* What a display's handler saves is typed.
LEMMA DisplayWacTyped ==
    ASSUME KernelTyped, NEW key \in ToolKeys \cup {NoKey}, NEW id \in Nat,
           wac' = DisplayWac(key, id)
    PROVE  WacTyped'
  BY DEF KernelTyped, WacTyped, DisplayWac, Slots

\* What a display's tool and its report are
DisplayInput(t, pressed) ==
    /\ KernelTyped /\ type \in PenDisplays /\ type \notin IntuosTypes
    /\ t.id \in {STYLUS_DEVICE_ID, ERASER_DEVICE_ID}
    /\ pressed \in SUBSET Written

\* What is known when a display's tool moves
LEMMA DisplayFacts ==
    ASSUME NEW t, NEW pressed, DisplayInput(t, pressed)
    PROVE  /\ KernelTyped /\ t.id \in Nat /\ DisplayKey(t.id) \in ToolKeys
           /\ \A s \in Slots : wac.tool[s] \in ToolKeys \cup {NoKey}
           /\ 0 \in Slots /\ 1 \in Slots
           /\ {NoSerial, 1} \subseteq SerialsHere
           /\ pressed \in SUBSET Written
<1>1. t.id \in Nat
  BY DEF DisplayInput, STYLUS_DEVICE_ID, ERASER_DEVICE_ID
<1>2. DisplayKey(t.id) \in ToolKeys
  BY DisplayKeyIs
<1> QED
  BY <1>1, <1>2 DEF DisplayInput, KernelTyped, WacTyped, Slots, SerialsHere

\* A packet of a DTU or DTU-1031
LEMMA DtuTyped ==
    ASSUME NEW t, NEW near \in BOOLEAN, NEW pressed, NEW axes \in BOOLEAN,
           DisplayInput(t, pressed), DtuPacket(t, near, pressed, axes)
    PROVE  DisplayWell
<1> DEFINE key == IF near THEN DisplayKey(t.id) ELSE wac.tool[0]
           id == IF near THEN t.id ELSE 0
           serial == IF type = "DTUS" THEN 1 ELSE NoSerial
<1>1. key \in ToolKeys \cup {NoKey} /\ id \in Nat /\ serial \in SerialsHere /\ KernelTyped
      /\ pressed \in SUBSET Written /\ id \in Nat \cup {NoMisc}
  BY DisplayFacts
<1>2. /\ wac' = DisplayWac(key, id)
      /\ \/ SendNear(DisplayReport(key, near, pressed, PenSwitches, id, serial, axes))
         \/ SendAway(DisplayReport(key, near, pressed, PenSwitches, id, serial, axes))
  BY DEF DtuPacket
<1> HIDE DEF key, id, serial
<1>3. WacTyped'
  BY <1>1, <1>2, DisplayWacTyped
<1>4. SentWell
  BY <1>1, <1>2, DisplayReportTyped
<1> QED
  BY <1>3, <1>4 DEF DisplayWell

\* A packet of a Cintiq Partner
LEMMA PtuTyped ==
    ASSUME NEW t, NEW near \in BOOLEAN, NEW pressed, NEW axes \in BOOLEAN,
           DisplayInput(t, pressed), PtuPacket(t, near, pressed, axes)
    PROVE  DisplayWell
<1> DEFINE key == DisplayKey(t.id)
           old == wac.tool[0]
           id == t.id
<1>1. key \in ToolKeys \cup {NoKey} /\ id \in Nat /\ NoSerial \in SerialsHere /\ KernelTyped
      /\ old \in ToolKeys \cup {NoKey}
      /\ pressed \in SUBSET Written /\ id \in Nat \cup {NoMisc}
  BY DisplayFacts
<1>2. /\ wac' = DisplayWac(old, id)
      /\ SendNear(DisplayReport(key, near, pressed, PenSwitches, id, NoSerial, axes))
  BY DEF PtuPacket
<1> HIDE DEF key, id, old
<1>3. WacTyped'
  BY <1>1, <1>2, DisplayWacTyped
<1>4. SentWell
  BY <1>1, <1>2, DisplayReportTyped
<1> QED
  BY <1>3, <1>4 DEF DisplayWell

\* A packet of a PenPartner
LEMMA PenpartnerTyped ==
    ASSUME NEW t, NEW near \in BOOLEAN, NEW pressed, NEW axes \in BOOLEAN,
           DisplayInput(t, pressed), PenpartnerPacket(t, near, pressed, axes)
    PROVE  DisplayWell
<1> DEFINE key == IF near THEN DisplayKey(t.id) ELSE wac.tool[0]
           id == IF near THEN t.id ELSE 0
           codes == IF near THEN {"ABS_PRESSURE", "BTN_STYLUS"} ELSE {"ABS_PRESSURE"}
           on == pressed \cap codes
<1>1. key \in ToolKeys \cup {NoKey} /\ id \in Nat /\ NoSerial \in SerialsHere /\ KernelTyped
      /\ on \in SUBSET Written /\ id \in Nat \cup {NoMisc}
  BY DisplayFacts
<1>2. /\ wac' = IF near THEN DisplayWac(key, id) ELSE wac
      /\ SendNear(DisplayReport(key, near, on, codes, id, NoSerial, axes))
  BY DEF PenpartnerPacket
<1> HIDE DEF key, id, codes, on
<1>3. WacTyped'
  <2>1. CASE near
    BY <1>1, <1>2, <2>1, DisplayWacTyped
  <2>2. CASE ~near
    BY <1>1, <1>2, <2>2 DEF KernelTyped, WacTyped
  <2> QED
    BY <2>1, <2>2
<1>4. SentWell
  BY <1>1, <1>2, DisplayReportTyped
<1> QED
  BY <1>3, <1>4 DEF DisplayWell

\* A packet of a PL
LEMMA PlTyped ==
    ASSUME NEW t, NEW near \in BOOLEAN, NEW pressed, NEW axes \in BOOLEAN,
           DisplayInput(t, pressed), PlPacket(t, near, pressed, axes)
    PROVE  DisplayWell
<1> DEFINE key == IF wac.id[0] # 0 THEN wac.tool[1] ELSE DisplayKey(t.id)
           id == IF key = "BTN_TOOL_RUBBER" THEN ERASER_DEVICE_ID ELSE STYLUS_DEVICE_ID
           on == IF key = "BTN_TOOL_PEN" THEN pressed ELSE pressed \ {"BTN_STYLUS2"}
           out == IF wac.tool[1] = "BTN_TOOL_RUBBER" THEN "BTN_TOOL_RUBBER" ELSE "BTN_TOOL_PEN"
           away == ~core.origin
           still == core.origin /\ ~FALSE
<1>1. /\ key \in ToolKeys \cup {NoKey} /\ id \in Nat /\ NoSerial \in SerialsHere /\ KernelTyped
      /\ on \in SUBSET Written /\ id \in Nat \cup {NoMisc} /\ NoMisc \in Nat \cup {NoMisc}
      /\ away \in BOOLEAN /\ still \in BOOLEAN /\ FALSE \in BOOLEAN /\ TRUE \in BOOLEAN
      /\ {} \subseteq Spoken \cup {NoKey}
  BY DisplayFacts DEF STYLUS_DEVICE_ID, ERASER_DEVICE_ID
<1>2. CASE near /\ PlReleased(t)
  <2>1. /\ wac' = [wac EXCEPT !.tool[1] = "BTN_TOOL_PEN"]
        /\ SendNear(Report({}, {"BTN_TOOL_RUBBER"}, NoMisc, FALSE, NoSerial, FALSE))
    BY <1>2 DEF PlPacket
  <2>2. WacTyped'
    BY <1>1, <2>1, ToolKeyList DEF KernelTyped, WacTyped, Slots
  <2>3. Send(Report({}, {"BTN_TOOL_RUBBER"}, NoMisc, FALSE, NoSerial, FALSE), still)
    BY <2>1, SendNearDoes
  <2> HIDE DEF still, away
  <2>4. SentWell
    BY <1>1, <2>3, SentTyped
  <2> QED
    BY <2>2, <2>4 DEF DisplayWell
<1>3. CASE near /\ ~PlReleased(t)
  <2>1. /\ wac' = [wac EXCEPT !.tool[1] = key, !.id[0] = id]
        /\ SendNear(DisplayReport(key, TRUE, on, PenSwitches, id, NoSerial, axes))
    BY <1>3 DEF PlPacket
  <2> HIDE DEF key, id, on, still, away
  <2>2. WacTyped'
    BY <1>1, <2>1 DEF KernelTyped, WacTyped, Slots
  <2>3. SentWell
    BY <1>1, <2>1, DisplayReportTyped
  <2> QED
    BY <2>2, <2>3 DEF DisplayWell
<1>4. CASE ~near
  <2>1. /\ wac' = [wac EXCEPT !.tool[1] = wac.tool[1], !.id[0] = 0]
        /\ SendAway(Report({}, {out}, NoMisc, FALSE, NoSerial, FALSE))
    BY <1>4 DEF PlPacket
  <2>2. WacTyped'
    BY <1>1, <2>1 DEF KernelTyped, WacTyped, Slots
  <2>3. Send(Report({}, {out}, NoMisc, FALSE, NoSerial, away), TRUE)
    BY <2>1, SendAwayDoes
  <2> HIDE DEF out, still, away
  <2>4. SentWell
    BY <1>1, <2>3, SentTyped
  <2> QED
    BY <2>2, <2>4 DEF DisplayWell
<1> QED
  BY <1>2, <1>3, <1>4

\* A packet of any display's tool
LEMMA DisplayToolTyped ==
    ASSUME KernelTyped, NEW t \in ToolsOf[product], NEW near \in BOOLEAN,
           NEW pressed \in SUBSET SwitchesOf[product], NEW axes \in BOOLEAN,
           DisplayTool(t, near, pressed, axes)
    PROVE  KernelTyped'
<1>1. /\ type \notin IntuosTypes /\ t.id \in {STYLUS_DEVICE_ID, ERASER_DEVICE_ID}
      /\ pressed \subseteq PenSwitches /\ UNCHANGED <<product, open>>
      /\ hand' = [hand EXCEPT !.tool[0] = IF near THEN t ELSE NoTool, !.pressed[0] = pressed]
      /\ IF open THEN DisplayPacket(t, near, pressed, axes) ELSE Ignore /\ UNCHANGED wac
  BY DEF DisplayTool
<1>2. product \in Products /\ t \in Tools /\ open' \in BOOLEAN
  BY <1>1, ToolTyped DEF KernelTyped
<1>3. hand' \in [tool: [Slots -> Tools \cup {NoTool}],
                 pressed: [Slots -> SUBSET SwitchesOf[product]], pads: SUBSET PadKeys]
  BY <1>1, <1>2 DEF KernelTyped, HandTyped, Slots
<1>4. DisplayInput(t, pressed)
  BY <1>1, <1>2, TypeKnown DEF DisplayInput, Written
<1>5. DisplayWell
  <2>1. CASE ~open
    BY <1>1, <2>1, IgnoreTyped DEF DisplayWell, KernelTyped, WacTyped
  <2>2. CASE open
    <3>1. DisplayPacket(t, near, pressed, axes)
      BY <1>1, <2>2
    <3>2. CASE type \in {"DTU", "DTUS"}
      <4>1. DtuPacket(t, near, pressed, axes)
        BY <3>1, <3>2 DEF DisplayPacket
      <4> QED
        BY <1>4, <4>1, DtuTyped
    <3>3. CASE type = "PTU"
      <4>1. PtuPacket(t, near, pressed, axes)
        BY <3>1, <3>3 DEF DisplayPacket
      <4> QED
        BY <1>4, <4>1, PtuTyped
    <3>4. CASE type = "PENPARTNER"
      <4>1. PenpartnerPacket(t, near, pressed, axes)
        BY <3>1, <3>4 DEF DisplayPacket
      <4> QED
        BY <1>4, <4>1, PenpartnerTyped
    <3>5. CASE type = "PL"
      <4>1. PlPacket(t, near, pressed, axes)
        BY <3>1, <3>5 DEF DisplayPacket
      <4> QED
        BY <1>4, <4>1, PlTyped
    <3> QED
      BY <1>4, <3>2, <3>3, <3>4, <3>5 DEF DisplayInput, PenDisplays
  <2> QED
    BY <2>1, <2>2
<1> QED
  BY <1>1, <1>2, <1>3, <1>5, StepTyped DEF DisplayWell

-----------------------------------------------------------------------------
(* Types: the reader.                                                      *)

ChanState == [work: WorkState, valid: WorkState, nSamples: 0 .. 2]

ReaderTyped ==
    /\ channel \in [Channels -> ChanState]
    /\ wcmLastToolSerial \in Int
    /\ type \notin IntuosTypes => wcmLastToolSerial \in {0, 1, DtusPadSerial}

TypedInv == KernelTyped /\ ReaderTyped

\* A channel that is opened is in proximity.
LEMMA OpenedTyped ==
    ASSUME NEW chan \in ChanState
    PROVE  /\ Opened(chan) \in ChanState
           /\ Opened(chan).work.proximity = TRUE
           /\ chan.work.proximity => Opened(chan) = chan
<1>1. CASE chan.work.proximity
  BY <1>1 DEF Opened, ChanState, WorkState
<1>2. CASE ~chan.work.proximity
  <2> DEFINE w == [type |-> NoType, id |-> 0, proximity |-> TRUE, serial |-> 0,
                   buttons |-> {}, axes |-> {}]
  <2>1. Opened(chan) = [work |-> w, valid |-> Blank, nSamples |-> 0]
    BY <1>2 DEF Opened, BlankChannel, Blank
  <2>2. w \in WorkState /\ Blank \in WorkState
    BY DEF WorkState, Blank
  <2> QED
    BY <1>2, <2>1, <2>2 DEF ChanState
<1> QED
  BY <1>1, <1>2

\* Switches change the buttons and the axes only.
LEMMA SwitchesTyped ==
    ASSUME NEW w \in WorkState, NEW f, WellMade(f)
    PROVE  ParseSwitches(w, f) = [w EXCEPT !.buttons = ParseSwitches(w, f).buttons,
                                           !.axes = ParseSwitches(w, f).axes]
           /\ ParseSwitches(w, f) \in WorkState
<1> DEFINE buttons == (w.buttons \cup ButtonsOf(f.on)) \ ButtonsOf(f.off)
           axes == (w.axes \cup (f.on \cap Axes)) \ f.off
<1>1. ButtonsOf(f.on) \subseteq 0 .. 29
  BY ButtonIs DEF ButtonsOf, WellMade
<1>2. buttons \in SUBSET (0 .. 29) /\ axes \in SUBSET Axes
  BY <1>1 DEF WorkState
<1>3. ParseSwitches(w, f) = [w EXCEPT !.buttons = buttons, !.axes = axes]
  BY DEF ParseSwitches
<1> HIDE DEF buttons, axes
<1>4. ParseSwitches(w, f).buttons = buttons /\ ParseSwitches(w, f).axes = axes
  BY <1>3 DEF WorkState
<1>5. ParseSwitches(w, f) \in WorkState
  BY <1>2, <1>3 DEF WorkState
<1> QED
  BY <1>3, <1>4, <1>5

\* A tool's key leaves a working state.
LEMMA ToolKeyTyped ==
    ASSUME NEW w \in WorkState, NEW f
    PROVE  ParseToolKey(w, f) \in WorkState
<1> DEFINE keys == (f.on \cup f.off) \cap ToolKeys
           key == CHOOSE k \in keys : TRUE
           t == KeyType[key]
           near == key \in f.on
           id == IF ProtocolLevel[product] = 4 \/ t = "PAD" THEN ProtocolId(t) ELSE w.id
<1>1. CASE keys = {}
  BY <1>1 DEF ParseToolKey
<1>2. CASE keys # {}
  <2>1. key \in ToolKeys
    BY <1>2
  <2>2. t \in Types /\ near \in BOOLEAN
    BY <2>1, KeyHasType
  <2>3. id \in Nat
    BY DEF ProtocolId, WorkState, STYLUS_DEVICE_ID, ERASER_DEVICE_ID, CURSOR_DEVICE_ID, PAD_DEVICE_ID
  <2>4. ParseToolKey(w, f) = [w EXCEPT !.type = t, !.proximity = near, !.id = id]
    BY <1>2 DEF ParseToolKey
  <2> HIDE DEF t, near, id
  <2> QED
    BY <2>2, <2>3, <2>4 DEF WorkState
<1> QED
  BY <1>1, <1>2

\* A tool's id leaves a working state.
LEMMA MiscTyped ==
    ASSUME NEW w \in WorkState, NEW f, f.misc \in Nat \cup {NoMisc}
    PROVE  ParseMisc(w, f) \in WorkState
<1>1. FindDeviceType(f.misc) \in Types
  BY IdHasType
<1> QED
  BY <1>1 DEF ParseMisc, WorkState, NoMisc

\* Of the keys held there is a first.
LEMMA FirstHeld ==
    ASSUME NEW held \in SUBSET (1 .. 8), held # {}
    PROVE  \E i \in held : \A j \in held : i <= j
<1> DEFINE i == IF 1 \in held THEN 1 ELSE IF 2 \in held THEN 2 ELSE IF 3 \in held THEN 3
                ELSE IF 4 \in held THEN 4 ELSE IF 5 \in held THEN 5 ELSE IF 6 \in held THEN 6
                ELSE IF 7 \in held THEN 7 ELSE 8
<1>1. i \in held
  <2>1. PICK k \in held : TRUE
    OBVIOUS
  <2>2. k \in {1, 2, 3, 4, 5, 6, 7, 8}
    OBVIOUS
  <2> QED
    BY <2>1, <2>2
<1>2. \A j \in held : i <= j
  OBVIOUS
<1> HIDE DEF i
<1> QED
  BY <1>1, <1>2

\* So does a type taken from the keys that are held.
LEMMA RetypedTyped ==
    ASSUME NEW w \in WorkState, core \in CoreState
    PROVE  Retyped(w) \in WorkState
<1> DEFINE held == {i \in DOMAIN TypeToKey : TypeToKey[i][2] \in core.on}
           first == CHOOSE i \in held : \A j \in held : i <= j
           t == IF held = {} THEN NoType ELSE TypeToKey[first][1]
           id == IF core.misc # 0 THEN core.misc ELSE w.id
           near == w.proximity \/ core.misc # 0
<1>1. CASE w.type # NoType
  BY <1>1 DEF Retyped
<1>2. CASE w.type = NoType
  <2>1. t \in Types \cup {NoType}
    <3>1. CASE held # {}
      <4>1. held \in SUBSET (1 .. 8)
        BY DEF TypeToKey
      <4> HIDE DEF held
      <4>2. first \in held
        BY <3>1, <4>1, FirstHeld
      <4>3. \A j \in 1 .. 8 : TypeToKey[j][1] \in Types
        BY DEF TypeToKey, Types
      <4>4. first \in 1 .. 8
        BY <4>1, <4>2
      <4> HIDE DEF first
      <4>5. TypeToKey[first][1] \in Types
        BY <4>3, <4>4
      <4> QED
        BY <3>1, <4>5
    <3> QED
      BY <3>1
  <2>2. id \in Nat /\ near \in BOOLEAN
    BY DEF CoreState, WorkState
  <2>3. Retyped(w) = [w EXCEPT !.type = t, !.id = id, !.proximity = near]
    BY <1>2 DEF Retyped
  <2> HIDE DEF t, id, near
  <2> QED
    BY <2>1, <2>2, <2>3 DEF WorkState
<1> QED
  BY <1>1, <1>2

\* So does a whole frame.
LEMMA ParsedTyped ==
    ASSUME NEW w \in WorkState, NEW f, WellMade(f), core \in CoreState, NEW serial \in Int
    PROVE  Parsed(w, f, serial) \in WorkState
<1> DEFINE u == [w EXCEPT !.serial = serial]
           v == ParseSwitches(u, f)
<1>1. u \in WorkState /\ f.misc \in Nat \cup {NoMisc}
  BY DEF WorkState, WellMade, Frame
<1>2. v \in WorkState
  BY <1>1, SwitchesTyped
<1> HIDE DEF u
<1>3. Parsed(w, f, serial) = Retyped(IF f.miscFirst THEN ParseToolKey(ParseMisc(v, f), f)
                                     ELSE ParseMisc(ParseToolKey(v, f), f))
  BY DEF Parsed, u
<1> HIDE DEF v
<1>4. ParseToolKey(ParseMisc(v, f), f) \in WorkState
  BY <1>1, <1>2, MiscTyped, ToolKeyTyped
<1>5. ParseMisc(ParseToolKey(v, f), f) \in WorkState
  BY <1>1, <1>2, MiscTyped, ToolKeyTyped
<1> QED
  BY <1>3, <1>4, <1>5, RetypedTyped

\* What comes through leaves a channel with the working state.
LEMMA AfterTyped ==
    ASSUME NEW chan \in ChanState, NEW after \in After(chan)
    PROVE  after \in ChanState /\ after.work = chan.work
<1>1. CASE Counted(chan)
  <2>1. after = [chan EXCEPT !.nSamples = chan.nSamples + 1] /\ chan.nSamples < 2
    BY <1>1 DEF After, Counted
  <2> QED
    BY <2>1 DEF ChanState
<1>2. CASE ~Counted(chan)
  <2> DEFINE n == IF chan.work.proximity THEN chan.nSamples ELSE 0
  <2>1. \/ after = [chan EXCEPT !.valid = chan.work, !.nSamples = n]
        \/ after = chan
    BY <1>2 DEF After
  <2>2. n \in 0 .. 2
    BY DEF ChanState
  <2> HIDE DEF n
  <2> QED
    BY <2>1, <2>2 DEF ChanState
<1> QED
  BY <1>1, <1>2

\* Which tablets have which protocol
LEMMA Protocol ==
    ASSUME product \in Products
    PROVE  /\ type = "INTUOS" => ProtocolLevel[product] = 5 /\ DualInput[product]
           /\ type \in IntuosTypes \ {"INTUOS"} => ProtocolLevel[product] = 5 /\ ~DualInput[product]
           /\ type \notin IntuosTypes => ProtocolLevel[product] = 4
  BY TypeKnown, IsDual, IsSingle, IsDisplay

\* The lowest of some channels is one of them.
LEMMA FirstIs ==
    ASSUME NEW channels \in SUBSET Channels, channels # {}
    PROVE  First(channels) \in channels
<1>1. Channels = {0, 1, 2}
  BY DEF Channels, MAX_CHANNELS
<1>2. \E ch \in channels : \A other \in channels : ch <= other
  <2>1. CASE 0 \in channels
    BY <1>1, <2>1
  <2>2. CASE 0 \notin channels /\ 1 \in channels
    BY <1>1, <2>2
  <2>3. CASE 0 \notin channels /\ 1 \notin channels
    <3>1. channels = {2}
      BY <1>1, <2>3
    <3> QED
      BY <3>1
  <2> QED
    BY <2>1, <2>2, <2>3
<1> QED
  BY <1>2 DEF First

\* The channel of a frame of a display
LEMMA ChooseDisplay ==
    ASSUME product \in Products, type \notin IntuosTypes, NEW serial \in {0, 1, DtusPadSerial}
    PROVE  /\ serial = DtusPadSerial => ChooseChannel(serial) = 2
           /\ serial # DtusPadSerial => ChooseChannel(serial) = 0
<1>1. ProtocolLevel[product] = 4
  BY Protocol
<1> QED
  BY <1>1 DEF ChooseChannel, MAX_CHANNELS, DtusPadSerial

\* The channel of a frame of a tablet that follows one tool
LEMMA ChooseSingle ==
    ASSUME product \in Products, type \in IntuosTypes \ {"INTUOS"}, NEW serial \in Nat \cup {PadSerial}
    PROVE  /\ serial = PadSerial => ChooseChannel(serial) = 1
           /\ serial = 0 => ChooseChannel(serial) = NoChannel
           /\ serial \notin {0, PadSerial} =>
                ChooseChannel(serial) = IF 0 \in Holding(serial) \cup Free THEN 0 ELSE NoChannel
<1>1. ProtocolLevel[product] = 5 /\ ~DualInput[product]
  BY Protocol
<1> QED
  BY <1>1 DEF ChooseChannel, PadSerial

\* The channel of a frame of a tablet that follows two
LEMMA ChooseDual ==
    ASSUME product \in Products, type = "INTUOS", NEW serial \in Nat \cup {PadSerial}, serial # 0
    PROVE  ChooseChannel(serial) = IF Holding(serial) # {} THEN First(Holding(serial))
                                   ELSE First(Free)
<1>1. ProtocolLevel[product] = 5 /\ DualInput[product]
  BY Protocol
<1> QED
  BY <1>1 DEF ChooseChannel

\* The first frame of the queue
LEMMA HeadMade ==
    ASSUME KernelTyped, Take
    PROVE  /\ WellMade(Head(queue)) /\ queue' \in Seq(Frame)
           /\ \A i \in 1 .. Len(queue') : WellMade(queue'[i])
<1>1. queue \in Seq(Frame) /\ queue # <<>> /\ queue' = Tail(queue)
      /\ \A i \in 1 .. Len(queue) : WellMade(queue[i])
  BY DEF KernelTyped, QueueTyped, Take
<1>2. Head(queue) = queue[1] /\ 1 \in 1 .. Len(queue)
  BY <1>1
<1>3. ASSUME NEW i \in 1 .. Len(queue')
      PROVE  WellMade(queue'[i])
  <2>1. queue'[i] = queue[i + 1] /\ i + 1 \in 1 .. Len(queue)
    BY <1>1
  <2> QED
    BY <1>1, <2>1
<1> QED
  BY <1>1, <1>2, <1>3

\* Its serial number, or that of the frame before
LEMMA SerialTyped ==
    ASSUME TypedInv, NEW f, WellMade(f)
    PROVE  /\ SerialOf(f) \in Int
           /\ type \notin IntuosTypes => SerialOf(f) \in {0, 1, DtusPadSerial}
           /\ type \in IntuosTypes => SerialOf(f) = f.serial /\ SerialOf(f) \in Nat \cup {PadSerial}
<1>1. f.serial \in SerialsHere
  BY DEF WellMade
<1>2. CASE type \in IntuosTypes
  BY <1>1, <1>2 DEF SerialOf, SerialsHere, NoSerial, PadSerial
<1>3. CASE type \notin IntuosTypes
  BY <1>1, <1>3 DEF SerialOf, SerialsHere, NoSerial, DtusPadSerial, TypedInv, ReaderTyped
<1> QED
  BY <1>2, <1>3

\* A channel that is chosen is one of the three.
LEMMA ChosenTyped ==
    ASSUME TypedInv, NEW f, WellMade(f), NEW ch, ch = ChooseChannel(SerialOf(f)), ch # NoChannel
    PROVE  ch \in Channels
<1> DEFINE serial == SerialOf(f)
<1>1. product \in Products /\ 0 \in Channels /\ 1 \in Channels /\ 2 \in Channels
  BY DEF TypedInv, KernelTyped, Channels, MAX_CHANNELS
<1>2. /\ type \notin IntuosTypes => serial \in {0, 1, DtusPadSerial}
      /\ type \in IntuosTypes => serial \in Nat \cup {PadSerial}
  BY SerialTyped
<1> HIDE DEF serial
<1>3. ch = ChooseChannel(serial)
  BY DEF serial
<1>4. CASE type \notin IntuosTypes
  BY <1>1, <1>2, <1>3, <1>4, ChooseDisplay
<1>5. CASE type \in IntuosTypes \ {"INTUOS"}
  BY <1>1, <1>2, <1>3, <1>5, ChooseSingle
<1>6. CASE type = "INTUOS"
  <2>1. serial # 0
    <3>1. ProtocolLevel[product] = 5
      BY <1>1, <1>6, Protocol
    <3> QED
      BY <1>3, <3>1 DEF ChooseChannel
  <2>2. type \in IntuosTypes
    BY <1>6 DEF IntuosTypes
  <2>3. ch = IF Holding(serial) # {} THEN First(Holding(serial)) ELSE First(Free)
    BY <1>1, <1>2, <1>3, <1>6, <2>1, <2>2, ChooseDual
  <2>4. Holding(serial) \in SUBSET Channels /\ Free \in SUBSET Channels
    BY DEF Holding, Free
  <2>5. Holding(serial) = {} => Free # {}
    BY <2>3 DEF First
  <2> QED
    BY <2>3, <2>4, <2>5, FirstIs
<1> QED
  BY <1>4, <1>5, <1>6

\* What a frame of a channel leaves
LEMMA ReadFrameDoes ==
    ASSUME TypedInv, ReadFrame, NEW f, f = Head(queue), NEW serial, serial = SerialOf(f),
           NEW ch, ch = ChooseChannel(serial)
    PROVE  /\ ch \in Channels /\ UNCHANGED <<product, hand, wac, core, open>>
           /\ Take /\ ~EmptyFrame(f) /\ WellMade(f)
           /\ \E after \in ChanState :
                /\ channel' = [channel EXCEPT ![ch] = after]
                /\ after.work = Parsed(Opened(channel[ch]).work, f, serial)
           /\ wcmLastToolSerial' \in {serial, 0}
<1> DEFINE opened == Opened(channel[ch])
           n == Parsed(opened.work, f, serial)
           chan == [opened EXCEPT !.work = n]
<1>1. Take /\ ~EmptyFrame(f) /\ ch # NoChannel /\ UNCHANGED <<product, hand, wac, core, open>>
  BY DEF ReadFrame
<1>2. KernelTyped /\ core \in CoreState /\ channel \in [Channels -> ChanState]
  BY DEF TypedInv, ReaderTyped, KernelTyped
<1>3. WellMade(f)
  BY <1>1, <1>2, HeadMade
<1>4. ch \in Channels
  BY <1>1, <1>3, ChosenTyped
<1>5. serial \in Int
  BY <1>3, SerialTyped
<1>6. opened \in ChanState /\ opened.work \in WorkState
  BY <1>2, <1>4, OpenedTyped DEF ChanState
<1>7. n \in WorkState
  BY <1>2, <1>3, <1>5, <1>6, ParsedTyped
<1>8. /\ \E after \in (IF NoEraser(chan.work) THEN {chan} ELSE After(chan)) :
           channel' = [channel EXCEPT ![ch] = after]
      /\ wcmLastToolSerial' = IF chan.work.proximity \/ NoEraser(chan.work) THEN serial ELSE 0
  BY DEF ReadFrame
<1>9. chan \in ChanState /\ chan.work = n
  BY <1>6, <1>7 DEF ChanState
<1> HIDE DEF chan, n
<1>10. PICK after \in (IF NoEraser(chan.work) THEN {chan} ELSE After(chan)) :
           channel' = [channel EXCEPT ![ch] = after]
  BY <1>8
<1>11. after \in ChanState /\ after.work = chan.work
  BY <1>9, <1>10, AfterTyped
<1>12. after.work = Parsed(Opened(channel[ch]).work, f, serial)
  BY <1>9, <1>11 DEF n
<1>13. wcmLastToolSerial' \in {serial, 0}
  BY <1>8
<1> QED
  BY <1>1, <1>3, <1>4, <1>10, <1>11, <1>12, <1>13

\* What a frame without a channel leaves
LEMMA ReadLostDoes ==
    ASSUME TypedInv, ReadLost
    PROVE  /\ Take /\ UNCHANGED <<product, hand, wac, core, open>>
           /\ ~EmptyFrame(Head(queue)) /\ ChooseChannel(SerialOf(Head(queue))) = NoChannel
           /\ wcmLastToolSerial' = SerialOf(Head(queue))
           /\ channel' \in [Channels -> ChanState]
           /\ \A ch \in Channels :
                IF ch \in Forced THEN channel'[ch].work = [channel[ch].work EXCEPT !.proximity = FALSE]
                ELSE channel'[ch] = channel[ch]
<1>1. /\ Take /\ UNCHANGED <<product, hand, wac, core, open>>
      /\ ~EmptyFrame(Head(queue)) /\ ChooseChannel(SerialOf(Head(queue))) = NoChannel
      /\ wcmLastToolSerial' = SerialOf(Head(queue))
  BY DEF ReadLost
<1>2. channel \in [Channels -> ChanState]
  BY DEF TypedInv, ReaderTyped
<1>3. PICK after : /\ \A ch \in Forced : after[ch] \in After([channel[ch] EXCEPT !.work.proximity = FALSE])
                   /\ channel' = [ch \in Channels |-> IF ch \in Forced THEN after[ch] ELSE channel[ch]]
  BY DEF ReadLost
<1>4. ASSUME NEW ch \in Forced
      PROVE  /\ after[ch] \in ChanState
             /\ after[ch].work = [channel[ch].work EXCEPT !.proximity = FALSE]
  <2> DEFINE w == [channel[ch].work EXCEPT !.proximity = FALSE]
             chan == [channel[ch] EXCEPT !.work = w]
  <2>1. channel[ch] \in ChanState /\ channel[ch].work \in WorkState
    BY <1>2 DEF Forced, ChanState
  <2>2. w \in WorkState
    BY <2>1 DEF WorkState
  <2>3. chan \in ChanState /\ chan.work = w
    BY <2>1, <2>2 DEF ChanState
  <2>4. [channel[ch] EXCEPT !.work.proximity = FALSE] = chan
    BY <2>1 DEF ChanState, WorkState
  <2>5. after[ch] \in After(chan)
    BY <1>3, <2>4
  <2> HIDE DEF chan
  <2> QED
    BY <2>3, <2>5, AfterTyped
<1>5. channel' \in [Channels -> ChanState]
  BY <1>2, <1>3, <1>4
<1>6. ASSUME NEW ch \in Channels
      PROVE  IF ch \in Forced THEN channel'[ch].work = [channel[ch].work EXCEPT !.proximity = FALSE]
             ELSE channel'[ch] = channel[ch]
  BY <1>3, <1>4
<1> QED
  BY <1>1, <1>5, <1>6

\* Reading keeps the types.
LEMMA ReadTyped ==
    ASSUME TypedInv, Read
    PROVE  TypedInv'
<1> DEFINE f == Head(queue)
           serial == SerialOf(f)
           ch == ChooseChannel(serial)
<1>1. /\ Take /\ UNCHANGED <<product, hand, wac, core, open>>
      /\ channel' \in [Channels -> ChanState] /\ wcmLastToolSerial' \in {serial, 0}
  <2>1. CASE ReadEmpty
    BY <2>1 DEF ReadEmpty, TypedInv, ReaderTyped
  <2>2. CASE ReadLost
    BY <2>2, ReadLostDoes
  <2>3. CASE ReadFrame
    <3>1. /\ ch \in Channels /\ Take /\ UNCHANGED <<product, hand, wac, core, open>>
          /\ \E after \in ChanState : channel' = [channel EXCEPT ![ch] = after]
          /\ wcmLastToolSerial' \in {serial, 0}
      BY <2>3, ReadFrameDoes
    <3> HIDE DEF ch
    <3>2. channel' \in [Channels -> ChanState]
      BY <3>1 DEF TypedInv, ReaderTyped
    <3> QED
      BY <3>1, <3>2
  <2> QED
    BY <2>1, <2>2, <2>3 DEF Read
<1>2. WellMade(f) /\ queue' \in Seq(Frame) /\ \A i \in 1 .. Len(queue') : WellMade(queue'[i])
  BY <1>1, HeadMade DEF TypedInv
<1>3. serial \in Int /\ (type \notin IntuosTypes => serial \in {0, 1, DtusPadSerial})
  BY <1>2, SerialTyped
<1> HIDE DEF f, serial, ch
<1>4. KernelTyped'
  <2>1. KernelTyped /\ core' \in CoreState
    BY <1>1 DEF TypedInv, KernelTyped
  <2>2. SentWell
    BY <1>2, <2>1 DEF SentWell
  <2>3. WacTyped' /\ open' \in BOOLEAN
    BY <1>1 DEF TypedInv, KernelTyped, WacTyped
  <2>4. hand' \in [tool: [Slots -> Tools \cup {NoTool}],
                   pressed: [Slots -> SUBSET SwitchesOf[product]], pads: SUBSET PadKeys]
    BY <1>1 DEF TypedInv, KernelTyped, HandTyped
  <2> QED
    BY <1>1, <2>1, <2>2, <2>3, <2>4, StepTyped
<1>5. type' = type
  BY <1>1, SameTablet
<1>6. ReaderTyped'
  BY <1>1, <1>3, <1>5 DEF ReaderTyped
<1> QED
  BY <1>4, <1>6 DEF TypedInv

\* So does every report.
LEMMA HardwareTyped ==
    ASSUME TypedInv, Hardware
    PROVE  TypedInv'
<1>1. KernelTyped /\ ReportsNext /\ UNCHANGED channelVars
  BY DEF TypedInv, Hardware
<1>2. KernelTyped'
  <2>1. ASSUME NEW slot \in Slots, NEW t \in ToolsOf[product], Enter(slot, t)
        PROVE  KernelTyped'
    BY <1>1, <2>1, EnterTyped
  <2>2. ASSUME NEW slot \in Slots, Exit(slot)
        PROVE  KernelTyped'
    BY <1>1, <2>2, ExitTyped
  <2>3. ASSUME NEW slot \in Slots, RangeReport(slot)
        PROVE  KernelTyped'
    BY <1>1, <2>3, RangeTyped
  <2>4. ASSUME NEW slot \in Slots, NEW pressed \in SUBSET SwitchesOf[product], NEW axes \in BOOLEAN,
               NEW ready \in BOOLEAN, ToolPacket(slot, pressed, axes, ready)
        PROVE  KernelTyped'
    BY <1>1, <2>4, ToolPacketTyped
  <2>5. ASSUME NEW t \in ToolsOf[product], NEW near \in BOOLEAN,
               NEW pressed \in SUBSET SwitchesOf[product], NEW axes \in BOOLEAN,
               DisplayTool(t, near, pressed, axes)
        PROVE  KernelTyped'
    BY <1>1, <2>5, DisplayToolTyped
  <2>6. ASSUME NEW pads \in SUBSET PadKeys, Pad(pads) \/ DtusPad(pads)
        PROVE  KernelTyped'
    BY <1>1, <2>6, PadTyped, DtusPadTyped
  <2> QED
    BY <1>1, <2>1, <2>2, <2>3, <2>4, <2>5, <2>6 DEF ReportsNext
<1>3. UNCHANGED product
  BY <1>1 DEF ReportsNext, Enter, Exit, RangeReport, ToolPacket, DisplayTool, Pad, DtusPad
<1>4. ReaderTyped'
  <2>1. type' = type
    BY <1>3, SameTablet
  <2> QED
    BY <1>1, <2>1 DEF TypedInv, ReaderTyped, channelVars
<1> QED
  BY <1>2, <1>4 DEF TypedInv

\* The types hold at the start.
LEMMA TypedStarts ==
    ASSUME ChannelsInit
    PROVE  TypedInv
<1>1. /\ product \in Products
      /\ hand = [tool |-> [s \in Slots |-> NoTool], pressed |-> [s \in Slots |-> {}], pads |-> {}]
      /\ wac = [tool |-> [s \in Slots |-> NoKey], id |-> [s \in Slots |-> 0],
                serial |-> [s \in Slots |-> 0]]
      /\ core = [on |-> {}, misc |-> 0, origin |-> TRUE] /\ queue = <<>> /\ open = TRUE
      /\ channel = [c \in Channels |-> BlankChannel] /\ wcmLastToolSerial = 0
  BY DEF ChannelsInit, ReportsInit
<1>2. KernelTyped
  BY <1>1 DEF KernelTyped, HandTyped, WacTyped, CoreState, QueueTyped
<1>3. BlankChannel \in ChanState
  <2>1. Blank \in WorkState
    BY DEF Blank, WorkState
  <2> QED
    BY <2>1 DEF BlankChannel, ChanState
<1>4. ReaderTyped
  BY <1>1, <1>3 DEF ReaderTyped
<1> QED
  BY <1>2, <1>4 DEF TypedInv

\* Every step keeps the types.
LEMMA TypedStep ==
    ASSUME TypedInv, [ChannelsNext]_allVars
    PROVE  TypedInv'
<1>1. CASE Hardware
  BY <1>1, HardwareTyped
<1>2. CASE Read
  BY <1>2, ReadTyped
<1>3. ASSUME Close \/ Open \/ UNCHANGED allVars
      PROVE  TypedInv'
  <2>1. /\ UNCHANGED <<product, hand, wac, core, channel, wcmLastToolSerial>>
        /\ queue' = queue \/ queue' = <<>>
        /\ open' = open \/ open' \in BOOLEAN
    BY <1>3 DEF Close, Open, allVars, reportVars, channelVars
  <2>2. SentWell
    <3>1. core' \in CoreState /\ queue \in Seq(Frame) /\ \A i \in 1 .. Len(queue) : WellMade(queue[i])
      BY <2>1 DEF TypedInv, KernelTyped, QueueTyped
    <3>2. CASE queue' = queue
      BY <3>1, <3>2 DEF SentWell
    <3>3. CASE queue' = <<>>
      BY <3>1, <3>3 DEF SentWell
    <3> QED
      BY <2>1, <3>2, <3>3
  <2>3. KernelTyped'
    <3>1. WacTyped' /\ open' \in BOOLEAN
      BY <2>1 DEF TypedInv, KernelTyped, WacTyped
    <3>2. hand' \in [tool: [Slots -> Tools \cup {NoTool}],
                     pressed: [Slots -> SUBSET SwitchesOf[product]], pads: SUBSET PadKeys]
      BY <2>1 DEF TypedInv, KernelTyped, HandTyped
    <3> QED
      BY <2>1, <2>2, <3>1, <3>2, StepTyped DEF TypedInv
  <2>4. type' = type
    BY <2>1, SameTablet
  <2> QED
    BY <2>1, <2>3, <2>4 DEF TypedInv, ReaderTyped
<1> QED
  BY <1>1, <1>2, <1>3 DEF ChannelsNext

\* The kernel's records, the input core's values and the reader's channels
\* stay in their types, for any tablets and tools: every frame is for a
\* channel that exists, and every code in it is one the reader knows.
THEOREM ChannelsTyped == ChannelsSpec => []ChannelsTypeOK
<1>1. ChannelsInit => TypedInv
  BY TypedStarts
<1>2. TypedInv /\ [ChannelsNext]_allVars => TypedInv'
  BY TypedStep
<1>3. TypedInv => ChannelsTypeOK
  BY TypedReports DEF TypedInv, ReaderTyped, ChanState, ChannelsTypeOK
<1> QED
  BY <1>1, <1>2, <1>3, PTL DEF ChannelsSpec

-----------------------------------------------------------------------------
(* Frames that find a channel.                                             *)

\* What a step sends: nothing, or one frame of a serial number
SentFrame(f) == queue' = Append(queue, f)

\* A report with a tool's number is sent as a frame with that number.
LEMMA NumberedSent ==
    ASSUME KernelTyped, type \in IntuosTypes, NEW slot \in Slots, NEW on, NEW off, NEW axes \in BOOLEAN,
           Slot(slot), SendNear(ToolReport(slot, on, off, axes))
    PROVE  SentFrame(News(on \cup {wac.tool[slot]}, off, wac.id[slot], TRUE, wac.serial[slot], axes))
<1> DEFINE said == on \cup {wac.tool[slot]}
           id == wac.id[slot]
           serial == wac.serial[slot]
           origin == core.origin /\ ~axes
<1>1. Send(Report(said, off, id, TRUE, serial, axes), origin)
  BY ToolReportDoes
<1>2. serial # NoSerial
  BY DEF KernelTyped, WacTyped, NoSerial
<1> HIDE DEF said, id, serial, origin
<1>3. SentFrame(News(said, off, id, TRUE, serial, axes))
  <2>1. Sending(said, off, id, TRUE, serial, axes, origin)
    BY <1>1, SendDoes
  <2> QED
    BY <1>2, <2>1 DEF Sending, SentFrame
<1> QED
  BY <1>3 DEF said, id, serial

\* An exit report that is heard is always sent.
LEMMA ExitSent ==
    ASSUME KernelTyped, NEW slot \in Slots, Exit(slot), open, ~Blocked(slot)
    PROVE  /\ wac' = [wac EXCEPT !.id[slot] = 0]
           /\ core' = Kept({}, ResetSwitches(slot) \cup {wac.tool[slot]}, 0, TRUE)
           /\ SentFrame(News({}, ResetSwitches(slot) \cup {wac.tool[slot]}, 0, FALSE,
                             wac.serial[slot], ~core.origin))
<1> DEFINE off == ResetSwitches(slot) \cup {wac.tool[slot]}
           serial == wac.serial[slot]
           away == ~core.origin
<1>1. SendAway(ExitReport(slot)) /\ wac' = [wac EXCEPT !.id[slot] = 0]
  BY DEF Exit
<1>2. Send(Report({}, off, 0, FALSE, serial, away), TRUE)
  BY <1>1, SendAwayDoes DEF ExitReport
<1>3. serial # NoSerial
  BY DEF KernelTyped, WacTyped, NoSerial
<1> HIDE DEF off, serial, away
<1>4. core' = Kept({}, off, 0, TRUE) /\ SentFrame(News({}, off, 0, FALSE, serial, away))
  <2>1. Sending({}, off, 0, FALSE, serial, away, TRUE)
    BY <1>2, SendDoes
  <2> QED
    BY <1>3, <2>1 DEF Sending, SentFrame
<1> QED
  BY <1>1, <1>4 DEF off, serial, away

-----------------------------------------------------------------------------
(* Two tools at once: each serial number has at most one channel.          *)

Mine == {t.serial : t \in ToolsOf[product]}

DualKernel ==
    /\ \A s \in Slots : hand.tool[s] # NoTool /\ open => wac.serial[s] \in Mine
    /\ \A i \in 1 .. Len(queue) : queue[i].serial \in Mine

DualReader ==
    /\ \A ch \in Channels : channel[ch].work.proximity => channel[ch].work.serial \in Mine
    /\ \A c, d \in Channels :
         /\ channel[c].work.proximity /\ channel[d].work.proximity
         /\ channel[c].work.serial = channel[d].work.serial
         => c = d

DualInv == type = "INTUOS" => DualKernel /\ DualReader

\* The tools' serial numbers are not zero.
LEMMA MineNumbers ==
    ASSUME product \in Products
    PROVE  Mine \subseteq Nat \ {0}
  BY ReportsAssumption DEF Mine

\* A frame of one of the tools' numbers at the end of the queue
LEMMA DualSent ==
    ASSUME KernelTyped, KernelTyped', UNCHANGED product, NEW f, SentFrame(f), f.serial \in Mine,
           \A i \in 1 .. Len(queue) : queue[i].serial \in Mine
    PROVE  \A i \in 1 .. Len(queue') : queue'[i].serial \in Mine'
<1>1. queue \in Seq(Frame) /\ queue' \in Seq(Frame) /\ queue' = Append(queue, f)
  BY SameTablet DEF KernelTyped, QueueTyped, SentFrame
<1>2. Mine' = Mine
  BY DEF Mine
<1>3. f \in Frame
  <2>1. Len(queue') = Len(queue) + 1 /\ queue'[Len(queue) + 1] = f
    BY <1>1
  <2> QED
    BY <1>1, <2>1
<1>4. ASSUME NEW i \in 1 .. Len(queue')
      PROVE  queue'[i].serial \in Mine
  <2>1. CASE i = Len(queue) + 1
    BY <1>1, <1>3, <2>1
  <2>2. CASE i # Len(queue) + 1
    BY <1>1, <1>3, <2>2
  <2> QED
    BY <2>1, <2>2
<1> QED
  BY <1>2, <1>4

\* The numbers in the queue stay those of the tools.
LEMMA DualHardware ==
    ASSUME TypedInv, TypedInv', Hardware, type = "INTUOS", DualKernel
    PROVE  DualKernel'
<1>1. KernelTyped /\ KernelTyped' /\ ReportsNext /\ type \in IntuosTypes
  BY DEF TypedInv, Hardware, IntuosTypes
<1>2. WacTyped /\ HandTyped /\ product \in Products
  BY <1>1 DEF KernelTyped
<1>3. ASSUME NEW slot \in Slots, NEW t \in ToolsOf[product], Enter(slot, t)
      PROVE  DualKernel'
  <2>1. /\ hand' = [hand EXCEPT !.tool[slot] = t] /\ UNCHANGED <<product, queue, open>>
        /\ wac' = IF open THEN [tool |-> [wac.tool EXCEPT ![slot] = ToolKeyOf(t.id)],
                                id |-> [wac.id EXCEPT ![slot] = t.id],
                                serial |-> [wac.serial EXCEPT ![slot] = t.serial]]
                  ELSE wac
    BY <1>3 DEF Enter
  <2>2. t.serial \in Mine /\ Mine' = Mine
    BY <2>1 DEF Mine
  <2> QED
    BY <1>2, <2>1, <2>2 DEF DualKernel, WacTyped, HandTyped
<1>4. ASSUME NEW slot \in Slots, Exit(slot)
      PROVE  DualKernel'
  <2>1. /\ hand' = [hand EXCEPT !.tool[slot] = NoTool, !.pressed[slot] = {}]
        /\ hand.tool[slot] # NoTool /\ UNCHANGED <<product, open>>
    BY <1>4 DEF Exit
  <2>2. Mine' = Mine
    BY <2>1 DEF Mine
  <2>3. CASE ~open \/ Blocked(slot)
    <3>1. UNCHANGED <<wac, queue>>
      BY <1>4, <2>3 DEF Exit, Ignore
    <3> QED
      BY <1>2, <2>1, <2>2, <3>1 DEF DualKernel, HandTyped
  <2>4. CASE open /\ ~Blocked(slot)
    <3> DEFINE f == News({}, ResetSwitches(slot) \cup {wac.tool[slot]}, 0, FALSE,
                         wac.serial[slot], ~core.origin)
    <3>1. wac' = [wac EXCEPT !.id[slot] = 0] /\ SentFrame(f)
      BY <1>1, <1>4, <2>4, ExitSent
    <3>2. f.serial \in Mine
      BY <2>1, <2>4 DEF News, Report, DualKernel
    <3> HIDE DEF f
    <3>3. \A i \in 1 .. Len(queue') : queue'[i].serial \in Mine'
      BY <1>1, <2>1, <3>1, <3>2, DualSent DEF DualKernel
    <3> QED
      BY <1>2, <2>1, <2>2, <3>1, <3>3 DEF DualKernel, HandTyped, WacTyped
  <2> QED
    BY <2>3, <2>4
<1>5. ASSUME NEW slot \in Slots, Slot(slot), hand.tool[slot] # NoTool, UNCHANGED <<product, wac, open>>,
             hand'.tool = hand.tool, NEW on, NEW off, NEW axes \in BOOLEAN, open,
             SendNear(ToolReport(slot, on, off, axes))
      PROVE  DualKernel'
  <2> DEFINE f == News(on \cup {wac.tool[slot]}, off, wac.id[slot], TRUE, wac.serial[slot], axes)
  <2>1. SentFrame(f)
    BY <1>1, <1>5, NumberedSent
  <2>2. f.serial \in Mine
    BY <1>5 DEF News, Report, DualKernel
  <2> HIDE DEF f
  <2>3. \A i \in 1 .. Len(queue') : queue'[i].serial \in Mine'
    BY <1>1, <1>5, <2>1, <2>2, DualSent DEF DualKernel
  <2>4. Mine' = Mine
    BY <1>5 DEF Mine
  <2> QED
    BY <1>5, <2>3, <2>4 DEF DualKernel
<1>6. ASSUME NEW slot \in Slots, RangeReport(slot)
      PROVE  DualKernel'
  <2>1. /\ Slot(slot) /\ hand.tool[slot] # NoTool /\ UNCHANGED <<product, hand, wac, open>>
        /\ open /\ SendNear(ToolReport(slot, {}, {"ABS_PRESSURE"}, TRUE)) /\ TRUE \in BOOLEAN
    BY <1>6 DEF RangeReport
  <2> QED
    BY <1>5, <2>1
<1>7. ASSUME NEW slot \in Slots, NEW pressed \in SUBSET SwitchesOf[product], NEW axes \in BOOLEAN,
             NEW ready \in BOOLEAN, ToolPacket(slot, pressed, axes, ready)
      PROVE  DualKernel'
  <2>1. /\ Slot(slot) /\ hand.tool[slot] # NoTool /\ UNCHANGED <<product, wac, open>>
        /\ hand' = [hand EXCEPT !.pressed[slot] = pressed] /\ PacketSent(slot, axes)
    BY <1>1, <1>7, ToolPacketDoes
  <2>2. hand'.tool = hand.tool
    BY <1>2, <2>1 DEF HandTyped
  <2>3. CASE Ignore
    <3>1. UNCHANGED queue /\ Mine' = Mine
      BY <2>1, <2>3 DEF Ignore, Mine
    <3> QED
      BY <2>1, <2>2, <3>1 DEF DualKernel
  <2>4. CASE ~Ignore
    <3>1. PICK codes, on : open /\ SendNear(ToolReport(slot, on, codes \ on, axes))
      BY <2>1, <2>4 DEF PacketSent
    <3> QED
      BY <1>5, <2>1, <2>2, <3>1
  <2> QED
    BY <2>3, <2>4
<1>8. ASSUME NEW pads \in SUBSET PadKeys, Pad(pads) \/ DtusPad(pads)
      PROVE  FALSE
  BY <1>1, <1>8 DEF Pad, DtusPad
<1>9. ASSUME NEW t \in ToolsOf[product], NEW near \in BOOLEAN,
             NEW pressed \in SUBSET SwitchesOf[product], NEW axes \in BOOLEAN,
             DisplayTool(t, near, pressed, axes)
      PROVE  FALSE
  BY <1>1, <1>9 DEF DisplayTool
<1> QED
  BY <1>1, <1>3, <1>4, <1>6, <1>7, <1>8, <1>9 DEF ReportsNext

\* A state that a frame was parsed into has the frame's serial number.
LEMMA ParsedSerial ==
    ASSUME NEW w \in WorkState, NEW f, WellMade(f), core \in CoreState, NEW serial \in Int
    PROVE  Parsed(w, f, serial).serial = serial
<1> DEFINE u == [w EXCEPT !.serial = serial]
           v == ParseSwitches(u, f)
<1>1. u \in WorkState /\ u.serial = serial /\ f.misc \in Nat \cup {NoMisc}
  BY DEF WorkState, WellMade, Frame
<1> HIDE DEF u
<1>2. v \in WorkState /\ v.serial = serial
  BY <1>1, SwitchesTyped DEF ParseSwitches, WorkState
<1>3. Parsed(w, f, serial) = Retyped(IF f.miscFirst THEN ParseToolKey(ParseMisc(v, f), f)
                                     ELSE ParseMisc(ParseToolKey(v, f), f))
  BY DEF Parsed, u
<1> HIDE DEF v
<1>4. ASSUME NEW x \in WorkState
      PROVE  /\ ParseToolKey(x, f).serial = x.serial /\ ParseMisc(x, f).serial = x.serial
             /\ Retyped(x).serial = x.serial
  <2>1. ParseToolKey(x, f).serial = x.serial
    BY DEF ParseToolKey, WorkState
  <2>2. ParseMisc(x, f).serial = x.serial
    BY DEF ParseMisc, WorkState
  <2>3. Retyped(x).serial = x.serial
    BY DEF Retyped, WorkState
  <2> QED
    BY <2>1, <2>2, <2>3
<1>5. /\ ParseMisc(v, f) \in WorkState /\ ParseToolKey(v, f) \in WorkState
  BY <1>1, <1>2, MiscTyped, ToolKeyTyped
<1>6. /\ ParseToolKey(ParseMisc(v, f), f) \in WorkState
      /\ ParseMisc(ParseToolKey(v, f), f) \in WorkState
  BY <1>1, <1>5, MiscTyped, ToolKeyTyped
<1>7. ParseToolKey(ParseMisc(v, f), f).serial = serial
  BY <1>2, <1>4, <1>5
<1>8. ParseMisc(ParseToolKey(v, f), f).serial = serial
  BY <1>2, <1>4, <1>5
<1> QED
  BY <1>3, <1>4, <1>6, <1>7, <1>8

\* A frame is of its tool's channel, or of one that is free.
LEMMA DualRead ==
    ASSUME TypedInv, TypedInv', Read, type = "INTUOS", DualKernel, DualReader
    PROVE  DualKernel' /\ DualReader'
<1> DEFINE f == Head(queue)
           serial == SerialOf(f)
           ch == ChooseChannel(serial)
<1>1. /\ Take /\ UNCHANGED <<product, hand, wac, core, open>> /\ KernelTyped
      /\ product \in Products /\ channel \in [Channels -> ChanState] /\ core \in CoreState
      /\ type \in IntuosTypes /\ channel' \in [Channels -> ChanState]
  BY DEF TypedInv, KernelTyped, ReaderTyped, Read, ReadEmpty, ReadLost, ReadFrame, IntuosTypes
<1>2. queue \in Seq(Frame) /\ queue # <<>> /\ queue' = Tail(queue)
  BY <1>1 DEF KernelTyped, QueueTyped, Take
<1>3. WellMade(f) /\ f = queue[1] /\ 1 \in 1 .. Len(queue)
  BY <1>1, <1>2, HeadMade
<1>4. serial \in Int /\ serial \in Nat \cup {PadSerial} /\ serial = f.serial
  BY <1>1, <1>3, SerialTyped
<1>5. serial \in Mine /\ serial # 0 /\ Mine' = Mine
  BY <1>1, <1>3, <1>4, MineNumbers DEF DualKernel, Mine
<1>6. DualKernel'
  <2>1. \A i \in 1 .. Len(queue') : queue'[i] = queue[i + 1] /\ i + 1 \in 1 .. Len(queue)
    BY <1>2
  <2> QED
    BY <1>1, <1>5, <2>1 DEF DualKernel
<1>7. CASE ReadEmpty
  BY <1>5, <1>6, <1>7 DEF ReadEmpty, DualReader
<1>8. CASE ReadLost
  <2>1. \A c \in Channels :
          /\ channel'[c].work.proximity => channel[c].work.proximity
          /\ channel'[c].work.serial = channel[c].work.serial
    <3>1. ASSUME NEW c \in Channels
          PROVE  /\ channel'[c].work.proximity => channel[c].work.proximity
                 /\ channel'[c].work.serial = channel[c].work.serial
      <4>1. IF c \in Forced THEN channel'[c].work = [channel[c].work EXCEPT !.proximity = FALSE]
            ELSE channel'[c] = channel[c]
        BY <1>8, ReadLostDoes
      <4>2. channel[c].work \in WorkState
        BY <1>1 DEF ChanState
      <4> QED
        BY <4>1, <4>2 DEF WorkState
    <3> QED
      BY <3>1
  <2> QED
    BY <1>5, <1>6, <2>1 DEF DualReader
<1>9. CASE ReadFrame
  <2>1. /\ ch \in Channels
        /\ \E after \in ChanState :
             /\ channel' = [channel EXCEPT ![ch] = after]
             /\ after.work = Parsed(Opened(channel[ch]).work, f, serial)
    BY <1>9, ReadFrameDoes
  <2>2. ch = IF Holding(serial) # {} THEN First(Holding(serial)) ELSE First(Free)
    BY <1>1, <1>4, <1>5, ChooseDual
  <2>3. Holding(serial) # {} => ch \in Holding(serial)
    <3>1. Holding(serial) \in SUBSET Channels
      BY DEF Holding
    <3> QED
      BY <2>2, <3>1, FirstIs
  <2> HIDE DEF ch
  <2>4. PICK after \in ChanState :
             /\ channel' = [channel EXCEPT ![ch] = after]
             /\ after.work = Parsed(Opened(channel[ch]).work, f, serial)
    BY <2>1
  <2>5. after.work.serial = serial
    <3>1. Opened(channel[ch]) \in ChanState
      BY <1>1, <2>1, OpenedTyped
    <3>2. Opened(channel[ch]).work \in WorkState
      BY <3>1 DEF ChanState
    <3> HIDE DEF serial
    <3> QED
      BY <1>1, <1>3, <1>4, <2>4, <3>2, ParsedSerial
  <2>6. ASSUME NEW c \in Channels, c # ch
        PROVE  /\ channel'[c] = channel[c]
               /\ ~(channel[c].work.proximity /\ channel[c].work.serial = serial)
    <3>1. channel'[c] = channel[c]
      BY <1>1, <2>4, <2>6
    <3>2. ASSUME channel[c].work.proximity, channel[c].work.serial = serial
          PROVE  FALSE
      <4>1. c \in Holding(serial)
        BY <3>2 DEF Holding
      <4>2. ch \in Holding(serial)
        BY <2>3, <4>1
      <4> QED
        BY <2>6, <4>1, <4>2 DEF DualReader, Holding
    <3> QED
      BY <3>1, <3>2
  <2>7. channel'[ch] = after
    BY <1>1, <2>1, <2>4
  <2>8. \A c \in Channels : channel'[c].work.proximity => channel'[c].work.serial \in Mine
    BY <1>5, <2>5, <2>6, <2>7 DEF DualReader
  <2>9. ASSUME NEW c \in Channels, NEW d \in Channels,
               channel'[c].work.proximity, channel'[d].work.proximity,
               channel'[c].work.serial = channel'[d].work.serial
        PROVE  c = d
    <3>1. CASE c # ch /\ d # ch
      BY <2>6, <2>9, <3>1 DEF DualReader
    <3>2. CASE c = ch /\ d # ch
      BY <2>5, <2>6, <2>7, <2>9, <3>2
    <3>3. CASE c # ch /\ d = ch
      BY <2>5, <2>6, <2>7, <2>9, <3>3
    <3> QED
      BY <3>1, <3>2, <3>3
  <2> QED
    BY <1>5, <1>6, <2>8, <2>9 DEF DualReader
<1> QED
  BY <1>7, <1>8, <1>9 DEF Read

\* What the careful user does not do
Careful == CarefulUser /\ OneAtATime

\* So does every step of a careful user.
LEMMA DualStep ==
    ASSUME TypedInv, TypedInv', DualInv, [ChannelsNext /\ Careful]_allVars
    PROVE  DualInv'
<1>1. UNCHANGED product
  BY DEF ChannelsNext, Hardware, ReportsNext, Enter, Exit, RangeReport, ToolPacket, DisplayTool,
         Pad, DtusPad, Read, ReadEmpty, ReadLost, ReadFrame, Close, Open, allVars, reportVars
<1>2. type' = type /\ Mine' = Mine
  BY <1>1, SameTablet DEF Mine
<1>3. SUFFICES ASSUME type = "INTUOS"
               PROVE  DualKernel' /\ DualReader'
  BY <1>2 DEF DualInv
<1>4. DualKernel /\ DualReader
  BY <1>3 DEF DualInv
<1>5. CASE Hardware
  <2>1. DualKernel'
    BY <1>3, <1>4, <1>5, DualHardware
  <2>2. UNCHANGED channel
    BY <1>5 DEF Hardware, channelVars
  <2> QED
    BY <1>2, <1>4, <2>1, <2>2 DEF DualReader
<1>6. CASE Read
  BY <1>3, <1>4, <1>6, DualRead
<1>7. CASE Close
  <2>1. UNCHANGED <<hand, wac, channel>> /\ queue' = <<>> /\ ~open'
    BY <1>7 DEF Close, channelVars
  <2> QED
    BY <1>2, <1>4, <2>1 DEF DualKernel, DualReader
<1>8. CASE Open /\ Careful
  <2>1. /\ UNCHANGED <<hand, wac, channel, queue>> /\ open' # open
    BY <1>8 DEF Open, channelVars
  <2>2. hand.tool = [s \in Slots |-> NoTool]
    BY <1>3, <1>8, <2>1 DEF Careful, CarefulUser
  <2>3. \A s \in Slots : hand'.tool[s] = NoTool
    BY <2>1, <2>2
  <2> QED
    BY <1>2, <1>4, <2>1, <2>3 DEF DualKernel, DualReader
<1>9. CASE UNCHANGED allVars
  BY <1>2, <1>4, <1>9 DEF DualKernel, DualReader, allVars, reportVars, channelVars
<1> QED
  BY <1>5, <1>6, <1>7, <1>8, <1>9 DEF ChannelsNext

\* Four serial numbers are more than three.
LEMMA FourSerials ==
    ASSUME NEW S, IsFiniteSet(S), Cardinality(S) <= 3,
           NEW a \in S, NEW b \in S, NEW c \in S, NEW d \in S
    PROVE  a = b \/ a = c \/ a = d \/ b = c \/ b = d \/ c = d
<1> SUFFICES ASSUME a # b, a # c, a # d, b # c, b # d, c # d
             PROVE  FALSE
  OBVIOUS
<1>1. IsFiniteSet({}) /\ Cardinality({}) = 0
  BY FS_EmptySet
<1>2. IsFiniteSet({a}) /\ Cardinality({a}) = 1
  BY FS_Singleton
<1>3. IsFiniteSet({a, b}) /\ Cardinality({a, b}) = 2
  <2>1. {a, b} = {a} \cup {b}
    OBVIOUS
  <2> QED
    BY <1>2, <2>1, FS_AddElement
<1>4. IsFiniteSet({a, b, c}) /\ Cardinality({a, b, c}) = 3
  <2>1. {a, b, c} = {a, b} \cup {c}
    OBVIOUS
  <2> QED
    BY <1>3, <2>1, FS_AddElement
<1>5. Cardinality({a, b, c, d}) = 4
  <2>1. {a, b, c, d} = {a, b, c} \cup {d}
    OBVIOUS
  <2> QED
    BY <1>4, <2>1, FS_AddElement
<1>6. {a, b, c, d} \subseteq S
  OBVIOUS
<1>7. Cardinality({a, b, c, d}) <= Cardinality(S)
  BY <1>6, FS_Subset
<1>8. Cardinality(S) \in Nat
  BY FS_CardinalityType
<1> QED
  BY <1>5, <1>7, <1>8

\* Three tools are out of no channel.
LEMMA DualFits ==
    ASSUME TypedInv, DualInv, FewTools, type = "INTUOS", queue # <<>>
    PROVE  ChooseChannel(SerialOf(Head(queue))) # NoChannel
<1> DEFINE serial == SerialOf(Head(queue))
<1>1. /\ KernelTyped /\ product \in Products /\ queue \in Seq(Frame) /\ type \in IntuosTypes
      /\ \A i \in 1 .. Len(queue) : WellMade(queue[i])
  BY DEF TypedInv, KernelTyped, QueueTyped, IntuosTypes
<1>2. Head(queue) = queue[1] /\ 1 \in 1 .. Len(queue) /\ WellMade(Head(queue))
  BY <1>1
<1>3. serial \in Nat \cup {PadSerial} /\ serial \in Mine /\ serial # 0
  <2>1. serial = Head(queue).serial /\ serial \in Nat \cup {PadSerial}
    BY <1>1, <1>2, SerialTyped
  <2>2. Head(queue).serial \in Mine
    BY <1>2 DEF DualInv, DualKernel
  <2> QED
    BY <1>1, <2>1, <2>2, MineNumbers
<1>4. ChooseChannel(serial) = IF Holding(serial) # {} THEN First(Holding(serial)) ELSE First(Free)
  BY <1>1, <1>3, ChooseDual
<1>5. NoChannel \notin Channels
  BY DEF NoChannel, Channels, MAX_CHANNELS
<1>6. CASE Holding(serial) # {}
  <2>1. Holding(serial) \in SUBSET Channels
    BY DEF Holding
  <2> QED
    BY <1>4, <1>5, <1>6, <2>1, FirstIs
<1>7. CASE Holding(serial) = {} /\ Free # {}
  <2>1. Free \in SUBSET Channels
    BY DEF Free
  <2> QED
    BY <1>4, <1>5, <1>7, <2>1, FirstIs
<1>8. CASE Holding(serial) = {} /\ Free = {}
  <2>1. 0 \in Channels /\ 1 \in Channels /\ 2 \in Channels
    BY DEF Channels, MAX_CHANNELS
  <2>2. \A c \in Channels : channel[c].work.proximity /\ channel[c].work.serial # serial
    BY <1>8 DEF Free, Holding
  <2>3. IsFiniteSet(Mine) /\ Cardinality(Mine) <= 3
    BY <1>1 DEF FewTools, Mine, type, MAX_CHANNELS
  <2> DEFINE a == channel[0].work.serial
             b == channel[1].work.serial
             c == channel[2].work.serial
  <2>4. a \in Mine /\ b \in Mine /\ c \in Mine /\ a # b /\ a # c /\ b # c
    BY <2>1, <2>2 DEF DualInv, DualReader
  <2>5. a # serial /\ b # serial /\ c # serial
    BY <2>1, <2>2
  <2> HIDE DEF a, b, c, serial
  <2> QED
    BY <1>3, <2>3, <2>4, <2>5, FourSerials
<1> QED
  BY <1>6, <1>7, <1>8

\* A display has a channel for its tool and one for its keys.
LEMMA DisplayFits ==
    ASSUME TypedInv, type \notin IntuosTypes, queue # <<>>
    PROVE  ChooseChannel(SerialOf(Head(queue))) # NoChannel
<1>1. WellMade(Head(queue)) /\ product \in Products
  BY DEF TypedInv, KernelTyped, QueueTyped
<1>2. SerialOf(Head(queue)) \in {0, 1, DtusPadSerial}
  BY <1>1, SerialTyped
<1> QED
  BY <1>1, <1>2, ChooseDisplay DEF NoChannel

-----------------------------------------------------------------------------
(* One tool at a time.  A moment is what the kernel has reported so far:   *)
(* the key and the serial number of the tool that is near, and the codes   *)
(* that are on.                                                            *)

Serials == {t.serial : t \in Tools}

Moments == [key: NumberedKeys \cup {NoKey}, serial: Serials \cup {0}, on: SUBSET Spoken]

Near(m) == m.key # NoKey

\* The switches that the exit report of a tool with this key resets
ResetOf(key) ==
    IF key \in {"BTN_TOOL_MOUSE", "BTN_TOOL_LENS"} THEN PuckButtons
    ELSE PenSwitches \cup {"ABS_Z"}

PadCodes == ExpressKeys \cup {"BTN_TOOL_FINGER"}

\* Only the tool that is near has switches and a key on; the pad has a key
\* of its own.
Good(m) ==
    /\ m \in Moments
    /\ m.on \cap NumberedKeys = {m.key} \ {NoKey}
    /\ m.on \cap Written \subseteq IF Near(m) THEN ResetOf(m.key) ELSE {}
    /\ (m.serial = 0) = ~Near(m)
    /\ m.on \cap ExpressKeys \subseteq PadKeys
    /\ ("BTN_TOOL_FINGER" \in m.on) = PadNear(m.on \cap ExpressKeys)

KeyOn == wac.tool[0] \in core.on

Now == [key |-> IF KeyOn THEN wac.tool[0] ELSE NoKey,
        serial |-> IF KeyOn THEN wac.serial[0] ELSE 0, on |-> core.on]

\* What a frame says: the codes that went on and off
Says(m, f, n) ==
    /\ f.on \cap m.on = {} /\ f.off \subseteq m.on /\ f.on \cap f.off = {}
    /\ n.on = (m.on \cup f.on) \ f.off

\* A tool that is near
TellsNear(m, f, n) ==
    /\ Near(n) /\ f.serial = n.serial
    /\ Near(m) => m.key = n.key /\ m.serial = n.serial
    /\ f.on \subseteq Written \cup {n.key} /\ f.off \subseteq Written
    /\ f.miscFirst
    /\ f.misc # NoMisc => f.misc # 0 /\ (Agreed => FindDeviceType(f.misc) = KeyType[n.key])

\* A tool that leaves
TellsAway(m, f, n) ==
    /\ Near(m) /\ ~Near(n) /\ f.serial = m.serial
    /\ f.on = {} /\ m.key \in f.off /\ f.off \subseteq Written \cup {m.key}
    /\ ~f.miscFirst /\ f.misc \in {0, NoMisc}

\* A tool that leaves and was not near
TellsNothing(m, f, n) ==
    /\ ~Near(m) /\ n = m /\ f.serial \in Nat
    /\ f.on = {} /\ f.off = {} /\ f.misc = NoMisc /\ ~f.axes

\* The express keys
TellsPads(m, f, n) ==
    /\ f.serial = PadSerial /\ n.key = m.key /\ n.serial = m.serial
    /\ f.on \subseteq PadCodes /\ f.off \subseteq PadCodes /\ f.on \cup f.off # {}
    /\ ~f.miscFirst
    /\ f.misc # NoMisc => f.misc = IF "BTN_TOOL_FINGER" \in n.on THEN PAD_DEVICE_ID ELSE 0

\* One frame tells one moment from the next.
Tells(m, f, n) ==
    /\ Good(m) /\ Good(n) /\ Says(m, f, n)
    /\ TellsNear(m, f, n) \/ TellsAway(m, f, n) \/ TellsNothing(m, f, n) \/ TellsPads(m, f, n)

\* The frames in q tell the way from moment a to moment b.
Chain(q, a, b) ==
    \E s \in [1 .. Len(q) + 1 -> Moments] :
       /\ s[1] = a /\ s[Len(q) + 1] = b
       /\ \A i \in 1 .. Len(q) : Tells(s[i], q[i], s[i + 1])

\* What the handlers keep: a tool that is heeded is in the hand, and what is
\* pressed on it is on in the input core.
KnowsTool ==
    /\ wac.tool[0] \in NumberedKeys \cup {NoKey}
    /\ wac.serial[0] \in Mine \cup {0}
    /\ wac.id[0] # 0 => wac.tool[0] \in NumberedKeys \cap Codes /\ wac.serial[0] # 0

HeedsHand ==
    wac.id[0] # 0 /\ ~Blocked(0) =>
      /\ open /\ hand.tool[0] # NoTool /\ wac.id[0] = hand.tool[0].id
      /\ wac.tool[0] = ToolKeyOf(hand.tool[0].id) /\ wac.serial[0] = hand.tool[0].serial

KeyHeeded == KeyOn => ~Unheard(0)

CoreRests == KeyOn \/ (core.origin /\ (core.misc = 0 \/ hand.pads # {}))

PressesHand ==
    /\ hand.tool[0] \in ToolsOf[product] \cup {NoTool}
    /\ hand.tool[0] = NoTool => hand.pressed[0] = {}
    /\ ~Unheard(0) => core.on \cap Written = hand.pressed[0] \cap Codes

PadsOn == core.on \cap ExpressKeys = hand.pads

SingleKernel ==
    KnowsTool /\ HeedsHand /\ KeyHeeded /\ CoreRests /\ PressesHand /\ PadsOn /\ Good(Now)

\* Channel c shows the tool as it is at moment m.
ShowsTool(c, m) ==
    /\ c.work.proximity = Near(m)
    /\ Near(m) => /\ c.work.serial = m.serial /\ c.work.buttons = ButtonsOf(m.on \cap Written)
                  /\ c.work.axes = m.on \cap Axes /\ (Agreed => c.work.type = KeyType[m.key])
    /\ c.valid.serial \in Serials \cup {0}
    /\ Agreed => /\ c.valid.proximity =>
                       /\ c.work.proximity /\ c.valid.type = c.work.type /\ c.valid.serial = c.work.serial
                       /\ c.valid.buttons = c.work.buttons /\ c.valid.axes = c.work.axes
                 /\ c.nSamples < 2 => ~c.valid.proximity

\* Channel c shows the pad as it is at moment m.
ShowsPads(c, m) ==
    /\ c.work.proximity => c.work.serial = PadSerial
    /\ c.valid.serial \in {0, PadSerial} /\ (c.valid.proximity => c.valid.serial = PadSerial)
    /\ PadsLookedAt =>
         /\ c.work.proximity = ("BTN_TOOL_FINGER" \in m.on)
         /\ c.work.proximity => c.work.type = "PAD" /\ c.work.buttons = ButtonsOf(m.on \cap ExpressKeys)
         /\ c.valid.proximity => c.work.proximity
         /\ c.valid.serial = PadSerial =>
              c.valid.type = "PAD" /\ c.valid.buttons = ButtonsOf(m.on \cap ExpressKeys)

Shows(m) == ShowsTool(channel[0], m) /\ ShowsPads(channel[1], m) /\ channel[2] = BlankChannel

SingleReader == \E a \in Moments : Shows(a) /\ Chain(queue, a, Now)

SingleInv == type \in OneTool => SingleKernel /\ SingleReader
-----------------------------------------------------------------------------
(* The codes of a tablet that follows one tool.                            *)

\* The codes of tools, of pads and the keys of tools are different codes.
LEMMA CodesApart ==
    /\ Written \cap ToolKeys = {} /\ Written \cap ExpressKeys = {} /\ ExpressKeys \cap ToolKeys = {}
    /\ NoKey \notin Spoken /\ "BTN_TOOL_FINGER" \in ToolKeys
<1>1. Written = {"ABS_PRESSURE", "BTN_STYLUS", "BTN_STYLUS2", "BTN_LEFT", "BTN_RIGHT",
                 "BTN_MIDDLE", "BTN_SIDE", "BTN_EXTRA", "ABS_Z"}
  BY DEF Written, PenSwitches, PuckButtons
<1>2. ExpressKeys = {"BTN_0", "BTN_1", "BTN_2", "BTN_3", "BTN_4", "BTN_5", "BTN_6", "BTN_7",
                     "BTN_8", "BTN_9", "BTN_A", "BTN_B", "BTN_C", "BTN_X", "BTN_Y", "BTN_Z",
                     "BTN_BASE", "BTN_BASE2", "BTN_BASE3", "KEY_PROG1", "KEY_PROG2", "KEY_PROG3"}
  BY NumberKeys DEF ExpressKeys, LetterKeys, ProgKeys
<1>3. Written \cap ToolKeys = {}
  BY <1>1, ToolKeyList
<1>4. Written \cap ExpressKeys = {}
  BY <1>1, <1>2
<1>5. ExpressKeys \cap ToolKeys = {}
  BY <1>2, ToolKeyList
<1>6. NoKey \notin Written /\ NoKey \notin ExpressKeys /\ NoKey \notin ToolKeys
  BY <1>1, <1>2, ToolKeyList DEF NoKey
<1> QED
  BY <1>3, <1>4, <1>5, <1>6, ToolKeyList DEF Spoken

\* The first keys of a row are among the first of a longer row.
LEMMA FewerKeys ==
    ASSUME NEW i \in 0 .. 9, NEW j \in 0 .. 9, i <= j
    PROVE  KeysTo(i) \subseteq KeysTo(j)
  BY DEF KeysTo

\* A pad's report writes every express key that the tablet declares.
LEMMA PadWrites ==
    ASSUME product \in Products, type \in OneTool
    PROVE  /\ PadWritten \subseteq ExpressKeys
           /\ Codes \cap ExpressKeys \subseteq PadWritten
           /\ "BTN_TOOL_FINGER" \in Codes
<1>1. type \in DOMAIN ProductsOf /\ Codes = Capabilities[type]
  BY TypeKnown
<1>2. /\ KeysTo(3) \subseteq KeysTo(9) /\ KeysTo(5) \subseteq KeysTo(9) /\ KeysTo(6) \subseteq KeysTo(8)
      /\ KeysTo(6) \subseteq KeysTo(9)
      /\ KeysTo(7) \subseteq KeysTo(9) /\ KeysTo(8) \subseteq KeysTo(9)
  BY FewerKeys
<1>3. PadWritten \subseteq ExpressKeys
  BY <1>2 DEF PadWritten, ExpressKeys
<1>4. "ABS_Z" \notin ExpressKeys
  BY CodesApart DEF Written
<1>5. PadEvents(type) \cap ExpressKeys \subseteq PadWritten
  <2>1. CASE type \in Intuos3
    BY <1>2, <1>4, <2>1 DEF PadEvents, PadWritten, Intuos3, Intuos4, Intuos5
  <2>2. CASE type \in Intuos4
    BY <1>2, <1>4, <2>2 DEF PadEvents, PadWritten, Intuos3, Intuos4, Intuos5
  <2>3. CASE type \in Intuos5
    BY <1>2, <1>4, <2>3 DEF PadEvents, PadWritten, Intuos3, Intuos4, Intuos5
  <2>4. CASE type \in Displays
    BY <1>2, <1>4, <2>4 DEF PadEvents, PadWritten, Intuos3, Intuos4, Intuos5, Displays
  <2> QED
    BY <2>1, <2>2, <2>3, <2>4 DEF OneTool, IntuosTypes
<1>6. (IntuosEvents \cup CintiqEvents \cup {"ABS_PRESSURE", "ABS_MISC", "BTN_TOOL_FINGER"}) \cap ExpressKeys = {}
  BY NumberKeys DEF ExpressKeys, LetterKeys, ProgKeys, IntuosEvents, CintiqEvents, PenButtons, PuckButtons
<1>7. /\ Capabilities[type] \subseteq PadEvents(type) \cup IntuosEvents \cup CintiqEvents
                                       \cup {"ABS_PRESSURE", "ABS_MISC", "BTN_TOOL_FINGER"}
      /\ "BTN_TOOL_FINGER" \in Capabilities[type]
  <2>1. type \in IntuosTypes \ {"INTUOS"} /\ type \notin {"DTUS", "PL", "PTU", "DTU"}
        /\ type # "DTUS" /\ type # "PENPARTNER"
    BY DEF OneTool, IntuosTypes, Intuos3, Intuos4, Intuos5, Displays
  <2> QED
    BY <1>1, <2>1 DEF Capabilities
<1> QED
  BY <1>1, <1>3, <1>5, <1>6, <1>7

\* The tablet's tools are among all tools.
LEMMA MineSerials ==
    ASSUME product \in Products
    PROVE  Mine \subseteq Serials
  BY DEF Mine, Serials, Tools

\* What an exit resets are switches of tools.
LEMMA ResetWritten ==
    ASSUME NEW key
    PROVE  ResetOf(key) \subseteq Written
  BY DEF ResetOf, Written

\* What the exit of a tool resets covers what its packets report.
LEMMA PacketsReset ==
    ASSUME NEW key \in NumberedKeys, NEW codes \in Packets(key), type \in OneTool
    PROVE  codes \subseteq ResetOf(key)
<1>1. key \in Pens \cup {"BTN_TOOL_MOUSE", "BTN_TOOL_LENS"} /\ type # "INTUOS"
  BY ToolKeyList DEF NumberedKeys, Pens, OneTool
<1>2. CASE key \in Pens
  <2>1. key # "BTN_TOOL_MOUSE" /\ key # "BTN_TOOL_LENS"
    BY <1>2 DEF Pens
  <2>2. Packets(key) = {PenSwitches} \cup {{"ABS_Z"}}
    BY <1>1, <1>2, <2>1 DEF Packets
  <2> QED
    BY <2>1, <2>2 DEF ResetOf
<1>3. CASE key = "BTN_TOOL_LENS"
  <2>1. Packets(key) = {PuckButtons}
    BY <1>3 DEF Packets, Pens
  <2> QED
    BY <1>3, <2>1 DEF ResetOf
<1>4. CASE key = "BTN_TOOL_MOUSE"
  <2>1. Packets(key) \in {{PuckButtons}, {{"BTN_LEFT", "BTN_MIDDLE", "BTN_RIGHT"}}}
    BY <1>1, <1>4 DEF Packets, Pens
  <2>2. {"BTN_LEFT", "BTN_MIDDLE", "BTN_RIGHT"} \subseteq PuckButtons
    BY DEF PuckButtons
  <2> QED
    BY <1>4, <2>1, <2>2 DEF ResetOf
<1> QED
  BY <1>1, <1>2, <1>3, <1>4

\* The one tool is in the first slot.
LEMMA OneSlot ==
    ASSUME type \in OneTool, NEW slot \in Slots, Slot(slot)
    PROVE  slot = 0 /\ type \in IntuosTypes
  BY DEF OneTool, Slot

\* The exit report resets the switches of its tool.
LEMMA ExitResets ==
    ASSUME type \in OneTool
    PROVE  ResetSwitches(0) = ResetOf(wac.tool[0])
  BY DEF ResetSwitches, ResetOf, OneTool

\* A report says what it changes.
LEMMA NewsSays ==
    ASSUME KernelTyped, NEW on, NEW off, on \cap off = {}, NEW misc, NEW first, NEW serial, NEW axes,
           NEW origin, Sending(on, off, misc, first, serial, axes, origin),
           NEW m, m.on = core.on, NEW n, n.on = core'.on
    PROVE  Says(m, News(on, off, misc, first, serial, axes), n)
<1> DEFINE f == News(on, off, misc, first, serial, axes)
<1>1. core.on \subseteq Codes
  BY DEF KernelTyped, CoreState
<1>2. f.on = (on \cap Codes) \ core.on /\ f.off = (off \cap Codes) \cap core.on
  BY DEF News, Report, Heard, Codes
<1>3. core'.on = (core.on \cup (on \cap Codes)) \ off
  BY DEF Sending, Kept, Heard, Codes
<1> HIDE DEF f
<1>4. \A x : x \in n.on <=> x \in (m.on \cup f.on) \ f.off
  BY <1>1, <1>2, <1>3
<1>5. n.on = (m.on \cup f.on) \ f.off
  <2>1. n.on = core'.on
    OBVIOUS
  <2> HIDE DEF f
  <2> QED
    BY <1>3, <1>4, <2>1
<1>6. Says(m, f, n)
  BY <1>1, <1>2, <1>5 DEF Says
<1> QED
  BY <1>6 DEF f

-----------------------------------------------------------------------------
(* One tool at a time: the kernel.                                         *)

Continued ==
    \/ queue' = queue /\ Now' = Now
    \/ \E f \in Frame : SentFrame(f) /\ Tells(Now, f, Now')

KernelStep == SingleKernel' /\ Continued

\* What holds between reports
LEMMA SingleFacts ==
    ASSUME KernelTyped, type \in OneTool, SingleKernel
    PROVE  /\ core.on \subseteq Codes /\ NoKey \notin core.on /\ product \in Products
           /\ WacTyped /\ HandTyped /\ core \in CoreState /\ core.origin \in BOOLEAN
           /\ KeyOn => /\ ~Unheard(0) /\ wac.id[0] # 0 /\ ~Blocked(0) /\ open
                       /\ wac.tool[0] \in NumberedKeys \cap Codes
                       /\ core.on \cap NumberedKeys = {wac.tool[0]}
                       /\ core.on \cap Written \subseteq ResetOf(wac.tool[0])
                       /\ wac.serial[0] \in Mine /\ wac.serial[0] \in Nat \ {0}
                       /\ Now = [key |-> wac.tool[0], serial |-> wac.serial[0], on |-> core.on]
           /\ ~KeyOn => /\ core.on \cap NumberedKeys = {} /\ core.on \cap Written = {}
                        /\ Now = [key |-> NoKey, serial |-> 0, on |-> core.on]
<1>1. /\ product \in Products /\ WacTyped /\ HandTyped /\ core \in CoreState
      /\ core.on \subseteq Codes /\ core.origin \in BOOLEAN
  BY DEF KernelTyped, CoreState
<1>2. NoKey \notin core.on
  BY <1>1, TypeKnown
<1>3. Good(Now) /\ KeyHeeded /\ HeedsHand /\ KnowsTool
  BY DEF SingleKernel
<1>4. CASE KeyOn
  <2>1. Now = [key |-> wac.tool[0], serial |-> wac.serial[0], on |-> core.on]
    BY <1>4 DEF Now
  <2>2. ~Unheard(0) /\ wac.id[0] # 0 /\ ~Blocked(0)
    BY <1>3, <1>4 DEF KeyHeeded, Unheard
  <2>3. open /\ wac.tool[0] \in NumberedKeys \cap Codes /\ wac.serial[0] \in Mine \ {0}
    BY <1>3, <2>2 DEF HeedsHand, KnowsTool
  <2>4. wac.serial[0] \in Nat \ {0}
    BY <1>1, <2>3 DEF WacTyped, Slots
  <2>5. wac.tool[0] # NoKey
    BY <1>2, <1>4 DEF KeyOn
  <2>6. core.on \cap NumberedKeys = {wac.tool[0]} /\ core.on \cap Written \subseteq ResetOf(wac.tool[0])
    BY <1>3, <2>1, <2>5 DEF Good, Near
  <2> QED
    BY <1>1, <1>2, <1>4, <2>1, <2>2, <2>3, <2>4, <2>6
<1>5. CASE ~KeyOn
  <2>1. Now = [key |-> NoKey, serial |-> 0, on |-> core.on]
    BY <1>5 DEF Now
  <2>2. core.on \cap NumberedKeys = {} /\ core.on \cap Written = {}
    BY <1>3, <2>1 DEF Good, Near
  <2> QED
    BY <1>1, <1>2, <1>5, <2>1, <2>2
<1> QED
  BY <1>4, <1>5

\* A frame sent is a frame of the queue.
LEMMA SentIn ==
    ASSUME KernelTyped, KernelTyped', UNCHANGED product, NEW f, SentFrame(f)
    PROVE  f \in Frame /\ queue \in Seq(Frame) /\ queue' \in Seq(Frame)
<1>1. queue \in Seq(Frame) /\ queue' \in Seq(Frame) /\ queue' = Append(queue, f)
  BY SameTablet DEF KernelTyped, QueueTyped, SentFrame
<1>2. Len(queue') = Len(queue) + 1 /\ queue'[Len(queue) + 1] = f
  BY <1>1
<1> QED
  BY <1>1, <1>2

\* An enter report: the tool is heeded, and nothing is on.
LEMMA EnterSingle ==
    ASSUME KernelTyped, KernelTyped', type \in OneTool, Supported, SingleKernel,
           NEW slot \in Slots, NEW t \in ToolsOf[product], Enter(slot, t)
    PROVE  KernelStep
<1>1. /\ slot = 0 /\ hand.tool[0] = NoTool /\ hand' = [hand EXCEPT !.tool[0] = t]
      /\ UNCHANGED <<product, core, queue, open>>
      /\ wac' = IF open THEN [tool |-> [wac.tool EXCEPT ![0] = ToolKeyOf(t.id)],
                              id |-> [wac.id EXCEPT ![0] = t.id],
                              serial |-> [wac.serial EXCEPT ![0] = t.serial]]
                ELSE wac
  BY OneSlot DEF Enter
<1>2. /\ core.on \subseteq Codes /\ product \in Products /\ WacTyped /\ HandTyped
      /\ type' = type /\ Codes' = Codes /\ Mine' = Mine /\ 0 \in Slots
  BY <1>1, SingleFacts, SameTablet DEF Mine, Slots
<1>3. KnowsTool /\ HeedsHand /\ KeyHeeded /\ CoreRests /\ PressesHand /\ PadsOn /\ Good(Now)
  BY DEF SingleKernel
<1>4. wac.id[0] = 0 \/ Blocked(0)
  BY <1>1, <1>3 DEF HeedsHand
<1>5. Unheard(0) /\ ~KeyOn
  BY <1>3, <1>4 DEF Unheard, KeyHeeded
<1>6. /\ core.on \cap NumberedKeys = {} /\ core.on \cap Written = {}
      /\ Now = [key |-> NoKey, serial |-> 0, on |-> core.on]
  BY <1>5, SingleFacts
<1>7. t.id \in Nat \ {0} /\ t.serial \in Nat \ {0} /\ t.serial \in Mine /\ t # NoTool
  BY <1>2, ToolTyped DEF Mine, NoTool
<1>8. /\ hand'.tool[0] = t /\ hand'.pressed[0] = hand.pressed[0] /\ hand'.pads = hand.pads
      /\ hand.pressed[0] = {}
  BY <1>1, <1>2, <1>3 DEF HandTyped, PressesHand
<1>9. CASE open
  <2>1. wac'.tool[0] = ToolKeyOf(t.id) /\ wac'.id[0] = t.id /\ wac'.serial[0] = t.serial
    BY <1>1, <1>2, <1>9 DEF WacTyped
  <2>2. ToolKeyOf(t.id) \in NumberedKeys \cap Codes
    BY <1>2, ToolKeyIs DEF Supported, Codes, type
  <2>3. ~KeyOn'
    BY <1>1, <1>6, <2>1, <2>2 DEF KeyOn
  <2>4. Now' = Now
    BY <1>1, <1>6, <2>3 DEF Now
  <2>5. Good(Now)'
    BY <1>3, <2>4 DEF Good, PadNear
  <2>6. KnowsTool' /\ KeyHeeded' /\ PadsOn'
    BY <1>1, <1>2, <1>3, <1>7, <1>8, <2>1, <2>2, <2>3 DEF KnowsTool, KeyHeeded, PadsOn
  <2>7. HeedsHand'
    BY <1>1, <1>7, <1>8, <1>9, <2>1 DEF HeedsHand
  <2>8. CoreRests'
    BY <1>1, <1>3, <1>5, <1>8 DEF CoreRests
  <2>9. PressesHand'
    BY <1>1, <1>6, <1>7, <1>8 DEF PressesHand
  <2> QED
    BY <1>1, <2>4, <2>5, <2>6, <2>7, <2>8, <2>9 DEF KernelStep, SingleKernel, Continued
<1>10. CASE ~open
  <2>1. wac' = wac
    BY <1>1, <1>10
  <2>2. KeyOn' = KeyOn /\ Unheard(0)' = Unheard(0) /\ Blocked(0)' = Blocked(0) /\ Now' = Now
    BY <1>1, <1>2, <2>1 DEF KeyOn, Unheard, Blocked, LensUnsupported, Now
  <2>3. Good(Now)'
    BY <1>3, <2>2 DEF Good, PadNear
  <2>4. KnowsTool' /\ KeyHeeded' /\ PadsOn'
    BY <1>1, <1>2, <1>3, <1>5, <1>8, <2>1, <2>2 DEF KnowsTool, KeyHeeded, PadsOn
  <2>5. HeedsHand'
    BY <1>4, <2>1, <2>2 DEF HeedsHand
  <2>6. CoreRests'
    BY <1>1, <1>3, <1>5, <1>8 DEF CoreRests
  <2>7. PressesHand'
    BY <1>1, <1>5, <1>7, <1>8, <2>2 DEF PressesHand
  <2> QED
    BY <1>1, <2>2, <2>3, <2>4, <2>5, <2>6, <2>7 DEF KernelStep, SingleKernel, Continued
<1> QED
  BY <1>9, <1>10

\* An exit report: everything of the tool goes off, if it was on.
LEMMA ExitSingle ==
    ASSUME KernelTyped, KernelTyped', type \in OneTool, SingleKernel, CarefulUser,
           NEW slot \in Slots, Exit(slot)
    PROVE  KernelStep
<1>1. /\ slot = 0 /\ hand.tool[0] # NoTool /\ UNCHANGED <<product, open>>
      /\ hand' = [hand EXCEPT !.tool[0] = NoTool, !.pressed[0] = {}] /\ type \in IntuosTypes
  BY OneSlot DEF Exit
<1>2. /\ core.on \subseteq Codes /\ product \in Products /\ WacTyped /\ HandTyped /\ core \in CoreState
      /\ type' = type /\ Codes' = Codes /\ Mine' = Mine /\ 0 \in Slots
  BY <1>1, SingleFacts, SameTablet DEF Mine, Slots
<1>3. KnowsTool /\ HeedsHand /\ KeyHeeded /\ CoreRests /\ PressesHand /\ PadsOn /\ Good(Now)
  BY DEF SingleKernel
<1>4. hand'.tool[0] = NoTool /\ hand'.pressed[0] = {} /\ hand'.pads = hand.pads
  BY <1>1, <1>2 DEF HandTyped
<1>5. CASE ~open \/ Blocked(0)
  <2>1. UNCHANGED <<wac, core, queue>>
    BY <1>1, <1>5 DEF Exit, Ignore
  <2>2. wac.id[0] = 0 \/ Blocked(0)
    BY <1>3, <1>5 DEF HeedsHand
  <2>3. KeyOn' = KeyOn /\ Unheard(0)' = Unheard(0) /\ Blocked(0)' = Blocked(0) /\ Now' = Now
    BY <1>2, <2>1 DEF KeyOn, Unheard, Blocked, LensUnsupported, Now
  <2>4. Good(Now)'
    BY <1>3, <2>3 DEF Good, PadNear
  <2>5. KnowsTool' /\ KeyHeeded' /\ PadsOn' /\ CoreRests'
    BY <1>2, <1>3, <1>4, <2>1, <2>3 DEF KnowsTool, KeyHeeded, PadsOn, CoreRests
  <2>6. HeedsHand' /\ PressesHand'
    BY <1>4, <2>1, <2>2, <2>3 DEF HeedsHand, PressesHand, Unheard
  <2> QED
    BY <2>1, <2>3, <2>4, <2>5, <2>6 DEF KernelStep, SingleKernel, Continued
<1>6. CASE open /\ ~Blocked(0)
  <2> DEFINE off == ResetSwitches(0) \cup {wac.tool[0]}
             serial == wac.serial[0]
             away == ~core.origin
             f == News({}, off, 0, FALSE, serial, away)
  <2>1. /\ wac' = [wac EXCEPT !.id[0] = 0]
        /\ core' = Kept({}, off, 0, TRUE) /\ SentFrame(f)
    BY <1>1, <1>6, ExitSent
  <2>2. f \in Frame
    BY <1>1, <2>1, SentIn
  <2>3. off = ResetOf(wac.tool[0]) \cup {wac.tool[0]} /\ off \subseteq Written \cup {wac.tool[0]}
    BY ExitResets, ResetWritten
  <2>4. wac'.id[0] = 0 /\ wac'.tool[0] = wac.tool[0] /\ wac'.serial[0] = serial
    BY <1>2, <2>1 DEF WacTyped
  <2>5. core'.on = core.on \ off /\ core'.misc = 0 /\ core'.origin = TRUE
    BY <2>1 DEF Kept, Heard, NoMisc
  <2>6. ~KeyOn'
    BY <2>4, <2>5 DEF KeyOn
  <2>7. Now' = [key |-> NoKey, serial |-> 0, on |-> core.on \ off]
    BY <2>5, <2>6 DEF Now
  <2>8. /\ (core.on \ off) \cap NumberedKeys = {} /\ (core.on \ off) \cap Written = {}
        /\ (core.on \ off) \cap ExpressKeys = core.on \cap ExpressKeys
        /\ "BTN_TOOL_FINGER" \in core.on \ off <=> "BTN_TOOL_FINGER" \in core.on
    <3>1. wac.tool[0] \in NumberedKeys \cup {NoKey}
      BY <1>3 DEF KnowsTool
    <3>2. wac.tool[0] \notin ExpressKeys /\ wac.tool[0] # "BTN_TOOL_FINGER"
      BY <3>1, CodesApart DEF NumberedKeys, Spoken
    <3>3. core.on \cap NumberedKeys \subseteq {wac.tool[0]}
          /\ core.on \cap Written \subseteq ResetOf(wac.tool[0])
      BY SingleFacts
    <3> HIDE DEF off
    <3>4. "BTN_TOOL_FINGER" \notin Written
      BY CodesApart
    <3> QED
      BY <2>3, <3>2, <3>3, <3>4, CodesApart
  <2>9. Good(Now)' /\ Good(Now')
    <3>1. core.on \subseteq Spoken
      BY <1>3 DEF Good, Moments, Now
    <3> HIDE DEF off
    <3>2. Now'.on = core.on \ off /\ Now'.key = NoKey /\ Now'.serial = 0
      BY <2>7
    <3>3. Now.on = core.on
      BY DEF Now
    <3>4. ("BTN_TOOL_FINGER" \in core.on) = PadNear(core.on \cap ExpressKeys)
      BY <1>3, <3>3 DEF Good
    <3>5. Now' \in Moments
      BY <2>7, <3>1 DEF Moments
    <3>6. core.on \cap ExpressKeys \subseteq PadKeys
      BY <1>3, <3>3 DEF Good
    <3> QED
      BY <2>8, <3>2, <3>4, <3>5, <3>6 DEF Good, Near, PadNear
  <2>10. HeedsHand' /\ KnowsTool' /\ KeyHeeded'
    BY <1>2, <1>3, <2>4, <2>6 DEF HeedsHand, KnowsTool, KeyHeeded
  <2>11. CoreRests' /\ PressesHand' /\ PadsOn'
    BY <1>3, <1>4, <2>4, <2>5, <2>8 DEF CoreRests, PressesHand, PadsOn, Unheard
  <2>12. Tells(Now, f, Now')
    <3>1. Sending({}, off, 0, FALSE, serial, away, TRUE)
      BY <2>1 DEF Sending, SentFrame
    <3>2. Says(Now, f, Now')
      <4>1. Now.on = core.on /\ Now'.on = core'.on
        BY <2>5, <2>7 DEF Now
      <4> HIDE DEF off, serial, away
      <4>2. {} \cap off = {}
        OBVIOUS
      <4> QED
        BY <3>1, <4>1, <4>2, NewsSays
    <3>3. /\ f.on = {} /\ f.off = (off \cap Codes) \cap core.on /\ f.serial = serial /\ f.miscFirst = FALSE
          /\ f.misc = (IF 0 = core.misc THEN NoMisc ELSE 0) /\ f.axes = away
      BY DEF News, Report, Heard, Codes
    <3>4. CASE KeyOn
      <4>1. /\ Now = [key |-> wac.tool[0], serial |-> serial, on |-> core.on]
            /\ wac.tool[0] \in NumberedKeys \cap Codes /\ wac.tool[0] # NoKey
        BY <3>4, SingleFacts, CodesApart DEF NumberedKeys, Spoken
      <4>2. wac.tool[0] \in f.off /\ f.off \subseteq Written \cup {wac.tool[0]}
        BY <2>3, <3>3, <3>4, <4>1 DEF KeyOn
      <4> HIDE DEF f, off
      <4>3. TellsAway(Now, f, Now')
        BY <2>7, <3>3, <4>1, <4>2 DEF TellsAway, Near
      <4> QED
        BY <1>3, <2>9, <3>2, <4>3 DEF Tells
    <3>5. CASE ~KeyOn
      <4>1. hand.pads = {}
        <5>1. \A s \in Slots : hand.tool[s] # NoTool /\ hand'.tool[s] = NoTool /\ open /\ type \in IntuosTypes
                => hand.pads = {} \/ Blocked(s) \/ (wac.id[s] # 0 /\ wac.tool[s] \in core.on)
          BY DEF CarefulUser
        <5> QED
          BY <1>1, <1>2, <1>4, <1>6, <3>5, <5>1 DEF KeyOn
      <4>2. core.origin /\ core.misc = 0
        BY <1>3, <3>5, <4>1 DEF CoreRests
      <4>3. f.off = {}
        <5>1. core.on \cap off = {}
          <6>1. core.on \cap Written = {} /\ wac.tool[0] \notin core.on
            BY <3>5, SingleFacts DEF KeyOn
          <6> HIDE DEF off
          <6> QED
            BY <2>3, <6>1
        <5> QED
          BY <3>3, <5>1
      <4>4. core.on \ off = core.on
        BY <2>3, <3>3, <4>3, <1>2
      <4>5. Now = [key |-> NoKey, serial |-> 0, on |-> core.on]
        BY <3>5, SingleFacts
      <4>6. serial \in Nat
        BY <1>2 DEF WacTyped
      <4> HIDE DEF f, off
      <4>7. Now' = Now
        BY <2>7, <4>4, <4>5
      <4>8. TellsNothing(Now, f, Now')
        BY <3>3, <4>2, <4>3, <4>5, <4>6, <4>7 DEF TellsNothing, Near
      <4> QED
        BY <1>3, <2>9, <3>2, <4>8 DEF Tells
    <3> QED
      BY <3>4, <3>5
  <2> HIDE DEF f
  <2>13. Continued
    BY <2>1, <2>2, <2>12 DEF Continued
  <2> QED
    BY <2>9, <2>10, <2>11, <2>13 DEF KernelStep, SingleKernel
<1> QED
  BY <1>5, <1>6

\* A report of a tool that is heeded
LEMMA NearSent ==
    ASSUME KernelTyped, KernelTyped', type \in OneTool, SingleKernel, ~Unheard(0),
           NEW on, NEW off, on \cap off = {}, on \subseteq ResetOf(wac.tool[0]), off \subseteq Written,
           NEW axes \in BOOLEAN, SendNear(ToolReport(0, on, off, axes)),
           UNCHANGED <<product, wac, open>>, hand'.tool = hand.tool, hand'.pads = hand.pads,
           ((core.on \cup (on \cap Codes)) \cap Written) \ off = hand'.pressed[0] \cap Codes
    PROVE  KernelStep
<1> DEFINE key == wac.tool[0]
           said == on \cup {key}
           id == wac.id[0]
           serial == wac.serial[0]
           origin == core.origin /\ ~axes
           f == News(said, off, id, TRUE, serial, axes)
<1>1. /\ core.on \subseteq Codes /\ product \in Products /\ WacTyped /\ HandTyped /\ core \in CoreState
      /\ type' = type /\ Codes' = Codes /\ Mine' = Mine /\ 0 \in Slots
  BY SingleFacts, SameTablet DEF Mine, Slots
<1>2. KnowsTool /\ HeedsHand /\ KeyHeeded /\ CoreRests /\ PressesHand /\ PadsOn /\ Good(Now)
  BY DEF SingleKernel
<1>3. id # 0 /\ ~Blocked(0) /\ open
  BY <1>2 DEF Unheard, HeedsHand
<1>4. /\ key \in NumberedKeys \cap Codes /\ serial \in Mine /\ serial # 0 /\ serial \in Nat
      /\ id \in Nat /\ key = ToolKeyOf(hand.tool[0].id) /\ id = hand.tool[0].id
      /\ hand.tool[0] \in ToolsOf[product]
  BY <1>1, <1>2, <1>3 DEF KnowsTool, HeedsHand, WacTyped, PressesHand
<1>5. Slot(0)
  BY DEF OneTool, Slot
<1>6. Send(Report(said, off, id, TRUE, serial, axes), origin)
  BY <1>1, <1>5, ToolReportDoes
<1>7. Sending(said, off, id, TRUE, serial, axes, origin) /\ SentFrame(f)
  <2> HIDE DEF said, id, serial, origin
  <2>1. Sending(said, off, id, TRUE, serial, axes, origin)
    BY <1>6, SendDoes
  <2>2. serial # NoSerial
    BY <1>4 DEF NoSerial
  <2> QED
    BY <2>1, <2>2 DEF Sending, SentFrame
<1>8. f \in Frame
  BY <1>7, SentIn
<1>9. on \subseteq Written /\ off \subseteq Written /\ on \subseteq ResetOf(key)
  BY ResetWritten
<1>10. key \notin Written /\ key \notin ExpressKeys /\ key # NoKey /\ key # "BTN_TOOL_FINGER"
  BY <1>4, CodesApart DEF NumberedKeys, Spoken
<1>11. /\ core'.on = (core.on \cup (said \cap Codes)) \ off
       /\ core'.misc = id
  BY <1>4, <1>7 DEF Sending, Kept, Heard, Codes, NoMisc
<1>12. KeyOn'
  BY <1>4, <1>9, <1>10, <1>11 DEF KeyOn
<1>13. Now' = [key |-> key, serial |-> serial, on |-> core'.on]
  BY <1>12 DEF Now
<1>14. /\ core'.on \cap NumberedKeys = {key}
       /\ core'.on \cap Written = ((core.on \cup (on \cap Codes)) \cap Written) \ off
       /\ core'.on \cap Written \subseteq ResetOf(key)
       /\ core'.on \cap ExpressKeys = core.on \cap ExpressKeys
       /\ "BTN_TOOL_FINGER" \in core'.on <=> "BTN_TOOL_FINGER" \in core.on
       /\ core'.on \subseteq Spoken
  <2>1. core.on \cap NumberedKeys \subseteq {key} /\ core.on \cap Written \subseteq ResetOf(key)
    BY SingleFacts
  <2>2. core.on \subseteq Spoken
    BY <1>2 DEF Good, Moments, Now
  <2>3. "BTN_TOOL_FINGER" \notin Written /\ Written \cap NumberedKeys = {} /\ key \in ToolKeys
    BY <1>4, CodesApart DEF NumberedKeys
  <2> HIDE DEF key
  <2>4. core'.on \cap NumberedKeys = {key}
    BY <1>4, <1>9, <1>10, <1>11, <2>1, <2>3
  <2>5. core'.on \cap Written = ((core.on \cup (on \cap Codes)) \cap Written) \ off
    BY <1>9, <1>10, <1>11
  <2>6. core'.on \cap Written \subseteq ResetOf(key)
    BY <1>9, <2>1, <2>5
  <2>7. core'.on \cap ExpressKeys = core.on \cap ExpressKeys
    BY <1>9, <1>10, <1>11, CodesApart
  <2>8. "BTN_TOOL_FINGER" \in core'.on <=> "BTN_TOOL_FINGER" \in core.on
    BY <1>9, <1>10, <1>11, <2>3
  <2>9. core'.on \subseteq Spoken
    BY <1>9, <1>11, <2>2, <2>3 DEF Spoken
  <2> QED
    BY <2>4, <2>5, <2>6, <2>7, <2>8, <2>9
<1> HIDE DEF key, serial, id, origin
<1>15. Good(Now)' /\ Good(Now')
  <2>1. /\ ("BTN_TOOL_FINGER" \in core.on) = PadNear(core.on \cap ExpressKeys)
        /\ core.on \cap ExpressKeys \subseteq PadKeys
    BY <1>2 DEF Good, Now
  <2>2. Now'.key = key /\ Now'.serial = serial /\ Now'.on = core'.on
    BY <1>13
  <2>3. Now' \in Moments
    BY <1>1, <1>4, <1>13, <1>14, MineSerials DEF Moments
  <2> QED
    BY <1>4, <1>10, <1>14, <2>1, <2>2, <2>3 DEF Good, Near, PadNear
<1>16. Unheard(0)' = Unheard(0) /\ Blocked(0)' = Blocked(0)
  BY <1>1 DEF Unheard, Blocked, LensUnsupported
<1>17. KnowsTool' /\ HeedsHand' /\ KeyHeeded' /\ CoreRests' /\ PadsOn'
  BY <1>1, <1>2, <1>12, <1>14, <1>16 DEF KnowsTool, HeedsHand, KeyHeeded, CoreRests, PadsOn
<1>18. PressesHand'
  <2>1. hand.tool[0] # NoTool
    BY <1>2, <1>3 DEF HeedsHand, id
  <2> QED
    BY <1>1, <1>2, <1>14, <2>1 DEF PressesHand
<1>19. Tells(Now, f, Now')
  <2>1. Now.on = core.on
    BY DEF Now
  <2>2. Says(Now, f, Now')
    <3>1. said \cap off = {} /\ Now'.on = core'.on
      BY <1>9, <1>10, <1>13
    <3> HIDE DEF said
    <3> QED
      BY <1>7, <2>1, <3>1, NewsSays
  <2>3. /\ f.on = (said \cap Codes) \ core.on /\ f.off = (off \cap Codes) \cap core.on
        /\ f.serial = serial /\ f.miscFirst = TRUE
        /\ f.misc = (IF id = core.misc THEN NoMisc ELSE id)
    BY DEF News, Report, Heard, Codes
  <2>4. Near(Now) => Now.key = key /\ Now.serial = serial
    <3>1. Near(Now) => KeyOn
      BY DEF Near, Now
    <3> QED
      BY <3>1 DEF Now, key, serial
  <2>5. Agreed => FindDeviceType(id) = KeyType[key]
    BY <1>1, <1>4 DEF Agreed, type
  <2> HIDE DEF f
  <2>6. f.on \subseteq Written \cup {key} /\ f.off \subseteq Written
    BY <1>9, <2>3
  <2>7. Near(Now') /\ Now'.key = key /\ Now'.serial = serial
    BY <1>10, <1>13 DEF Near
  <2>8. f.misc # NoMisc => f.misc # 0 /\ (Agreed => FindDeviceType(f.misc) = KeyType[key])
    BY <1>3, <2>3, <2>5
  <2>9. TellsNear(Now, f, Now')
    BY <2>3, <2>4, <2>6, <2>7, <2>8 DEF TellsNear
  <2> QED
    BY <1>2, <1>15, <2>2, <2>9 DEF Tells
<1> HIDE DEF f
<1>20. Continued
  BY <1>7, <1>8, <1>19 DEF Continued
<1> QED
  BY <1>15, <1>17, <1>18, <1>20 DEF KernelStep, SingleKernel

\* A range report: the tool's key goes on.
LEMMA RangeSingle ==
    ASSUME KernelTyped, KernelTyped', type \in OneTool, SingleKernel,
           NEW slot \in Slots, RangeReport(slot)
    PROVE  KernelStep
<1>1. /\ slot = 0 /\ hand.tool[0] # NoTool /\ "ABS_PRESSURE" \notin hand.pressed[0]
      /\ open /\ ~Unheard(0) /\ SendNear(ToolReport(0, {}, {"ABS_PRESSURE"}, TRUE))
      /\ UNCHANGED <<product, hand, wac, open>>
  BY OneSlot DEF RangeReport
<1>2. PressesHand /\ HeedsHand /\ KnowsTool
  BY DEF SingleKernel
<1>3. core.on \cap Written = hand.pressed[0] \cap Codes
  BY <1>1, <1>2 DEF PressesHand
<1> DEFINE off == {"ABS_PRESSURE"}
           on == {}
<1>4. on \cap off = {} /\ on \subseteq ResetOf(wac.tool[0]) /\ off \subseteq Written
  BY DEF Written, PenSwitches
<1>5. ((core.on \cup (on \cap Codes)) \cap Written) \ off = hand'.pressed[0] \cap Codes
  BY <1>1, <1>3
<1>6. SendNear(ToolReport(0, on, off, TRUE)) /\ TRUE \in BOOLEAN
  BY <1>1
<1>7. hand'.tool = hand.tool /\ hand'.pads = hand.pads
  BY <1>1
<1> HIDE DEF on, off
<1> QED
  BY <1>1, <1>4, <1>5, <1>6, <1>7, NearSent

\* A packet of the tool: what it reports is as the user has it.
LEMMA PacketSingle ==
    ASSUME KernelTyped, KernelTyped', type \in OneTool, SingleKernel,
           NEW slot \in Slots, NEW pressed \in SUBSET SwitchesOf[product],
           NEW axes \in BOOLEAN, NEW ready \in BOOLEAN, ToolPacket(slot, pressed, axes, ready)
    PROVE  KernelStep
<1>1. /\ slot = 0 /\ hand.tool[0] # NoTool /\ hand' = [hand EXCEPT !.pressed[0] = pressed]
      /\ ready \/ (type = "CINTIQ" /\ pressed = hand.pressed[0])
      /\ UNCHANGED <<product, wac, open>>
  BY OneSlot DEF ToolPacket
<1>2. PICK codes \in Packets(ToolKeyOf(hand.tool[0].id)) :
         /\ (pressed \ hand.pressed[0]) \cup (hand.pressed[0] \ pressed) \subseteq codes
         /\ IF ~open \/ Unheard(0) \/ (type = "CINTIQ" /\ ~ready) THEN Ignore
            ELSE LET on == Pressed(wac.tool[0], pressed) \cap codes
                 IN  SendNear(ToolReport(0, on, codes \ on, axes))
  BY <1>1 DEF ToolPacket
<1>3. KnowsTool /\ HeedsHand /\ KeyHeeded /\ CoreRests /\ PressesHand /\ PadsOn /\ Good(Now)
  BY DEF SingleKernel
<1>4. /\ core.on \subseteq Codes /\ product \in Products /\ WacTyped /\ HandTyped
      /\ type' = type /\ Codes' = Codes /\ Mine' = Mine /\ 0 \in Slots
  BY <1>1, SingleFacts, SameTablet DEF Mine, Slots
<1>5. hand'.tool = hand.tool /\ hand'.pressed[0] = pressed /\ hand'.pads = hand.pads
  BY <1>1, <1>4 DEF HandTyped
<1>6. CASE Ignore /\ (Unheard(0) \/ pressed = hand.pressed[0])
  <2>1. UNCHANGED <<core, queue, wac>>
    BY <1>1, <1>6 DEF Ignore
  <2>2. KeyOn' = KeyOn /\ Unheard(0)' = Unheard(0) /\ Blocked(0)' = Blocked(0) /\ Now' = Now
    BY <1>4, <2>1 DEF KeyOn, Unheard, Blocked, LensUnsupported, Now
  <2>3. Good(Now)'
    BY <1>3, <2>2 DEF Good, PadNear
  <2>4. KnowsTool' /\ KeyHeeded' /\ PadsOn' /\ CoreRests' /\ HeedsHand'
    BY <1>1, <1>3, <1>4, <1>5, <2>1, <2>2 DEF KnowsTool, KeyHeeded, PadsOn, CoreRests, HeedsHand
  <2>5. PressesHand'
    BY <1>1, <1>3, <1>4, <1>5, <1>6, <2>1, <2>2 DEF PressesHand
  <2> QED
    BY <2>1, <2>2, <2>3, <2>4, <2>5 DEF KernelStep, SingleKernel, Continued
<1>7. CASE ~(~open \/ Unheard(0) \/ (type = "CINTIQ" /\ ~ready))
  <2> DEFINE on == Pressed(wac.tool[0], pressed) \cap codes
             off == codes \ on
  <2>1. ~Unheard(0) /\ SendNear(ToolReport(0, on, off, axes))
    BY <1>2, <1>7
  <2>2. wac.tool[0] = ToolKeyOf(hand.tool[0].id) /\ wac.tool[0] \in NumberedKeys
    BY <1>3, <2>1, ToolKeyIs DEF HeedsHand, Unheard
  <2>3. codes \subseteq ResetOf(wac.tool[0]) /\ codes \subseteq Written
    BY <1>2, <2>2, PacketsReset, ResetWritten
  <2>4. on = pressed \cap codes
    BY DEF Pressed, OneTool
  <2>5. core.on \cap Written = hand.pressed[0] \cap Codes
    BY <1>3, <2>1 DEF PressesHand
  <2>6. \A x : x \in ((core.on \cup (on \cap Codes)) \cap Written) \ off <=> x \in pressed \cap Codes
    BY <1>2, <1>4, <2>3, <2>4, <2>5
  <2>7. on \cap off = {} /\ on \subseteq ResetOf(wac.tool[0]) /\ off \subseteq Written
    BY <2>3
  <2> HIDE DEF on, off
  <2>8. ((core.on \cup (on \cap Codes)) \cap Written) \ off = hand'.pressed[0] \cap Codes
    BY <1>5, <2>6
  <2> QED
    BY <1>1, <1>5, <2>1, <2>7, <2>8, NearSent
<1>8. CASE ~open \/ Unheard(0) \/ (type = "CINTIQ" /\ ~ready)
  <2>1. ~open => Unheard(0)
    BY <1>3 DEF HeedsHand, Unheard
  <2> QED
    BY <1>1, <1>2, <1>6, <1>8, <2>1
<1> QED
  BY <1>7, <1>8

\* A report of the pad
LEMMA PadSingle ==
    ASSUME KernelTyped, KernelTyped', type \in OneTool, SingleKernel, CarefulUser,
           NEW pads \in SUBSET PadKeys, Pad(pads)
    PROVE  KernelStep
<1> DEFINE on == PadOn(pads)
           off == PadOff(pads)
           misc == PadMisc(pads)
           f == News(on, off, misc, FALSE, PadSerial, FALSE)
<1>1. /\ pads # hand.pads /\ pads \subseteq Codes /\ pads \subseteq ExpressKeys
      /\ UNCHANGED <<product, wac, open>> /\ hand' = [hand EXCEPT !.pads = pads]
  BY PadDoes
<1>2. /\ core.on \subseteq Codes /\ product \in Products /\ WacTyped /\ HandTyped /\ core \in CoreState
      /\ type' = type /\ Codes' = Codes /\ Mine' = Mine /\ 0 \in Slots
  BY <1>1, SingleFacts, SameTablet DEF Mine, Slots
<1>3. hand'.pads = pads /\ hand'.tool = hand.tool /\ hand'.pressed = hand.pressed
  BY <1>1, <1>2 DEF HandTyped
<1>4. open
  BY <1>1, <1>3 DEF CarefulUser
<1>5. Send(Report(on, off, misc, FALSE, PadSerial, FALSE), core.origin)
  BY <1>4, PadDoes
<1>6. Sending(on, off, misc, FALSE, PadSerial, FALSE, core.origin) /\ SentFrame(f)
  <2> DEFINE origin == core.origin
  <2>0. Send(Report(on, off, misc, FALSE, PadSerial, FALSE), origin)
    BY <1>5
  <2> HIDE DEF on, off, misc, origin
  <2>1. Sending(on, off, misc, FALSE, PadSerial, FALSE, origin)
    BY <2>0, SendDoes
  <2>2. SentFrame(f)
    <3>1. PadSerial # NoSerial
      BY DEF PadSerial, NoSerial
    <3> QED
      BY <2>1, <3>1 DEF Sending, SentFrame
  <2> QED
    BY <2>1, <2>2 DEF origin
<1>7. KnowsTool /\ HeedsHand /\ KeyHeeded /\ CoreRests /\ PressesHand /\ PadsOn /\ Good(Now)
  BY DEF SingleKernel
<1>8. f \in Frame
  BY <1>1, <1>6, SentIn
<1>9. /\ on \subseteq PadCodes /\ off \subseteq PadCodes /\ on \cap off = {} /\ on \subseteq Codes
      /\ on \cap ExpressKeys = pads /\ (Codes \cap ExpressKeys) \ pads \subseteq off
      /\ off \cap pads = {}
      /\ "BTN_TOOL_FINGER" \in on <=> PadNear(pads)
      /\ "BTN_TOOL_FINGER" \in off <=> ~PadNear(pads)
      /\ misc \in {0, PAD_DEVICE_ID} /\ misc = (IF PadNear(pads) THEN PAD_DEVICE_ID ELSE 0)
  <2>1. "BTN_TOOL_FINGER" \notin ExpressKeys
    BY CodesApart
  <2> QED
    BY <1>1, <1>2, <2>1, PadWrites DEF PadOn, PadOff, PadMisc, PadCodes
<1>10. /\ core'.on = (core.on \cup on) \ off /\ core'.misc = misc /\ core'.origin = core.origin
  <2>1. on \cap Codes = on
    BY <1>9
  <2>2. misc # NoMisc
    BY <1>9 DEF NoMisc, PAD_DEVICE_ID
  <2> HIDE DEF on, off, misc
  <2> QED
    BY <1>6, <2>1, <2>2 DEF Sending, Kept, Heard, Codes
<1>11. PadCodes \cap NumberedKeys = {} /\ PadCodes \cap Written = {} /\ NoKey \notin PadCodes
       /\ "BTN_TOOL_FINGER" \notin ExpressKeys /\ PadCodes \subseteq Spoken /\ ExpressKeys \subseteq PadCodes
  BY CodesApart DEF PadCodes, NumberedKeys, Spoken
<1>12. core.on \cap ExpressKeys = hand.pads
  BY <1>7 DEF PadsOn
<1> HIDE DEF on, off, misc
<1>13. /\ core'.on \cap NumberedKeys = core.on \cap NumberedKeys
       /\ core'.on \cap Written = core.on \cap Written
       /\ core'.on \cap ExpressKeys = pads
       /\ ("BTN_TOOL_FINGER" \in core'.on) = PadNear(pads)
       /\ NoKey \in core'.on <=> NoKey \in core.on
  <2>1. core'.on \cap NumberedKeys = core.on \cap NumberedKeys
    BY <1>9, <1>10, <1>11
  <2>2. core'.on \cap Written = core.on \cap Written
    BY <1>9, <1>10, <1>11
  <2>3. \A x : x \in core'.on \cap ExpressKeys <=> x \in pads
    BY <1>1, <1>2, <1>9, <1>10
  <2>4. core'.on \cap ExpressKeys = pads
    BY <2>3
  <2>5. ("BTN_TOOL_FINGER" \in core'.on) = PadNear(pads)
    BY <1>9, <1>10 DEF PadNear
  <2>6. NoKey \in core'.on <=> NoKey \in core.on
    BY <1>9, <1>10, <1>11
  <2> QED
    BY <2>1, <2>2, <2>4, <2>5, <2>6
<1>14. KeyOn' = KeyOn
  <2>1. wac.tool[0] \in NumberedKeys \cup {NoKey}
    BY <1>7 DEF KnowsTool
  <2> QED
    BY <1>1, <1>13, <2>1 DEF KeyOn
<1>15. Now' = [key |-> Now.key, serial |-> Now.serial, on |-> core'.on] /\ Now.on = core.on
  BY <1>1, <1>14 DEF Now
<1>16. Good(Now)' /\ Good(Now')
  <2>1. Now'.key = Now.key /\ Now'.serial = Now.serial /\ Now'.on = core'.on
    BY <1>15
  <2>2. core.on \subseteq Spoken /\ Now \in Moments
    BY <1>7, <1>15 DEF Good, Moments
  <2>3. core'.on \subseteq Spoken
    BY <1>9, <1>10, <1>11, <2>2
  <2>4. Now' \in Moments
    BY <1>15, <2>2, <2>3 DEF Moments
  <2> QED
    BY <1>7, <1>13, <1>15, <2>1, <2>4 DEF Good, Near, PadNear
<1>17. Unheard(0)' = Unheard(0) /\ Blocked(0)' = Blocked(0)
  BY <1>1, <1>2 DEF Unheard, Blocked, LensUnsupported
<1>18. KnowsTool' /\ HeedsHand' /\ KeyHeeded' /\ PressesHand' /\ PadsOn'
  BY <1>1, <1>2, <1>3, <1>7, <1>13, <1>14, <1>17
     DEF KnowsTool, HeedsHand, KeyHeeded, PressesHand, PadsOn
<1>19. CoreRests'
  BY <1>3, <1>7, <1>9, <1>10, <1>14 DEF CoreRests, PadNear
<1>20. Tells(Now, f, Now')
  <2>1. Says(Now, f, Now')
    <3>1. Now'.on = core'.on
      BY <1>15
    <3> QED
      BY <1>6, <1>9, <1>15, <3>1, NewsSays
  <2>2. /\ f.on = (on \cap Codes) \ core.on /\ f.off = (off \cap Codes) \cap core.on
        /\ f.serial = PadSerial /\ f.miscFirst = FALSE
        /\ f.misc = (IF misc = core.misc THEN NoMisc ELSE misc)
    BY DEF News, Report, Heard, Codes
  <2>3. f.on \cup f.off # {}
    <3>1. PICK x : (x \in pads /\ x \notin hand.pads) \/ (x \notin pads /\ x \in hand.pads)
      BY <1>1
    <3>2. x \in hand.pads => x \in core.on /\ x \in ExpressKeys /\ x \in Codes
      BY <1>2, <1>12
    <3>3. x \in pads => x \in on /\ x \in ExpressKeys /\ x \in Codes
      BY <1>1, <1>9
    <3> QED
      BY <1>9, <1>12, <2>2, <3>1, <3>2, <3>3
  <2> HIDE DEF f
  <2>4. TellsPads(Now, f, Now')
    <3>1. f.on \subseteq PadCodes /\ f.off \subseteq PadCodes
      BY <1>9, <2>2
    <3>2. Now'.key = Now.key /\ Now'.serial = Now.serial /\ Now'.on = core'.on
      BY <1>15
    <3>3. f.misc # NoMisc => f.misc = IF "BTN_TOOL_FINGER" \in Now'.on THEN PAD_DEVICE_ID ELSE 0
      BY <1>9, <1>13, <2>2, <3>2
    <3> QED
      BY <2>2, <2>3, <3>1, <3>2, <3>3 DEF TellsPads
  <2> QED
    BY <1>7, <1>16, <2>1, <2>4 DEF Tells
<1> HIDE DEF f
<1>21. Continued
  BY <1>6, <1>8, <1>20 DEF Continued
<1> QED
  BY <1>16, <1>18, <1>19, <1>21 DEF KernelStep, SingleKernel

-----------------------------------------------------------------------------
(* Chains of moments.                                                      *)

\* Nothing unread: the reader's moment is now.
LEMMA NoChain ==
    ASSUME NEW a, NEW b, Chain(<<>>, a, b)
    PROVE  a = b
  BY DEF Chain

\* No frame: the moment is the same.
LEMMA ChainStarts ==
    ASSUME NEW a \in Moments
    PROVE  Chain(<<>>, a, a)
<1> DEFINE s == [i \in 1 .. 1 |-> a]
<1>1. Len(<<>>) + 1 = 1
  OBVIOUS
<1>2. s \in [1 .. Len(<<>>) + 1 -> Moments] /\ s[1] = a /\ s[Len(<<>>) + 1] = a
  BY <1>1
<1>3. \A i \in 1 .. Len(<<>>) : Tells(s[i], <<>>[i], s[i + 1])
  OBVIOUS
<1> QED
  BY <1>2, <1>3 DEF Chain

\* A frame sent is one more link.
LEMMA ChainGrows ==
    ASSUME NEW q \in Seq(Frame), NEW a, NEW b, NEW c, NEW f \in Frame, Chain(q, a, b), Tells(b, f, c)
    PROVE  Chain(Append(q, f), a, c)
<1>1. PICK s \in [1 .. Len(q) + 1 -> Moments] :
        /\ s[1] = a /\ s[Len(q) + 1] = b
        /\ \A i \in 1 .. Len(q) : Tells(s[i], q[i], s[i + 1])
  BY DEF Chain
<1> DEFINE n == Len(q)
           r == Append(q, f)
           t == [i \in 1 .. n + 2 |-> IF i = n + 2 THEN c ELSE s[i]]
<1>2. n \in Nat /\ Len(r) = n + 1 /\ r[n + 1] = f /\ \A i \in 1 .. n : r[i] = q[i]
  OBVIOUS
<1>3. c \in Moments
  BY DEF Tells, Good
<1> HIDE DEF n, r
<1>4. t \in [1 .. n + 2 -> Moments]
  BY <1>1, <1>2, <1>3 DEF n
<1>5. t[1] = a /\ t[n + 2] = c
  BY <1>1, <1>2
<1>6. ASSUME NEW i \in 1 .. n + 1
      PROVE  Tells(t[i], r[i], t[i + 1])
  <2>1. CASE i = n + 1
    <3>1. t[i] = b /\ t[i + 1] = c /\ r[i] = f
      BY <1>1, <1>2, <2>1 DEF n
    <3> QED
      BY <3>1
  <2>2. CASE i # n + 1
    <3>1. i \in 1 .. n /\ t[i] = s[i] /\ t[i + 1] = s[i + 1] /\ r[i] = q[i]
      BY <1>2, <2>2
    <3> QED
      BY <1>1, <3>1 DEF n
  <2> QED
    BY <2>1, <2>2
<1>7. Len(r) + 1 = n + 2
  BY <1>2
<1> HIDE DEF t
<1> QED
  BY <1>2, <1>4, <1>5, <1>6, <1>7 DEF Chain, r

\* A frame read is one link less.
LEMMA ChainShrinks ==
    ASSUME NEW q \in Seq(Frame), q # <<>>, NEW a, NEW b, Chain(q, a, b)
    PROVE  \E c \in Moments : Tells(a, Head(q), c) /\ Chain(Tail(q), c, b)
<1>1. PICK s \in [1 .. Len(q) + 1 -> Moments] :
        /\ s[1] = a /\ s[Len(q) + 1] = b
        /\ \A i \in 1 .. Len(q) : Tells(s[i], q[i], s[i + 1])
  BY DEF Chain
<1> DEFINE n == Len(q) - 1
           r == Tail(q)
           t == [i \in 1 .. n + 1 |-> s[i + 1]]
<1>2. n \in Nat /\ Len(q) = n + 1 /\ Len(r) = n /\ Head(q) = q[1] /\ \A i \in 1 .. n : r[i] = q[i + 1]
  OBVIOUS
<1> HIDE DEF n, r
<1>3. t \in [1 .. n + 1 -> Moments]
  BY <1>1, <1>2
<1>4. t[1] = s[2] /\ t[n + 1] = b
  BY <1>1, <1>2
<1>5. ASSUME NEW i \in 1 .. n
      PROVE  Tells(t[i], r[i], t[i + 1])
  <2>1. i + 1 \in 1 .. Len(q) /\ t[i] = s[i + 1] /\ t[i + 1] = s[i + 1 + 1] /\ r[i] = q[i + 1]
    BY <1>2
  <2> QED
    BY <1>1, <2>1
<1>6. Tells(a, Head(q), s[2]) /\ s[2] \in Moments
  <2>1. 1 \in 1 .. Len(q) /\ 2 \in 1 .. Len(q) + 1 /\ 1 + 1 = 2
    BY <1>2
  <2> QED
    BY <1>1, <1>2, <2>1
<1> HIDE DEF t
<1>7. Chain(r, s[2], b)
  BY <1>2, <1>3, <1>4, <1>5 DEF Chain
<1> QED
  BY <1>6, <1>7 DEF r

\* What the kernel does in a step continues the chain.
LEMMA ChainContinues ==
    ASSUME KernelTyped, KernelTyped', UNCHANGED product, Continued, NEW a, Chain(queue, a, Now)
    PROVE  Chain(queue', a, Now')
<1>1. CASE queue' = queue /\ Now' = Now
  BY <1>1
<1>2. CASE \E f \in Frame : SentFrame(f) /\ Tells(Now, f, Now')
  <2>1. PICK f \in Frame : SentFrame(f) /\ Tells(Now, f, Now')
    BY <1>2
  <2>2. queue \in Seq(Frame) /\ queue' = Append(queue, f)
    BY <2>1 DEF KernelTyped, QueueTyped, SentFrame
  <2> DEFINE m == Now
             n == Now'
  <2>3. Chain(queue, a, m) /\ Tells(m, f, n)
    BY <2>1
  <2> HIDE DEF m, n
  <2>4. Chain(Append(queue, f), a, n)
    BY <2>2, <2>3, ChainGrows
  <2> QED
    BY <2>2, <2>4 DEF n
<1> QED
  BY <1>1, <1>2 DEF Continued

-----------------------------------------------------------------------------
(* Buttons and counts.                                                     *)

\* The codes are finitely many.
LEMMA FiniteSpoken ==
    ASSUME NEW S \in SUBSET Spoken
    PROVE  IsFiniteSet(S)
<1> DEFINE seq == <<"ABS_PRESSURE", "BTN_STYLUS", "BTN_STYLUS2", "BTN_LEFT", "BTN_RIGHT",
                    "BTN_MIDDLE", "BTN_SIDE", "BTN_EXTRA", "ABS_Z",
                    "BTN_0", "BTN_1", "BTN_2", "BTN_3", "BTN_4", "BTN_5", "BTN_6", "BTN_7",
                    "BTN_8", "BTN_9", "BTN_A", "BTN_B", "BTN_C", "BTN_X", "BTN_Y", "BTN_Z",
                    "BTN_BASE", "BTN_BASE2", "BTN_BASE3", "KEY_PROG1", "KEY_PROG2", "KEY_PROG3",
                    "BTN_TOOL_PEN", "BTN_TOOL_PENCIL", "BTN_TOOL_BRUSH", "BTN_TOOL_AIRBRUSH",
                    "BTN_TOOL_RUBBER", "BTN_TOOL_MOUSE", "BTN_TOOL_LENS", "BTN_TOOL_FINGER">>
<1>1. \A x \in Spoken : x \in {seq[i] : i \in 1 .. 39}
  BY NumberKeys, ToolKeyList
     DEF Spoken, Written, PenSwitches, PuckButtons, ExpressKeys, LetterKeys, ProgKeys
<1>2. IsFiniteSet(1 .. 39)
  <2>1. 1 \in Int /\ 39 \in Int
    OBVIOUS
  <2>2. IsFiniteSet(1 .. 39)
    BY <2>1, FS_Interval, Zenon
  <2> QED
    BY <2>2
<1> DEFINE T == {seq[i] : i \in 1 .. 39}
           g == [i \in 1 .. 39 |-> seq[i]]
<1>3. g \in Surjection(1 .. 39, T)
  <2> HIDE DEF seq
  <2> QED
    BY DEF Surjection
<1>4. IsFiniteSet(T)
  <2> HIDE DEF g, T
  <2> QED
    BY <1>2, <1>3, FS_Surjection
<1>5. S \subseteq T
  BY <1>1
<1> HIDE DEF T
<1> QED
  BY <1>4, <1>5, FS_Subset

\* A frame with a switch, a serial number and its end has more than two
\* events.
LEMMA FullFrame ==
    ASSUME NEW f \in Frame, f.on \cup f.off \subseteq Spoken, f.serial # NoSerial
    PROVE  /\ f.on \cup f.off # {} => ~(Count(f) <= 2)
           /\ f.on \cup f.off = {} /\ f.misc = NoMisc /\ ~f.axes => Count(f) <= 2
           /\ Count(f) <= 2 => f.on \cup f.off = {} /\ f.misc = NoMisc
<1> DEFINE S == f.on \cup f.off
           n == Cardinality(S)
<1>1. IsFiniteSet(S)
  BY FiniteSpoken
<1>2. n \in Nat /\ (n = 0 <=> S = {})
  <2> HIDE DEF S
  <2> QED
    BY <1>1, FS_CardinalityType, FS_EmptySet
<1>3. f.axes \in BOOLEAN
  BY DEF Frame
<1>4. Count(f) = n + (IF f.misc # NoMisc THEN 1 ELSE 0) + (IF f.axes THEN 1 ELSE 0) + 1 + 1
  BY DEF Count
<1> HIDE DEF n
<1>5. (S # {} => ~(Count(f) <= 2)) /\ (S = {} /\ f.misc = NoMisc /\ ~f.axes => Count(f) <= 2)
  BY <1>2, <1>3, <1>4
<1>6. Count(f) <= 2 => S = {} /\ f.misc = NoMisc
  BY <1>2, <1>3, <1>4
<1> QED
  BY <1>5, <1>6

\* The switches of one kind of tool, and the express keys, are different
\* buttons.
Distinct(codes) ==
    \A x, y \in codes : x \notin Axes /\ y \notin Axes /\ ButtonOf(x) = ButtonOf(y) => x = y

LEMMA ButtonsDiffer ==
    (\A key : Distinct(ResetOf(key))) /\ Distinct(ExpressKeys)
<1>1. ASSUME NEW key, NEW x \in ResetOf(key), NEW y \in ResetOf(key), x \notin Axes, y \notin Axes,
             ButtonOf(x) = ButtonOf(y)
      PROVE  x = y
  <2>0. /\ ButtonOf("BTN_LEFT") = 0 /\ ButtonOf("BTN_MIDDLE") = 1 /\ ButtonOf("BTN_RIGHT") = 2
        /\ ButtonOf("BTN_SIDE") = 3 /\ ButtonOf("BTN_EXTRA") = 4
        /\ ButtonOf("BTN_STYLUS") = 1 /\ ButtonOf("BTN_STYLUS2") = 2
    BY DEF ButtonOf, ProgKeys
  <2>1. CASE key \in {"BTN_TOOL_MOUSE", "BTN_TOOL_LENS"}
    <3>1. x \in PuckButtons /\ y \in PuckButtons
      BY <2>1 DEF ResetOf
    <3> QED
      BY <1>1, <2>0, <3>1 DEF PuckButtons
  <2>2. CASE key \notin {"BTN_TOOL_MOUSE", "BTN_TOOL_LENS"}
    <3>1. x \in {"BTN_STYLUS", "BTN_STYLUS2"} /\ y \in {"BTN_STYLUS", "BTN_STYLUS2"}
      BY <1>1, <2>2 DEF ResetOf, PenSwitches, Axes
    <3> QED
      BY <1>1, <2>0, <3>1
  <2> QED
    BY <2>1, <2>2
<1>2. ASSUME NEW x \in ExpressKeys, NEW y \in ExpressKeys, ButtonOf(x) = ButtonOf(y)
      PROVE  x = y
  <2> DEFINE row == KeysTo(9) \cup LetterKeys \cup {"BTN_BASE3"}
  <2>1. ASSUME NEW s \in row
        PROVE  ButtonOf(s) \in 0 .. 18 /\ PadKeyCodes[ButtonOf(s) + 1] = s
    <3> DEFINE i == CHOOSE j \in DOMAIN PadKeyCodes : PadKeyCodes[j] = s
    <3>1. \E j \in DOMAIN PadKeyCodes : PadKeyCodes[j] = s
      BY NumberKeys DEF PadKeyCodes, LetterKeys
    <3>2. DOMAIN PadKeyCodes = 1 .. 19
      BY DEF PadKeyCodes
    <3>3. i \in 1 .. 19 /\ PadKeyCodes[i] = s
      BY <3>1, <3>2
    <3>4. ButtonOf(s) = i - 1
      BY NumberKeys DEF ButtonOf, LetterKeys, ProgKeys
    <3> HIDE DEF i
    <3>5. ButtonOf(s) + 1 = i
      BY <3>3, <3>4
    <3> QED
      BY <3>3, <3>4, <3>5
  <2>2. CASE x \in row /\ y \in row
    BY <1>2, <2>1, <2>2
  <2>3. \A s \in ProgKeys : ButtonOf(s) \in 27 .. 29
    BY DEF ButtonOf, ProgKeys
  <2>4. CASE x \in ProgKeys /\ y \in ProgKeys
    BY <1>2, <2>4 DEF ButtonOf, ProgKeys
  <2>5. ~(x \in row /\ y \in ProgKeys) /\ ~(x \in ProgKeys /\ y \in row)
    BY <1>2, <2>1, <2>3
  <2> QED
    BY <2>2, <2>4, <2>5 DEF ExpressKeys
<1> QED
  BY <1>1, <1>2 DEF Distinct

\* Buttons that go on and off with their switches
LEMMA ButtonsMove ==
    ASSUME NEW S, NEW A, NEW B, NEW U, S \subseteq U, A \subseteq U, B \subseteq U, Distinct(U)
    PROVE  (ButtonsOf(S) \cup ButtonsOf(A)) \ ButtonsOf(B) = ButtonsOf((S \cup A) \ B)
<1> DEFINE bare(T) == (T \ Axes) \ ToolKeys
<1>1. \A T : ButtonsOf(T) = {ButtonOf(x) : x \in bare(T)}
  BY DEF ButtonsOf
<1>2. ASSUME NEW b
      PROVE  b \in (ButtonsOf(S) \cup ButtonsOf(A)) \ ButtonsOf(B) <=> b \in ButtonsOf((S \cup A) \ B)
  <2>1. ASSUME b \in (ButtonsOf(S) \cup ButtonsOf(A)) \ ButtonsOf(B)
        PROVE  b \in ButtonsOf((S \cup A) \ B)
    <3>1. PICK x \in bare(S) \cup bare(A) : b = ButtonOf(x)
      BY <2>1, <1>1
    <3>2. x \notin B
      BY <2>1, <3>1, <1>1
    <3>3. x \in bare((S \cup A) \ B)
      BY <3>1, <3>2
    <3> QED
      BY <1>1, <3>1, <3>3
  <2>2. ASSUME b \in ButtonsOf((S \cup A) \ B)
        PROVE  b \in (ButtonsOf(S) \cup ButtonsOf(A)) \ ButtonsOf(B)
    <3>1. PICK x \in bare((S \cup A) \ B) : b = ButtonOf(x)
      BY <2>2, <1>1
    <3>2. b \in ButtonsOf(S) \cup ButtonsOf(A)
      BY <1>1, <3>1
    <3>3. ASSUME b \in ButtonsOf(B)
          PROVE  FALSE
      <4>1. PICK y \in bare(B) : b = ButtonOf(y)
        BY <1>1, <3>3
      <4>2. x = y
        BY <3>1, <4>1 DEF Distinct
      <4> QED
        BY <3>1, <4>1, <4>2
    <3> QED
      BY <3>2, <3>3
  <2> QED
    BY <2>1, <2>2
<1> QED
  BY <1>2

\* A tool's key is no button.
LEMMA KeyNoButton ==
    ASSUME NEW A, NEW K, K \subseteq ToolKeys
    PROVE  ButtonsOf(A \cup K) = ButtonsOf(A) /\ ButtonsOf(A \ K) = ButtonsOf(A)
  BY DEF ButtonsOf

-----------------------------------------------------------------------------
(* One tool at a time: what a frame leaves in its channel.                 *)

\* State p has the type and proximity of frame f read in state w.
Reads(p, w, f) ==
    \E v \in WorkState :
      /\ v.type = w.type /\ v.proximity = w.proximity
      /\ p = Retyped(IF f.miscFirst THEN ParseToolKey(ParseMisc(v, f), f)
                     ELSE ParseMisc(ParseToolKey(v, f), f))

\* The switches and the serial number of a frame, and what its key and its id
\* are taken from
LEMMA ParsedKeeps ==
    ASSUME NEW w \in WorkState, NEW f, WellMade(f), core \in CoreState, NEW serial \in Int,
           NEW p, p = Parsed(w, f, serial)
    PROVE  /\ p.serial = serial
           /\ p.buttons = (w.buttons \cup ButtonsOf(f.on)) \ ButtonsOf(f.off)
           /\ p.axes = (w.axes \cup (f.on \cap Axes)) \ f.off
           /\ Reads(p, w, f)
<1> DEFINE u == [w EXCEPT !.serial = serial]
           v == ParseSwitches(u, f)
           buttons == (w.buttons \cup ButtonsOf(f.on)) \ ButtonsOf(f.off)
           axes == (w.axes \cup (f.on \cap Axes)) \ f.off
<1>1. /\ u \in WorkState /\ f.misc \in Nat \cup {NoMisc} /\ u.buttons = w.buttons /\ u.axes = w.axes
      /\ u.serial = serial /\ u.type = w.type /\ u.proximity = w.proximity
  BY DEF WorkState, WellMade, Frame
<1>2. v = [u EXCEPT !.buttons = buttons, !.axes = axes]
  BY <1>1 DEF ParseSwitches
<1>3. p = Retyped(IF f.miscFirst THEN ParseToolKey(ParseMisc(v, f), f)
                  ELSE ParseMisc(ParseToolKey(v, f), f))
  BY DEF Parsed
<1> HIDE DEF u
<1>4. v \in WorkState
  BY <1>1, SwitchesTyped
<1> HIDE DEF buttons, axes, v
<1>5. v.type = w.type /\ v.proximity = w.proximity /\ v.serial = serial /\ v.buttons = buttons /\ v.axes = axes
  BY <1>1, <1>2 DEF WorkState
<1>6. ASSUME NEW x \in WorkState
      PROVE  /\ ParseToolKey(x, f).serial = x.serial /\ ParseToolKey(x, f).buttons = x.buttons
             /\ ParseToolKey(x, f).axes = x.axes
             /\ ParseMisc(x, f).serial = x.serial /\ ParseMisc(x, f).buttons = x.buttons
             /\ ParseMisc(x, f).axes = x.axes
             /\ Retyped(x).serial = x.serial /\ Retyped(x).buttons = x.buttons /\ Retyped(x).axes = x.axes
  <2>1. /\ ParseToolKey(x, f).serial = x.serial /\ ParseToolKey(x, f).buttons = x.buttons
        /\ ParseToolKey(x, f).axes = x.axes
    BY DEF ParseToolKey, WorkState
  <2>2. /\ ParseMisc(x, f).serial = x.serial /\ ParseMisc(x, f).buttons = x.buttons
        /\ ParseMisc(x, f).axes = x.axes
    BY DEF ParseMisc, WorkState
  <2>3. Retyped(x).serial = x.serial /\ Retyped(x).buttons = x.buttons /\ Retyped(x).axes = x.axes
    BY DEF Retyped, WorkState
  <2> QED
    BY <2>1, <2>2, <2>3
<1> DEFINE y1 == ParseMisc(v, f)
           y2 == ParseToolKey(v, f)
<1>7. y1 \in WorkState /\ y2 \in WorkState
  BY <1>1, <1>4, MiscTyped, ToolKeyTyped
<1>8. /\ y1.serial = serial /\ y1.buttons = buttons /\ y1.axes = axes
      /\ y2.serial = serial /\ y2.buttons = buttons /\ y2.axes = axes
  BY <1>4, <1>5, <1>6
<1> HIDE DEF y1, y2
<1> DEFINE z1 == ParseToolKey(y1, f)
           z2 == ParseMisc(y2, f)
<1>9. z1 \in WorkState /\ z2 \in WorkState
  BY <1>1, <1>7, MiscTyped, ToolKeyTyped
<1>10. /\ z1.serial = serial /\ z1.buttons = buttons /\ z1.axes = axes
       /\ z2.serial = serial /\ z2.buttons = buttons /\ z2.axes = axes
  BY <1>6, <1>7, <1>8
<1>11. p = Retyped(IF f.miscFirst THEN z1 ELSE z2)
  BY <1>3 DEF y1, y2
<1> HIDE DEF z1, z2
<1>12. p.serial = serial /\ p.buttons = buttons /\ p.axes = axes
  <2>1. CASE f.miscFirst
    <3>1. p = Retyped(z1)
      BY <1>11, <2>1
    <3> QED
      BY <1>6, <1>9, <1>10, <3>1
  <2>2. CASE ~f.miscFirst
    <3>1. p = Retyped(z2)
      BY <1>11, <2>2
    <3> QED
      BY <1>6, <1>9, <1>10, <3>1
  <2> QED
    BY <2>1, <2>2
<1>13. Reads(p, w, f)
  BY <1>3, <1>4, <1>5 DEF Reads
<1> QED
  BY <1>12, <1>13 DEF buttons, axes

\* Of all the tools, a frame's keys can only be one's.
KeyFits(w, f, key) ==
    /\ w \in WorkState /\ key \in ToolKeys
    /\ (f.on \cup f.off) \cap ToolKeys \subseteq {key}

\* The state p is w with that key of the frame in it.
Keyed(p, w, f, key) ==
    /\ p \in WorkState
    /\ key \in f.on => p.type = KeyType[key] /\ p.proximity = TRUE
    /\ key \in f.off /\ key \notin f.on => p.type = KeyType[key] /\ p.proximity = FALSE
    /\ key \notin f.on \cup f.off => p.type = w.type /\ p.proximity = w.proximity

\* The key of a tool in a frame
LEMMA KeyParsed ==
    ASSUME NEW w, NEW f, NEW key, KeyFits(w, f, key), NEW p, p = ParseToolKey(w, f)
    PROVE  Keyed(p, w, f, key)
<1> USE DEF KeyFits, Keyed
<1> DEFINE keys == (f.on \cup f.off) \cap ToolKeys
<1>1. p \in WorkState
  BY ToolKeyTyped
<1>2. CASE key \notin f.on \cup f.off
  <2>1. keys = {}
    BY <1>2
  <2>2. p = w
    BY <2>1 DEF ParseToolKey
  <2> QED
    BY <1>1, <1>2, <2>2
<1>3. CASE key \in f.on \cup f.off
  <2>1. keys = {key}
    BY <1>3
  <2>2. (CHOOSE k \in keys : TRUE) = key
    BY <2>1
  <2> DEFINE t == KeyType[key]
             near == key \in f.on
             id == IF ProtocolLevel[product] = 4 \/ t = "PAD" THEN ProtocolId(t) ELSE w.id
  <2>3. p = [w EXCEPT !.type = t, !.proximity = near, !.id = id]
    BY <2>1, <2>2 DEF ParseToolKey
  <2> HIDE DEF t, id
  <2>4. p.type = t /\ (p.proximity <=> key \in f.on)
    BY <2>3 DEF WorkState
  <2>5. p.proximity \in BOOLEAN
    BY <1>1 DEF WorkState
  <2> QED
    BY <1>1, <1>3, <2>4, <2>5 DEF t
<1> QED
  BY <1>2, <1>3

\* The id of a tool in a frame
LEMMA MiscParsed ==
    ASSUME NEW w \in WorkState, NEW f, f.misc \in Nat \cup {NoMisc}, NEW p, p = ParseMisc(w, f)
    PROVE  /\ p \in WorkState
           /\ f.misc = NoMisc => p = w
           /\ f.misc = 0 => p.type = w.type /\ p.proximity = FALSE
           /\ f.misc \notin {0, NoMisc} => p.type = FindDeviceType(f.misc) /\ p.proximity = TRUE
<1>1. p \in WorkState
  BY MiscTyped
<1>2. f.misc = 0 => p.type = w.type /\ p.proximity = FALSE
  BY DEF ParseMisc, WorkState, NoMisc
<1>3. f.misc \notin {0, NoMisc} => p.type = FindDeviceType(f.misc) /\ p.proximity = TRUE
  BY DEF ParseMisc, WorkState, NoMisc
<1>4. f.misc = NoMisc => p = w
  BY DEF ParseMisc
<1> QED
  BY <1>1, <1>2, <1>3, <1>4

\* A state with a type is not retyped; one in proximity stays there.
LEMMA RetypedKeeps ==
    ASSUME NEW w \in WorkState
    PROVE  /\ w.type # NoType => Retyped(w) = w
           /\ w.proximity => Retyped(w).proximity = TRUE
  BY DEF Retyped, WorkState

\* What comes through to the tablet's devices
LEMMA AfterDoes ==
    ASSUME NEW chan \in ChanState, NEW after \in After(chan)
    PROVE  /\ after.work = chan.work
           /\ Counted(chan) => after.valid = chan.valid
           /\ ~Counted(chan) =>
                \/ /\ after.valid = chan.work
                   /\ after.nSamples = IF chan.work.proximity THEN chan.nSamples ELSE 0
                \/ /\ after = chan /\ chan.valid.proximity /\ chan.work.proximity
                   /\ chan.work.buttons = chan.valid.buttons /\ chan.work.axes = chan.valid.axes
<1>1. CASE Counted(chan)
  <2>1. after = [chan EXCEPT !.nSamples = chan.nSamples + 1]
    BY <1>1 DEF After
  <2> QED
    BY <1>1, <2>1 DEF ChanState
<1>2. CASE ~Counted(chan)
  <2> DEFINE n == IF chan.work.proximity THEN chan.nSamples ELSE 0
  <2>1. \/ after = [chan EXCEPT !.valid = chan.work, !.nSamples = n]
        \/ /\ after = chan /\ chan.valid.proximity /\ chan.work.proximity
           /\ chan.work.buttons = chan.valid.buttons /\ chan.work.axes = chan.valid.axes
    BY <1>2 DEF After
  <2> HIDE DEF n
  <2>2. after.work = chan.work /\ (after = chan \/ (after.valid = chan.work /\ after.nSamples = n))
    BY <2>1 DEF ChanState
  <2>3. \/ after.valid = chan.work /\ after.nSamples = n
        \/ /\ after = chan /\ chan.valid.proximity /\ chan.work.proximity
           /\ chan.work.buttons = chan.valid.buttons /\ chan.work.axes = chan.valid.axes
    BY <2>1 DEF ChanState
  <2> QED
    BY <1>2, <2>2, <2>3 DEF n
<1> QED
  BY <1>1, <1>2

\* The tablets without an eraser follow a pen without serial number.
LEMMA ErasersPass ==
    ASSUME product \in Products, type \in OneTool
    PROVE  product \notin {\hC0, \hC2}
<1>1. product \in ProductIds /\ product \in ProductsOf[type]
  BY TypeLists, ReportsAssumption DEF type
<1> QED
  BY <1>1 DEF ProductsOf, OneTool, IntuosTypes, Intuos3, Intuos4, Intuos5, Displays

\* The key of a tool says neither pad nor finger.
LEMMA ToolKeyType ==
    ASSUME NEW key \in NumberedKeys
    PROVE  KeyType[key] \in {"STYLUS", "ERASER", "CURSOR"}
<1>1. key \in ToolKeys /\ key # "BTN_TOOL_FINGER"
  BY DEF NumberedKeys
<1>2. PICK i \in DOMAIN TypeToKey : TypeToKey[i][2] = key
  BY <1>1 DEF ToolKeys
<1>3. \A j \in DOMAIN TypeToKey :
        TypeToKey[j][2] # "BTN_TOOL_FINGER" => TypeToKey[j][1] \in {"STYLUS", "ERASER", "CURSOR"}
  BY DEF TypeToKey
<1> QED
  BY <1>1, <1>2, <1>3 DEF KeyType

\* The pad's key says pad.
LEMMA PadKeyType == KeyType["BTN_TOOL_FINGER"] = "PAD"
<1>1. "BTN_TOOL_FINGER" \in ToolKeys
  BY ToolKeyList
<1>2. \E i \in DOMAIN TypeToKey : TypeToKey[i][2] = "BTN_TOOL_FINGER"
  BY <1>1 DEF ToolKeys
<1>3. \A j \in DOMAIN TypeToKey : TypeToKey[j][2] = "BTN_TOOL_FINGER" => TypeToKey[j][1] = "PAD"
  BY DEF TypeToKey
<1> QED
  BY <1>1, <1>2, <1>3 DEF KeyType

\* A frame of a tool that is near
LEMMA NearParsed ==
    ASSUME NEW w \in WorkState, w.proximity, NEW f, WellMade(f), core \in CoreState, NEW serial \in Int,
           NEW p, p = Parsed(w, f, serial), p \in WorkState, NEW m, NEW n, Tells(m, f, n), TellsNear(m, f, n),
           Agreed => w.type = KeyType[n.key] \/ n.key \in f.on
    PROVE  p.proximity /\ (Agreed => p.type = KeyType[n.key])
<1> DEFINE key == n.key
<1>1. /\ key \in NumberedKeys /\ key \in ToolKeys /\ f.on \subseteq Written \cup {key} /\ f.off \subseteq Written
      /\ f.miscFirst /\ f.misc \in Nat \cup {NoMisc}
      /\ f.misc # NoMisc => f.misc # 0 /\ (Agreed => FindDeviceType(f.misc) = KeyType[key])
  BY DEF Tells, Good, Moments, TellsNear, Near, NumberedKeys, WellMade, Frame
<1> HIDE DEF key
<1>2. (f.on \cup f.off) \cap ToolKeys \subseteq {key} /\ key \notin f.off
  BY <1>1, CodesApart
<1>0. Reads(p, w, f)
  BY ParsedKeeps
<1>3. PICK v \in WorkState : /\ v.type = w.type /\ v.proximity = w.proximity
                             /\ p = Retyped(ParseToolKey(ParseMisc(v, f), f))
  BY <1>0, <1>1 DEF Reads
<1> DEFINE y == ParseMisc(v, f)
           z == ParseToolKey(y, f)
<1>4. /\ y \in WorkState /\ f.misc = NoMisc => y = v
      /\ f.misc # NoMisc => y.type = FindDeviceType(f.misc) /\ y.proximity = TRUE
  BY <1>1, MiscParsed
<1>5. y \in WorkState
  BY <1>1, MiscParsed
<1> HIDE DEF y
<1>6. /\ z \in WorkState
      /\ key \in f.on => z.type = KeyType[key] /\ z.proximity = TRUE
      /\ key \notin f.on \cup f.off => z.type = y.type /\ z.proximity = y.proximity
  <2>1. KeyFits(y, f, key)
    BY <1>1, <1>2, <1>5 DEF KeyFits
  <2>2. Keyed(z, y, f, key)
    BY ONLY <2>1, KeyParsed
  <2> QED
    BY <2>2 DEF Keyed
<1>7. p = Retyped(z)
  BY <1>3 DEF y
<1> HIDE DEF z
<1>8. z.proximity
  BY <1>1, <1>2, <1>3, <1>4, <1>5, <1>6
<1>9. Agreed => z.type = KeyType[key]
  <2>1. w.type = KeyType[key] \/ key \in f.on \/ ~Agreed
    BY DEF key
  <2> QED
    BY <1>1, <1>2, <1>3, <1>4, <1>5, <1>6, <2>1
<1>10. KeyType[key] # NoType
  BY <1>1, ToolKeyType DEF NoType
<1>11. p.proximity = TRUE
  BY <1>6, <1>7, <1>8, RetypedKeeps
<1>12. Agreed => p.type = KeyType[key]
  <2>1. z.type # NoType => p = z
    BY <1>6, <1>7, RetypedKeeps
  <2> QED
    BY <1>9, <1>10, <2>1
<1> QED
  BY <1>11, <1>12 DEF key

\* A frame of a tool that leaves
LEMMA AwayParsed ==
    ASSUME NEW w \in WorkState, NEW f, WellMade(f), core \in CoreState, NEW serial \in Int,
           NEW p, p = Parsed(w, f, serial), NEW m, NEW n, Tells(m, f, n), TellsAway(m, f, n)
    PROVE  ~p.proximity /\ p.type = KeyType[m.key]
<1> DEFINE key == m.key
<1>1. /\ key \in NumberedKeys /\ key \in ToolKeys /\ f.on = {} /\ key \in f.off
      /\ f.off \subseteq Written \cup {key} /\ ~f.miscFirst /\ f.misc \in {0, NoMisc}
      /\ f.misc \in Nat \cup {NoMisc}
  BY DEF Tells, Good, Moments, TellsAway, Near, NumberedKeys, WellMade, Frame
<1> HIDE DEF key
<1>2. (f.on \cup f.off) \cap ToolKeys \subseteq {key} /\ key \notin f.on
  BY <1>1, CodesApart
<1>0. Reads(p, w, f)
  BY ParsedKeeps
<1>3. PICK v \in WorkState : p = Retyped(ParseMisc(ParseToolKey(v, f), f))
  BY <1>0, <1>1 DEF Reads
<1> DEFINE y == ParseToolKey(v, f)
           z == ParseMisc(y, f)
<1>4. /\ y \in WorkState
      /\ key \in f.off /\ key \notin f.on => y.type = KeyType[key] /\ y.proximity = FALSE
  <2>1. KeyFits(v, f, key)
    BY <1>1, <1>2, <1>3 DEF KeyFits
  <2>2. Keyed(y, v, f, key)
    BY ONLY <2>1, KeyParsed
  <2> QED
    BY <2>2 DEF Keyed
<1> HIDE DEF y
<1>5. z.type = KeyType[key] /\ z.proximity = FALSE /\ z \in WorkState
  <2>0. y \in WorkState /\ f.misc \in Nat \cup {NoMisc}
    BY <1>1, <1>4
  <2>1. /\ z \in WorkState /\ (f.misc = NoMisc => z = y) /\ (f.misc = 0 => z.type = y.type /\ z.proximity = FALSE)
        /\ f.misc \notin {0, NoMisc} => z.type = FindDeviceType(f.misc) /\ z.proximity = TRUE
    <3> DEFINE r == ParseMisc(y, f)
    <3>1. /\ r \in WorkState
          /\ f.misc = NoMisc => r = y
          /\ f.misc = 0 => r.type = y.type /\ r.proximity = FALSE
          /\ f.misc \notin {0, NoMisc} => r.type = FindDeviceType(f.misc) /\ r.proximity = TRUE
      <4> HIDE DEF z
      <4> QED
        BY <2>0, MiscParsed
    <3> QED
      BY <3>1
  <2> QED
    BY <1>1, <1>4, <2>1
<1>6. p = Retyped(z)
  BY <1>3 DEF y
<1> HIDE DEF z
<1>7. z.type # NoType
  BY <1>1, <1>5, ToolKeyType DEF NoType
<1>8. p = z
  BY <1>5, <1>6, <1>7, RetypedKeeps
<1> QED
  BY <1>5, <1>8 DEF key

\* A frame of the express keys
LEMMA PadsParsed ==
    ASSUME NEW w \in WorkState, w.proximity, NEW f, WellMade(f), core \in CoreState, NEW serial \in Int,
           NEW p, p = Parsed(w, f, serial), p \in WorkState, NEW m, NEW n, Tells(m, f, n), TellsPads(m, f, n),
           PadsLookedAt, "BTN_TOOL_FINGER" \in m.on => w.type = "PAD"
    PROVE  (p.proximity <=> "BTN_TOOL_FINGER" \in n.on) /\ p.type = "PAD"
<1> DEFINE finger == "BTN_TOOL_FINGER"
<1>1. /\ f.on \subseteq PadCodes /\ f.off \subseteq PadCodes /\ f.on \cup f.off # {} /\ ~f.miscFirst
      /\ f.misc # NoMisc => f.misc = (IF finger \in n.on THEN PAD_DEVICE_ID ELSE 0)
      /\ f.misc \in Nat \cup {NoMisc} /\ Says(m, f, n) /\ Good(m) /\ Good(n)
  BY DEF Tells, TellsPads, WellMade, Frame
<1>2. finger \in ToolKeys /\ (f.on \cup f.off) \cap ToolKeys \subseteq {finger}
  BY <1>1, CodesApart DEF PadCodes
<1>3. KeyType[finger] = "PAD"
  BY PadKeyType
<1>4. \/ finger \in m.on /\ finger \in n.on /\ finger \notin f.on \cup f.off
      \/ finger \in f.on /\ finger \notin f.off /\ finger \in n.on
      \/ finger \in f.off /\ finger \notin f.on /\ finger \notin n.on
  <2>1. CASE finger \in m.on \/ finger \in n.on
    BY <1>1, <2>1 DEF Says
  <2>2. CASE finger \notin m.on /\ finger \notin n.on
    <3>1. ASSUME NEW x, Good(x), finger \notin x.on
          PROVE  x.on \cap ExpressKeys = {}
      BY <3>1 DEF Good, PadNear, PadsLookedAt
    <3>2. m.on \cap ExpressKeys = {} /\ n.on \cap ExpressKeys = {}
      BY <1>1, <2>2, <3>1
    <3>3. f.on \subseteq n.on /\ f.off \subseteq m.on
      BY <1>1 DEF Says
    <3>4. f.on = {} /\ f.off = {}
      BY <1>1, <2>2, <3>2, <3>3 DEF PadCodes
    <3> QED
      BY <1>1, <3>4
  <2> QED
    BY <2>1, <2>2
<1>0. Reads(p, w, f)
  BY ParsedKeeps
<1>5. PICK v \in WorkState : /\ v.type = w.type /\ v.proximity = w.proximity
                             /\ p = Retyped(ParseMisc(ParseToolKey(v, f), f))
  BY <1>0, <1>1 DEF Reads
<1> DEFINE y == ParseToolKey(v, f)
           z == ParseMisc(y, f)
<1> HIDE DEF finger
<1>6. /\ y \in WorkState
      /\ finger \in f.on => y.type = KeyType[finger] /\ y.proximity = TRUE
      /\ finger \in f.off /\ finger \notin f.on => y.type = KeyType[finger] /\ y.proximity = FALSE
      /\ finger \notin f.on \cup f.off => y.type = v.type /\ y.proximity = v.proximity
  <2>1. KeyFits(v, f, finger)
    BY <1>2 DEF KeyFits
  <2>2. Keyed(y, v, f, finger)
    BY ONLY <2>1, KeyParsed
  <2> QED
    BY <2>2 DEF Keyed
<1>7. y.type = "PAD" /\ (y.proximity <=> finger \in n.on)
  <2>1. finger \in m.on => v.type = "PAD"
    BY <1>5 DEF finger
  <2> QED
    BY <1>3, <1>4, <1>5, <1>6, <2>1
<1> HIDE DEF y
<1>8. z \in WorkState /\ z.type = "PAD" /\ (z.proximity <=> finger \in n.on)
  <2>1. /\ z \in WorkState /\ (f.misc = NoMisc => z = y) /\ (f.misc = 0 => z.type = y.type /\ z.proximity = FALSE)
        /\ f.misc \notin {0, NoMisc} => z.type = FindDeviceType(f.misc) /\ z.proximity = TRUE
    BY <1>1, <1>6, MiscParsed
  <2>2. FindDeviceType(PAD_DEVICE_ID) = "PAD" /\ PAD_DEVICE_ID # 0
    BY DEF FindDeviceType, PAD_DEVICE_ID, STYLUS_DEVICE_ID, ERASER_DEVICE_ID, CURSOR_DEVICE_ID, TOUCH_DEVICE_ID
  <2>3. CASE f.misc = NoMisc
    BY <1>7, <2>1, <2>3
  <2>4. CASE f.misc # NoMisc /\ finger \in n.on
    BY <1>1, <2>1, <2>2, <2>4 DEF finger
  <2>5. CASE f.misc # NoMisc /\ finger \notin n.on
    BY <1>1, <1>7, <2>1, <2>5 DEF finger
  <2> QED
    BY <2>1, <2>3, <2>4, <2>5
<1>9. p = Retyped(z)
  BY <1>5 DEF y
<1> HIDE DEF z
<1>10. p = z
  BY <1>8, <1>9, RetypedKeeps DEF NoType
<1> QED
  BY <1>8, <1>10 DEF finger

\* The buttons and axes of a tool that is near follow its switches.
LEMMA ToolMoves ==
    ASSUME NEW f, NEW m, NEW n, Tells(m, f, n), TellsNear(m, f, n)
    PROVE  /\ (ButtonsOf(m.on \cap Written) \cup ButtonsOf(f.on)) \ ButtonsOf(f.off) = ButtonsOf(n.on \cap Written)
           /\ ((m.on \cap Axes) \cup (f.on \cap Axes)) \ f.off = n.on \cap Axes
           /\ ~Near(m) => m.on \cap Written = {} /\ m.on \cap Axes = {} /\ n.key \in f.on
<1> DEFINE S == m.on \cap Written
           A == f.on \cap Written
           B == f.off
           U == ResetOf(n.key)
<1>1. /\ Good(m) /\ Good(n) /\ Near(n) /\ (Near(m) => m.key = n.key)
      /\ n.on = (m.on \cup f.on) \ f.off /\ f.off \subseteq m.on /\ f.on \cap f.off = {}
      /\ f.on \subseteq Written \cup {n.key} /\ f.off \subseteq Written
  BY DEF Tells, TellsNear, Says
<1>2. n.key \in ToolKeys /\ n.key \in NumberedKeys /\ n.key \in n.on
  BY <1>1 DEF Good, Moments, Near, NumberedKeys
<1>3. n.on \cap Written \subseteq U /\ S \subseteq U
  BY <1>1 DEF Good
<1>4. A \subseteq U /\ B \subseteq U
  BY <1>1, <1>3
<1>5. (S \cup A) \ B = n.on \cap Written
  BY <1>1
<1>6. ButtonsOf(f.on) = ButtonsOf(A)
  <2> DEFINE K == f.on \cap {n.key}
  <2>1. f.on = A \cup K /\ K \subseteq ToolKeys
    BY <1>1, <1>2
  <2> HIDE DEF A, K
  <2> QED
    BY <2>1, KeyNoButton
<1>7. Distinct(U)
  BY ButtonsDiffer
<1>8. (ButtonsOf(S) \cup ButtonsOf(A)) \ ButtonsOf(B) = ButtonsOf((S \cup A) \ B)
  <2> HIDE DEF S, A, B, U
  <2> QED
    BY <1>3, <1>4, <1>7, ButtonsMove
<1>9. (ButtonsOf(m.on \cap Written) \cup ButtonsOf(f.on)) \ ButtonsOf(f.off) = ButtonsOf(n.on \cap Written)
  BY <1>5, <1>6, <1>8
<1>10. ~Near(m) => m.on \cap Written = {} /\ m.on \cap Axes = {} /\ n.key \in f.on
  <2>1. Axes \subseteq Written
    BY DEF Axes, Written, PenSwitches
  <2>2. ~Near(m) => n.key \notin m.on
    BY <1>1, <1>2 DEF Good, Near
  <2> QED
    BY <1>1, <1>2, <2>1, <2>2 DEF Good
<1> QED
  BY <1>1, <1>9, <1>10

\* The pad's buttons follow the keys.
LEMMA PadMoves ==
    ASSUME NEW f, NEW m, NEW n, Tells(m, f, n), TellsPads(m, f, n)
    PROVE  (ButtonsOf(m.on \cap ExpressKeys) \cup ButtonsOf(f.on)) \ ButtonsOf(f.off)
               = ButtonsOf(n.on \cap ExpressKeys)
<1> DEFINE S == m.on \cap ExpressKeys
           A == f.on \cap ExpressKeys
           B == f.off \cap ExpressKeys
<1>1. /\ n.on = (m.on \cup f.on) \ f.off /\ f.on \subseteq PadCodes /\ f.off \subseteq PadCodes
  BY DEF Tells, TellsPads, Says
<1>2. (S \cup A) \ B = n.on \cap ExpressKeys
  BY <1>1
<1>3. ButtonsOf(f.on) = ButtonsOf(A) /\ ButtonsOf(f.off) = ButtonsOf(B)
  <2> DEFINE K == f.on \cap {"BTN_TOOL_FINGER"}
             L == f.off \cap {"BTN_TOOL_FINGER"}
  <2>1. f.on = A \cup K /\ K \subseteq ToolKeys /\ f.off = B \cup L /\ L \subseteq ToolKeys
    BY <1>1, CodesApart DEF PadCodes
  <2> HIDE DEF A, B, K, L
  <2> QED
    BY <2>1, KeyNoButton
<1>4. Distinct(ExpressKeys)
  BY ButtonsDiffer
<1>5. S \subseteq ExpressKeys /\ A \subseteq ExpressKeys /\ B \subseteq ExpressKeys
  OBVIOUS
<1>6. (ButtonsOf(S) \cup ButtonsOf(A)) \ ButtonsOf(B) = ButtonsOf((S \cup A) \ B)
  <2> HIDE DEF S, A, B
  <2> QED
    BY <1>4, <1>5, ButtonsMove
<1> QED
  BY <1>2, <1>3, <1>6

\* What a frame of the tool leaves in its channel
LEMMA ToolShown ==
    ASSUME NEW c \in ChanState, NEW f, WellMade(f), core \in CoreState, NEW m, NEW n, ShowsTool(c, m),
           Tells(m, f, n), TellsNear(m, f, n) \/ TellsAway(m, f, n),
           NEW p, p = Parsed(Opened(c).work, f, f.serial), p \in WorkState,
           NEW after \in After([Opened(c) EXCEPT !.work = p])
    PROVE  ShowsTool(after, n)
<1> DEFINE o == Opened(c)
           w == o.work
           chan == [o EXCEPT !.work = p]
<1>1. o \in ChanState /\ w.proximity = TRUE /\ (c.work.proximity => o = c)
  BY OpenedTyped
<1>2. ~c.work.proximity => o = [BlankChannel EXCEPT !.work.proximity = TRUE]
  BY DEF Opened
<1>3. ~c.work.proximity => /\ o.valid = Blank /\ w.buttons = {} /\ w.axes = {} /\ o.nSamples = 0
  BY <1>2 DEF BlankChannel, Blank
<1> HIDE DEF o
<1>4. chan \in ChanState /\ chan.work = p /\ chan.valid = o.valid /\ chan.nSamples = o.nSamples
  BY <1>1 DEF ChanState
<1>5. w \in WorkState /\ f.serial \in Int /\ c.work \in WorkState
  BY <1>1 DEF ChanState, WellMade, Frame
<1>6. p = Parsed(w, f, f.serial) /\ after \in After(chan)
  BY DEF o
<1> HIDE DEF chan, w
<1>7. /\ p.serial = f.serial
      /\ p.buttons = (w.buttons \cup ButtonsOf(f.on)) \ ButtonsOf(f.off)
      /\ p.axes = (w.axes \cup (f.on \cap Axes)) \ f.off
  BY <1>5, <1>6, ParsedKeeps
<1>8. /\ after.work = p
      /\ Counted(chan) => after.valid = o.valid
      /\ ~Counted(chan) =>
                \/ /\ after.valid = p
                   /\ after.nSamples = IF p.proximity THEN o.nSamples ELSE 0
                \/ /\ after = chan /\ o.valid.proximity /\ p.proximity
                   /\ p.buttons = o.valid.buttons /\ p.axes = o.valid.axes
  BY <1>4, <1>6, AfterDoes
<1>9. after.work = p /\ (after.valid = o.valid \/ after.valid = p)
  BY <1>4, <1>8
<1>10. /\ c.work.proximity = Near(m)
       /\ Near(m) => /\ c.work.serial = m.serial /\ c.work.buttons = ButtonsOf(m.on \cap Written)
                     /\ c.work.axes = m.on \cap Axes /\ (Agreed => c.work.type = KeyType[m.key])
       /\ c.valid.serial \in Serials \cup {0}
       /\ Agreed => /\ c.valid.proximity =>
                          /\ c.work.proximity /\ c.valid.type = c.work.type /\ c.valid.serial = c.work.serial
                          /\ c.valid.buttons = c.work.buttons /\ c.valid.axes = c.work.axes
                    /\ c.nSamples < 2 => ~c.valid.proximity
  BY DEF ShowsTool
<1>11. Near(m) => o = c /\ w = c.work
  BY <1>1, <1>10 DEF w
<1>12. ~Near(m) => /\ o.valid = Blank /\ w.buttons = {} /\ w.axes = {} /\ o.nSamples = 0
  BY <1>3, <1>10
<1>13. Near(m) \in BOOLEAN /\ Near(n) \in BOOLEAN
  BY DEF Near
<1>14. o.valid.serial \in Serials \cup {0}
  BY <1>10, <1>11, <1>12, <1>13 DEF Blank
<1>15. /\ Agreed /\ o.valid.proximity =>
            Near(m) /\ o.valid.type = KeyType[m.key] /\ o.valid.serial = m.serial
       /\ Agreed /\ o.nSamples < 2 => ~o.valid.proximity
  <2>1. CASE Near(m)
    BY <1>10, <1>11, <2>1
  <2>2. CASE ~Near(m)
    BY <1>12, <2>2 DEF Blank
  <2> QED
    BY <1>13, <2>1, <2>2
<1>16. Good(m) /\ Good(n) /\ m.serial \in Serials \cup {0} /\ n.serial \in Serials \cup {0}
  BY DEF Tells, Good, Moments
<1>17. CASE TellsNear(m, f, n)
  <2>1. Near(n) /\ f.serial = n.serial /\ (Near(m) => m.key = n.key /\ m.serial = n.serial)
        /\ n.key \in NumberedKeys
    BY <1>16, <1>17 DEF TellsNear, Good, Moments, Near
  <2>2. /\ (ButtonsOf(m.on \cap Written) \cup ButtonsOf(f.on)) \ ButtonsOf(f.off) = ButtonsOf(n.on \cap Written)
        /\ ((m.on \cap Axes) \cup (f.on \cap Axes)) \ f.off = n.on \cap Axes
        /\ ~Near(m) => m.on \cap Written = {} /\ m.on \cap Axes = {} /\ n.key \in f.on
    BY <1>17, ToolMoves
  <2>3. w.buttons = ButtonsOf(m.on \cap Written) /\ w.axes = m.on \cap Axes
    <3>1. CASE Near(m)
      BY <1>10, <1>11, <3>1
    <3>2. CASE ~Near(m)
      <4>1. ButtonsOf({}) = {}
        BY DEF ButtonsOf
      <4> QED
        BY <1>12, <2>2, <3>2, <4>1
    <3> QED
      BY <1>13, <3>1, <3>2
  <2>4. p.buttons = ButtonsOf(n.on \cap Written) /\ p.axes = n.on \cap Axes /\ p.serial = n.serial
    BY <1>7, <2>1, <2>2, <2>3
  <2>5. Agreed => w.type = KeyType[n.key] \/ n.key \in f.on
    BY <1>10, <1>11, <2>1, <2>2
  <2>6. p.proximity /\ (Agreed => p.type = KeyType[n.key])
    <3>1. w.proximity
      BY <1>1 DEF w
    <3> QED
      BY <1>5, <1>6, <1>17, <2>5, <3>1, NearParsed
  <2>7. p.proximity = Near(n)
    BY <2>1, <2>6 DEF WorkState, Near
  <2>8. after.valid.serial \in Serials \cup {0}
    BY <1>9, <1>14, <1>16, <2>4
  <2>9. ASSUME Agreed
        PROVE  /\ after.valid.proximity =>
                     /\ p.proximity /\ after.valid.type = p.type /\ after.valid.serial = p.serial
                     /\ after.valid.buttons = p.buttons /\ after.valid.axes = p.axes
               /\ after.nSamples < 2 => ~after.valid.proximity
    <3>1. p.type = KeyType[n.key] /\ KeyType[n.key] \in {"STYLUS", "ERASER", "CURSOR"}
      BY <2>1, <2>6, <2>9, ToolKeyType
    <3>2. Counted(chan) <=> o.nSamples < 2
      BY <1>4, <3>1 DEF Counted
    <3>3. CASE Counted(chan)
      BY <1>8, <1>15, <2>9, <3>2, <3>3
    <3>4. CASE ~Counted(chan)
      <4>1. CASE after.valid = p /\ after.nSamples = IF p.proximity THEN o.nSamples ELSE 0
        BY <2>6, <3>2, <3>4, <4>1
      <4>2. CASE /\ after = chan /\ o.valid.proximity /\ p.proximity
                 /\ p.buttons = o.valid.buttons /\ p.axes = o.valid.axes
        <5>1. after.valid = o.valid /\ after.nSamples = o.nSamples
          BY <1>4, <4>2
        <5>2. o.valid.type = p.type /\ o.valid.serial = p.serial
          BY <1>15, <2>1, <2>4, <2>9, <3>1, <4>2
        <5> QED
          BY <3>2, <3>4, <4>2, <5>1, <5>2
      <4> QED
        BY <1>8, <3>4, <4>1, <4>2
    <3> QED
      BY <3>3, <3>4
  <2> QED
    BY <1>9, <2>1, <2>4, <2>6, <2>7, <2>8, <2>9 DEF ShowsTool
<1>18. CASE TellsAway(m, f, n)
  <2>1. Near(m) /\ ~Near(n) /\ f.serial = m.serial /\ m.key \in NumberedKeys
    BY <1>16, <1>18 DEF TellsAway, Good, Moments, Near
  <2>2. ~p.proximity /\ p.type = KeyType[m.key]
    BY <1>5, <1>6, <1>18, AwayParsed
  <2>3. p.proximity = Near(n)
    BY <2>1, <2>2 DEF WorkState, Near
  <2>4. after.valid.serial \in Serials \cup {0}
    BY <1>7, <1>9, <1>14, <1>16, <2>1
  <2>5. ASSUME Agreed
        PROVE  ~after.valid.proximity
    <3>1. p.type \in {"STYLUS", "ERASER", "CURSOR"}
      BY <2>1, <2>2, ToolKeyType
    <3>2. Counted(chan) <=> o.nSamples < 2
      BY <1>4, <3>1 DEF Counted
    <3> QED
      BY <1>8, <1>15, <2>2, <2>5, <3>2
  <2> QED
    BY <1>9, <2>1, <2>3, <2>4, <2>5 DEF ShowsTool
<1> QED
  BY <1>17, <1>18

\* What a frame of the express keys leaves in the pad's channel
LEMMA PadShown ==
    ASSUME NEW c \in ChanState, NEW f, WellMade(f), core \in CoreState, NEW m, NEW n, ShowsPads(c, m),
           Tells(m, f, n), TellsPads(m, f, n),
           NEW p, p = Parsed(Opened(c).work, f, f.serial), p \in WorkState,
           NEW after \in After([Opened(c) EXCEPT !.work = p])
    PROVE  ShowsPads(after, n)
<1> DEFINE o == Opened(c)
           w == o.work
           chan == [o EXCEPT !.work = p]
           finger == "BTN_TOOL_FINGER"
<1>1. o \in ChanState /\ w.proximity = TRUE /\ (c.work.proximity => o = c)
  BY OpenedTyped
<1>2. ~c.work.proximity => o = [BlankChannel EXCEPT !.work.proximity = TRUE]
  BY DEF Opened
<1>3. ~c.work.proximity => /\ o.valid = Blank /\ w.buttons = {}
  BY <1>2 DEF BlankChannel, Blank
<1> HIDE DEF o
<1>4. chan \in ChanState /\ chan.work = p /\ chan.valid = o.valid
  BY <1>1 DEF ChanState
<1>5. w \in WorkState /\ f.serial \in Int /\ c.work \in WorkState /\ f.serial = PadSerial
  BY <1>1 DEF ChanState, WellMade, Frame, TellsPads
<1>6. p = Parsed(w, f, f.serial) /\ after \in After(chan)
  BY DEF o
<1> HIDE DEF chan, w
<1>7. /\ p.serial = f.serial
      /\ p.buttons = (w.buttons \cup ButtonsOf(f.on)) \ ButtonsOf(f.off)
      /\ p.axes = (w.axes \cup (f.on \cap Axes)) \ f.off
  BY <1>5, <1>6, ParsedKeeps
<1>8. /\ after.work = p
      /\ Counted(chan) => after.valid = o.valid
      /\ ~Counted(chan) =>
                \/ /\ after.valid = p
                   /\ after.nSamples = IF p.proximity THEN o.nSamples ELSE 0
                \/ /\ after = chan /\ o.valid.proximity /\ p.proximity
                   /\ p.buttons = o.valid.buttons /\ p.axes = o.valid.axes
  <2> DEFINE k == o.nSamples
  <2>1. chan.nSamples = k
    BY <1>1 DEF chan, ChanState
  <2> QED
    BY <1>4, <1>6, <2>1, AfterDoes
<1>9. after.work = p /\ (after.valid = o.valid \/ after.valid = p)
  BY <1>4, <1>8
<1>10. /\ c.valid.serial \in {0, PadSerial} /\ (c.valid.proximity => c.valid.serial = PadSerial)
       /\ PadsLookedAt =>
            /\ c.work.proximity = (finger \in m.on)
            /\ c.work.proximity => c.work.type = "PAD" /\ c.work.buttons = ButtonsOf(m.on \cap ExpressKeys)
            /\ c.valid.proximity => c.work.proximity
            /\ c.valid.serial = PadSerial =>
                 c.valid.type = "PAD" /\ c.valid.buttons = ButtonsOf(m.on \cap ExpressKeys)
  BY DEF ShowsPads
<1>11. c.work.proximity \in BOOLEAN /\ p.proximity \in BOOLEAN
  BY <1>5 DEF WorkState
<1>12. o.valid.serial \in {0, PadSerial} /\ (o.valid.proximity => o.valid.serial = PadSerial)
  BY <1>1, <1>3, <1>10, <1>11 DEF Blank
<1>13. after.valid.serial \in {0, PadSerial} /\ (after.valid.proximity => after.valid.serial = PadSerial)
  BY <1>5, <1>7, <1>9, <1>12
<1>14. ASSUME PadsLookedAt
       PROVE  /\ p.proximity = (finger \in n.on)
              /\ p.type = "PAD" /\ p.buttons = ButtonsOf(n.on \cap ExpressKeys)
              /\ after.valid.proximity => p.proximity
              /\ after.valid.serial = PadSerial =>
                   after.valid.type = "PAD" /\ after.valid.buttons = ButtonsOf(n.on \cap ExpressKeys)
  <2>1. finger \in m.on => o = c /\ w = c.work /\ w.type = "PAD" /\ w.buttons = ButtonsOf(m.on \cap ExpressKeys)
    BY <1>1, <1>10, <1>14 DEF w
  <2>2. w.buttons = ButtonsOf(m.on \cap ExpressKeys)
    <3>1. CASE finger \notin m.on
      <4>1. m.on \cap ExpressKeys = {}
        BY <1>14, <3>1 DEF Tells, Good, PadNear, PadsLookedAt
      <4>2. ButtonsOf({}) = {}
        BY DEF ButtonsOf
      <4> QED
        BY <1>3, <1>10, <1>14, <3>1, <4>1, <4>2
    <3> QED
      BY <2>1, <3>1
  <2>3. p.buttons = ButtonsOf(n.on \cap ExpressKeys)
    BY <1>7, <2>2, PadMoves
  <2>4. (p.proximity <=> finger \in n.on) /\ p.type = "PAD"
    <3>1. w.proximity /\ ("BTN_TOOL_FINGER" \in m.on => w.type = "PAD")
      BY <1>1, <2>1 DEF w
    <3> QED
      BY <1>5, <1>6, <1>14, <3>1, PadsParsed
  <2>5. ~Counted(chan)
    BY <1>4, <2>4 DEF Counted
  <2>6. CASE after.valid = p
    BY <1>11, <2>3, <2>4, <2>6
  <2>7. CASE /\ after = chan /\ o.valid.proximity /\ p.proximity /\ p.buttons = o.valid.buttons
    <3>1. c.work.proximity /\ o = c
      BY <1>1, <1>3, <1>11, <2>7 DEF Blank
    <3>2. after.valid = c.valid
      BY <1>4, <2>7, <3>1
    <3>3. finger \in n.on
      BY <2>4, <2>7
    <3> QED
      BY <1>10, <1>11, <1>14, <2>3, <2>4, <2>7, <3>1, <3>2
  <2> QED
    BY <1>8, <2>5, <2>6, <2>7
<1> QED
  BY <1>5, <1>7, <1>9, <1>13, <1>14 DEF ShowsPads

\* The channel of a frame, at the moment the reader shows
LEMMA SingleChooses ==
    ASSUME TypedInv, type \in OneTool, NEW m, NEW n, NEW f, WellMade(f), Shows(m), Tells(m, f, n)
    PROVE  /\ SerialOf(f) = f.serial
           /\ TellsPads(m, f, n) => f.serial = PadSerial /\ ChooseChannel(f.serial) = 1
           /\ TellsNear(m, f, n) \/ TellsAway(m, f, n) => f.serial \in Nat \ {0} /\ ChooseChannel(f.serial) = 0
<1>1. type \in IntuosTypes /\ type \in IntuosTypes \ {"INTUOS"} /\ product \in Products
  BY DEF OneTool, TypedInv, KernelTyped
<1>2. SerialOf(f) = f.serial /\ f.serial \in Nat \cup {PadSerial}
  BY <1>1, SerialTyped
<1>3. TellsPads(m, f, n) => f.serial = PadSerial /\ ChooseChannel(f.serial) = 1
  <2>1. ChooseChannel(PadSerial) = 1
    BY <1>1, ChooseSingle
  <2> QED
    BY <2>1 DEF TellsPads
<1>4. ASSUME TellsNear(m, f, n) \/ TellsAway(m, f, n)
      PROVE  f.serial \in Nat \ {0} /\ ChooseChannel(f.serial) = 0
  <2>1. Good(m) /\ Good(n) /\ ShowsTool(channel[0], m)
    BY DEF Tells, Shows
  <2>2. /\ Near(m) => m.serial = f.serial
        /\ (Near(m) /\ m.serial = f.serial) \/ (Near(n) /\ n.serial = f.serial)
    BY <1>4 DEF TellsNear, TellsAway
  <2>3. f.serial # 0 /\ f.serial \in Serials \cup {0}
    BY <2>1, <2>2 DEF Good, Moments
  <2>4. Serials \subseteq Nat \ {0}
    BY ReportsAssumption DEF Serials, Tools
  <2>5. 0 \in Channels /\ channel \in [Channels -> ChanState]
    BY DEF Channels, MAX_CHANNELS, TypedInv, ReaderTyped
  <2>6. 0 \in Holding(f.serial) \cup Free
    <3>1. CASE channel[0].work.proximity
      <4>1. Near(m) /\ channel[0].work.serial = m.serial
        BY <2>1, <3>1 DEF ShowsTool
      <4> QED
        BY <2>2, <2>5, <3>1, <4>1 DEF Holding
    <3>2. CASE ~channel[0].work.proximity
      BY <2>5, <3>2 DEF Free
    <3> QED
      BY <3>1, <3>2
  <2>7. f.serial \notin {0, PadSerial} /\ f.serial \in Nat
    <3>1. f.serial \in Nat /\ f.serial # 0
      BY <2>3, <2>4
    <3> QED
      BY <3>1 DEF PadSerial
  <2>8. ChooseChannel(f.serial) = IF 0 \in Holding(f.serial) \cup Free THEN 0 ELSE NoChannel
    BY <1>1, <1>2, <2>7, ChooseSingle
  <2> QED
    BY <2>6, <2>7, <2>8
<1> QED
  BY <1>2, <1>3, <1>4

\* A frame that tells nothing is dropped or forces no tool away.
LEMMA NothingLost ==
    ASSUME TypedInv, type \in OneTool, NEW m, NEW n, NEW f, WellMade(f), Shows(m), Tells(m, f, n),
           TellsNothing(m, f, n)
    PROVE  Forced = {} /\ (f.serial # 0 => EmptyFrame(f)) /\ (f.serial = 0 => ChooseChannel(SerialOf(f)) = NoChannel)
<1>1. /\ ~Near(m) /\ f.serial \in Nat /\ f.on \cup f.off = {} /\ f.misc = NoMisc /\ ~f.axes
  BY DEF TellsNothing
<1>2. type \in IntuosTypes /\ type \in IntuosTypes \ {"INTUOS"} /\ product \in Products
  BY DEF OneTool, TypedInv, KernelTyped
<1>3. SerialOf(f) = f.serial
  BY <1>2, SerialTyped
<1>4. Forced = {}
  <2>1. ~channel[0].work.proximity
    BY <1>1 DEF Shows, ShowsTool
  <2>2. channel[1].work.proximity => channel[1].work.serial = PadSerial
    BY DEF Shows, ShowsPads
  <2>3. ~channel[2].work.proximity
    BY DEF Shows, BlankChannel, Blank
  <2>4. Channels = {0, 1, 2}
    BY DEF Channels, MAX_CHANNELS
  <2> QED
    BY <2>1, <2>2, <2>3, <2>4 DEF Forced
<1>5. f.serial # 0 => EmptyFrame(f)
  <2>1. Count(f) <= 2
    <3>1. f \in Frame /\ f.on \cup f.off \subseteq Spoken /\ f.serial # NoSerial
      BY <1>1 DEF WellMade, NoSerial
    <3> QED
      BY <1>1, <3>1, FullFrame
  <2> QED
    BY <1>3, <2>1 DEF EmptyFrame
<1>6. f.serial = 0 => ChooseChannel(SerialOf(f)) = NoChannel
  <2>1. ChooseChannel(0) = NoChannel
    BY <1>2, ChooseSingle
  <2> QED
    BY <1>3, <2>1
<1> QED
  BY <1>4, <1>5, <1>6

\* A frame without information tells of no change.
LEMMA EmptyTells ==
    ASSUME TypedInv, type \in OneTool, NEW m, NEW n, NEW f, WellMade(f), Shows(m), Tells(m, f, n), EmptyFrame(f)
    PROVE  n = m
<1>1. Says(m, f, n) /\ Good(m) /\ Good(n)
  BY DEF Tells
<1>2. f.on \subseteq Spoken /\ f.off \subseteq Spoken
  BY <1>1 DEF Says, Good, Moments, WellMade
<1>3. type \in IntuosTypes
  BY DEF OneTool
<1>4. f.serial \in Nat \cup {PadSerial}
  BY <1>3, SerialTyped
<1>5. f \in Frame /\ f.serial # NoSerial
  BY <1>4 DEF WellMade, NoSerial, PadSerial
<1>6. f.on \cup f.off = {}
  BY <1>2, <1>5, FullFrame DEF EmptyFrame
<1>7. n.on = m.on
  BY <1>1, <1>6 DEF Says
<1>8. n.key = m.key /\ n.serial = m.serial
  <2>1. CASE TellsNear(m, f, n)
    <3>1. Near(m)
      BY <1>1, <1>7, <2>1 DEF TellsNear, Good, Near
    <3> QED
      BY <2>1, <3>1 DEF TellsNear
  <2>2. ~TellsAway(m, f, n) /\ ~TellsPads(m, f, n)
    BY <1>6 DEF TellsAway, TellsPads
  <2>3. CASE TellsNothing(m, f, n)
    BY <2>3 DEF TellsNothing
  <2> QED
    BY <2>1, <2>2, <2>3 DEF Tells
<1>9. m \in Moments /\ n \in Moments
  BY <1>1 DEF Good
<1> QED
  BY <1>7, <1>8, <1>9 DEF Moments

\* The reader goes on to the next moment.
LEMMA SingleReads ==
    ASSUME TypedInv, type \in OneTool, Read, NEW m, NEW n, NEW f, f = Head(queue), Shows(m), Tells(m, f, n)
    PROVE  Shows(n)' /\ Take /\ UNCHANGED <<product, hand, wac, core, open>>
<1>1. /\ channel \in [Channels -> ChanState] /\ core \in CoreState /\ 0 \in Channels /\ 1 \in Channels /\ 2 \in Channels
      /\ product \in Products
  BY DEF TypedInv, ReaderTyped, KernelTyped, Channels, MAX_CHANNELS
<1>2. Take /\ UNCHANGED <<product, hand, wac, core, open>>
  <2>1. CASE ReadLost
    BY <2>1, ReadLostDoes
  <2>2. CASE ReadEmpty \/ ReadFrame
    BY <2>2 DEF ReadEmpty, ReadFrame
  <2> QED
    BY <2>1, <2>2 DEF Read
<1>3. WellMade(f)
  BY <1>2, HeadMade DEF TypedInv
<1>4. /\ SerialOf(f) = f.serial
      /\ TellsPads(m, f, n) => f.serial = PadSerial /\ ChooseChannel(f.serial) = 1
      /\ TellsNear(m, f, n) \/ TellsAway(m, f, n) => f.serial \in Nat \ {0} /\ ChooseChannel(f.serial) = 0
  BY <1>3, SingleChooses
<1>5. CASE ReadEmpty
  <2>1. EmptyFrame(f) /\ channel' = channel
    BY <1>5 DEF ReadEmpty
  <2>2. n = m
    BY <1>3, <2>1, EmptyTells
  <2> QED
    BY <1>2, <2>1, <2>2 DEF Shows
<1>6. CASE ReadLost
  <2>1. /\ ~EmptyFrame(f) /\ ChooseChannel(SerialOf(f)) = NoChannel
        /\ channel' \in [Channels -> ChanState]
        /\ \A ch \in Channels :
                IF ch \in Forced THEN channel'[ch].work = [channel[ch].work EXCEPT !.proximity = FALSE]
                ELSE channel'[ch] = channel[ch]
    BY <1>6, ReadLostDoes
  <2>2. TellsNothing(m, f, n)
    BY <1>4, <2>1 DEF Tells, NoChannel
  <2>3. Forced = {}
    BY <1>3, <2>2, NothingLost
  <2>4. channel'[0] = channel[0] /\ channel'[1] = channel[1] /\ channel'[2] = channel[2] /\ n = m
    BY <1>1, <2>1, <2>2, <2>3 DEF TellsNothing
  <2> QED
    BY <1>2, <2>4 DEF Shows
<1>7. CASE ReadFrame
  <2> DEFINE ch == ChooseChannel(f.serial)
             p == Parsed(Opened(channel[ch]).work, f, f.serial)
             chan == [Opened(channel[ch]) EXCEPT !.work = p]
  <2>1. /\ ~EmptyFrame(f) /\ ch # NoChannel
        /\ \E after \in (IF NoEraser(chan.work) THEN {chan} ELSE After(chan)) :
              channel' = [channel EXCEPT ![ch] = after]
    BY <1>4, <1>7 DEF ReadFrame
  <2>2. ~NoEraser(chan.work)
    BY <1>1, ErasersPass DEF NoEraser
  <2>3. PICK after \in After(chan) : channel' = [channel EXCEPT ![ch] = after]
    BY <2>1, <2>2
  <2>4. ~TellsNothing(m, f, n)
    BY <1>3, <1>4, <2>1, NothingLost
  <2>5. f.serial \in Int
    BY <1>3 DEF WellMade, Frame
  <2>6. Shows(m) => ShowsTool(channel[0], m) /\ ShowsPads(channel[1], m) /\ channel[2] = BlankChannel
    BY DEF Shows
  <2>7. CASE TellsNear(m, f, n) \/ TellsAway(m, f, n)
    <3>1. ch = 0
      BY <1>4, <2>7
    <3> DEFINE c == channel[0]
               r == Parsed(Opened(c).work, f, f.serial)
    <3>2. c \in ChanState
      BY <1>1
    <3>3. Opened(c).work \in WorkState
      <4> HIDE DEF c
      <4> QED
        BY <3>2, OpenedTyped DEF ChanState
    <3>4. r \in WorkState
      <4> HIDE DEF c
      <4> QED
        BY <1>1, <1>3, <2>5, <3>3, ParsedTyped
    <3>5. after \in After([Opened(c) EXCEPT !.work = r]) /\ ShowsTool(c, m)
      BY <2>3, <2>6, <3>1
    <3>6. ShowsTool(after, n)
      <4> HIDE DEF c, ch, chan, p
      <4>1. r = Parsed(Opened(c).work, f, f.serial)
        OBVIOUS
      <4> HIDE DEF r
      <4> QED
        BY <1>1, <1>3, <2>7, <3>2, <3>4, <3>5, <4>1, ToolShown
    <3>7. ShowsPads(channel[1], n)
      <4>1. /\ f.on \cap PadCodes = {} /\ f.off \cap PadCodes = {}
        <5>1. m.key \in NumberedKeys \cup {NoKey} /\ n.key \in NumberedKeys \cup {NoKey}
          BY DEF Tells, Good, Moments
        <5>2. m.key \notin PadCodes /\ n.key \notin PadCodes /\ Written \cap PadCodes = {}
          BY <5>1, CodesApart DEF PadCodes, NumberedKeys, Spoken
        <5> QED
          BY <2>7, <5>2 DEF TellsNear, TellsAway
      <4>2. n.on \cap ExpressKeys = m.on \cap ExpressKeys /\ ("BTN_TOOL_FINGER" \in n.on <=> "BTN_TOOL_FINGER" \in m.on)
        BY <4>1 DEF Tells, Says, PadCodes
      <4> QED
        BY <2>6, <4>2 DEF ShowsPads
    <3>8. channel'[0] = after /\ channel'[1] = channel[1] /\ channel'[2] = channel[2]
      <4> HIDE DEF chan
      <4> QED
        BY <1>1, <2>3, <3>1
    <3> QED
      BY <1>2, <2>6, <3>6, <3>7, <3>8 DEF Shows
  <2>8. CASE TellsPads(m, f, n)
    <3>1. ch = 1
      BY <1>4, <2>8
    <3> DEFINE c == channel[1]
               r == Parsed(Opened(c).work, f, f.serial)
    <3>2. c \in ChanState
      BY <1>1
    <3>3. Opened(c).work \in WorkState
      <4> HIDE DEF c
      <4> QED
        BY <3>2, OpenedTyped DEF ChanState
    <3>4. r \in WorkState
      <4> HIDE DEF c
      <4> QED
        BY <1>1, <1>3, <2>5, <3>3, ParsedTyped
    <3>5. after \in After([Opened(c) EXCEPT !.work = r]) /\ ShowsPads(c, m)
      BY <2>3, <2>6, <3>1
    <3>6. ShowsPads(after, n)
      <4> HIDE DEF c, ch, chan, p
      <4>1. r = Parsed(Opened(c).work, f, f.serial)
        OBVIOUS
      <4> HIDE DEF r
      <4> QED
        BY <1>1, <1>3, <2>8, <3>2, <3>4, <3>5, <4>1, PadShown
    <3>7. ShowsTool(channel[0], n)
      <4>1. Written \cap PadCodes = {}
        BY CodesApart DEF PadCodes
      <4>2. n.on \cap Written = m.on \cap Written /\ n.key = m.key /\ n.serial = m.serial
        BY <2>8, <4>1 DEF Tells, Says, TellsPads
      <4>3. n.on \cap Axes = m.on \cap Axes
        BY <4>2 DEF Axes, Written, PenSwitches
      <4>4. Near(n) = Near(m)
        BY <4>2 DEF Near
      <4> QED
        BY <2>6, <4>2, <4>3, <4>4 DEF ShowsTool
    <3>8. channel'[1] = after /\ channel'[0] = channel[0] /\ channel'[2] = channel[2]
      <4> HIDE DEF chan
      <4> QED
        BY <1>1, <2>3, <3>1
    <3> QED
      BY <1>2, <2>6, <3>6, <3>7, <3>8 DEF Shows
  <2> QED
    BY <2>4, <2>7, <2>8 DEF Tells
<1> QED
  BY <1>5, <1>6, <1>7 DEF Read

-----------------------------------------------------------------------------
(* One tool at a time: every step.                                         *)

\* A report of the tablet
LEMMA SingleHardware ==
    ASSUME KernelTyped, KernelTyped', type \in OneTool, SingleKernel, Supported, CarefulUser, ReportsNext
    PROVE  KernelStep
<1>1. ASSUME NEW slot \in Slots, NEW t \in ToolsOf[product], Enter(slot, t)
      PROVE  KernelStep
  BY <1>1, EnterSingle
<1>2. ASSUME NEW slot \in Slots, Exit(slot)
      PROVE  KernelStep
  BY <1>2, ExitSingle
<1>3. ASSUME NEW slot \in Slots, RangeReport(slot)
      PROVE  KernelStep
  BY <1>3, RangeSingle
<1>4. ASSUME NEW slot \in Slots, NEW pressed \in SUBSET SwitchesOf[product], NEW axes \in BOOLEAN,
             NEW ready \in BOOLEAN, ToolPacket(slot, pressed, axes, ready)
      PROVE  KernelStep
  BY <1>4, PacketSingle
<1>5. ASSUME NEW t, NEW near, NEW pressed, NEW axes, DisplayTool(t, near, pressed, axes)
      PROVE  FALSE
  BY <1>5 DEF DisplayTool, OneTool
<1>6. ASSUME NEW pads \in SUBSET PadKeys, Pad(pads)
      PROVE  KernelStep
  BY <1>6, PadSingle
<1>7. ASSUME NEW pads, DtusPad(pads)
      PROVE  FALSE
  BY <1>7 DEF DtusPad, OneTool, IntuosTypes, Intuos3, Intuos4, Intuos5, Displays
<1> QED
  BY <1>1, <1>2, <1>3, <1>4, <1>5, <1>6, <1>7 DEF ReportsNext

\* Steps that leave the hand and the kernel alone
LEMMA SameKernel ==
    ASSUME SingleKernel, UNCHANGED <<product, hand, wac, core>>,
           open' = open \/ wac.id[0] = 0 \/ Blocked(0)
    PROVE  SingleKernel' /\ Now' = Now
<1>1. /\ type' = type /\ Codes' = Codes /\ Mine' = Mine /\ KeyOn' = KeyOn
      /\ Unheard(0)' = Unheard(0) /\ Blocked(0)' = Blocked(0)
  BY DEF type, Codes, Mine, KeyOn, Unheard, Blocked, LensUnsupported
<1>2. Now' = Now
  BY <1>1 DEF Now
<1>3. KnowsTool /\ HeedsHand /\ KeyHeeded /\ CoreRests /\ PressesHand /\ PadsOn /\ Good(Now)
  BY DEF SingleKernel
<1>4. KnowsTool' /\ KeyHeeded' /\ CoreRests' /\ PressesHand' /\ PadsOn'
  BY <1>1, <1>3 DEF KnowsTool, KeyHeeded, CoreRests, PressesHand, PadsOn
<1>5. HeedsHand'
  BY <1>1, <1>3 DEF HeedsHand
<1>6. Good(Now)'
  BY <1>2, <1>3 DEF Good, PadNear
<1> QED
  BY <1>2, <1>4, <1>5, <1>6 DEF SingleKernel

\* Every step keeps the channels behind the hand by what the queue tells.
LEMMA SingleStep ==
    ASSUME TypedInv, TypedInv', SingleInv, Supported, [ChannelsNext /\ Careful]_allVars
    PROVE  SingleInv'
<1>1. UNCHANGED product
  BY DEF ChannelsNext, Hardware, ReportsNext, Enter, Exit, RangeReport, ToolPacket, DisplayTool,
         Pad, DtusPad, Read, ReadEmpty, ReadLost, ReadFrame, Close, Open, allVars, reportVars
<1>2. type' = type
  BY <1>1, SameTablet
<1>3. SUFFICES ASSUME type \in OneTool
               PROVE  SingleKernel' /\ SingleReader'
  BY <1>2 DEF SingleInv
<1>4. SingleKernel /\ SingleReader /\ KernelTyped /\ KernelTyped'
  BY <1>3 DEF SingleInv, TypedInv
<1>5. PICK a \in Moments : Shows(a) /\ Chain(queue, a, Now)
  BY <1>4 DEF SingleReader
<1>6. CASE Hardware /\ Careful
  <2>1. ReportsNext /\ UNCHANGED channel /\ CarefulUser
    BY <1>6 DEF Hardware, channelVars, Careful
  <2>2. KernelStep
    BY <1>3, <1>4, <2>1, SingleHardware
  <2>3. Chain(queue', a, Now')
    BY <1>1, <1>4, <1>5, <2>2, ChainContinues DEF KernelStep
  <2>4. Shows(a)'
    BY <1>5, <2>1 DEF Shows
  <2> QED
    BY <2>2, <2>3, <2>4 DEF KernelStep, SingleReader
<1>7. CASE Read
  <2> DEFINE q == queue
             f == Head(queue)
             b == Now
  <2>1. queue # <<>> /\ queue \in Seq(Frame)
    <3>1. Take
      <4>1. CASE ReadLost
        BY <4>1, ReadLostDoes
      <4>2. CASE ReadEmpty \/ ReadFrame
        BY <4>2 DEF ReadEmpty, ReadFrame
      <4> QED
        BY <1>7, <4>1, <4>2 DEF Read
    <3> QED
      BY <1>4, <3>1 DEF Take, KernelTyped, QueueTyped
  <2>2. \E c \in Moments : Tells(a, Head(q), c) /\ Chain(Tail(q), c, b)
    <3>1. Chain(q, a, b) /\ q \in Seq(Frame) /\ q # <<>>
      BY <1>5, <2>1
    <3> HIDE DEF q, b
    <3> QED
      BY <3>1, ChainShrinks
  <2>3. PICK n \in Moments : Tells(a, f, n) /\ Chain(Tail(queue), n, Now)
    BY <2>2
  <2>4. Shows(n)' /\ Take /\ UNCHANGED <<product, hand, wac, core, open>>
    <3>1. f = Head(queue)
      OBVIOUS
    <3> HIDE DEF f
    <3> QED
      BY <1>3, <1>5, <1>7, <2>3, <3>1, SingleReads
  <2>5. SingleKernel' /\ Now' = Now
    BY <1>4, <2>4, SameKernel
  <2>6. Chain(queue', n, Now')
    BY <2>3, <2>4, <2>5 DEF Take
  <2> QED
    BY <2>4, <2>5, <2>6 DEF SingleReader
<1>8. CASE (Close \/ Open) /\ Careful
  <2>1. /\ UNCHANGED <<product, hand, wac, core, channel>> /\ open' # open
        /\ queue' = queue \/ queue' = <<>>
        /\ CarefulUser /\ open \in BOOLEAN
    BY <1>4, <1>8 DEF Close, Open, channelVars, Careful, KernelTyped
  <2>2. queue' = queue /\ (hand.tool = [s \in Slots |-> NoTool] \/ ~open)
    BY <2>1 DEF CarefulUser
  <2>3. wac.id[0] = 0 \/ Blocked(0)
    <3>1. hand.tool[0] = NoTool \/ ~open
      BY <2>2 DEF Slots
    <3> QED
      BY <1>4, <3>1 DEF SingleKernel, HeedsHand
  <2>4. SingleKernel' /\ Now' = Now
    BY <1>4, <2>1, <2>3, SameKernel
  <2>5. Shows(a)' /\ Chain(queue', a, Now')
    BY <1>5, <2>1, <2>2, <2>4 DEF Shows
  <2> QED
    BY <2>4, <2>5 DEF SingleReader
<1>9. CASE UNCHANGED allVars
  <2>1. UNCHANGED <<product, hand, wac, core, open, queue, channel>>
    BY <1>9 DEF allVars, reportVars, channelVars
  <2>2. SingleKernel' /\ Now' = Now
    BY <1>4, <2>1, SameKernel
  <2>3. Shows(a)' /\ Chain(queue', a, Now')
    BY <1>5, <2>1, <2>2 DEF Shows
  <2> QED
    BY <2>2, <2>3 DEF SingleReader
<1> QED
  BY <1>6, <1>7, <1>8, <1>9 DEF ChannelsNext

\* With nothing near and nothing read, channels and kernel agree.
LEMMA SingleStarts ==
    ASSUME ChannelsInit
    PROVE  SingleInv
<1>1. /\ product \in Products
      /\ hand = [tool |-> [s \in Slots |-> NoTool], pressed |-> [s \in Slots |-> {}], pads |-> {}]
      /\ wac = [tool |-> [s \in Slots |-> NoKey], id |-> [s \in Slots |-> 0],
                serial |-> [s \in Slots |-> 0]]
      /\ core = [on |-> {}, misc |-> 0, origin |-> TRUE] /\ queue = <<>> /\ open = TRUE
      /\ channel = [c \in Channels |-> BlankChannel] /\ wcmLastToolSerial = 0
  BY DEF ChannelsInit, ReportsInit
<1>2. /\ 0 \in Slots /\ hand.tool[0] = NoTool /\ hand.pressed[0] = {} /\ hand.pads = {}
      /\ wac.tool[0] = NoKey /\ wac.id[0] = 0 /\ wac.serial[0] = 0
      /\ core.on = {} /\ core.misc = 0 /\ core.origin = TRUE
  BY <1>1 DEF Slots
<1>3. ~KeyOn /\ Now = [key |-> NoKey, serial |-> 0, on |-> {}] /\ Unheard(0)
  BY <1>2 DEF KeyOn, Now, Unheard
<1>4. Now \in Moments /\ ~Near(Now) /\ Now.on = {} /\ Now.serial = 0 /\ Now.key = NoKey
  BY <1>3 DEF Moments, Near
<1>5. Good(Now)
  BY <1>4 DEF Good, PadNear
<1>6. SingleKernel
  BY <1>2, <1>3, <1>5 DEF SingleKernel, KnowsTool, HeedsHand, KeyHeeded, CoreRests, PressesHand, PadsOn
<1>7. BlankChannel.work = Blank /\ BlankChannel.valid = Blank /\ BlankChannel.nSamples = 0
      /\ Blank.proximity = FALSE /\ Blank.serial = 0
  BY DEF BlankChannel, Blank
<1>8. channel[0] = BlankChannel /\ channel[1] = BlankChannel /\ channel[2] = BlankChannel
  BY <1>1 DEF Channels, MAX_CHANNELS
<1>9. ShowsTool(BlankChannel, Now) /\ ShowsPads(BlankChannel, Now)
  <2> DEFINE m == Now
  <2>1. ~Near(m) /\ m.on = {}
    BY <1>4
  <2>2. Near(m) = FALSE
    BY <2>1 DEF Near
  <2> HIDE DEF m
  <2>3. ShowsTool(BlankChannel, m)
    BY <1>7, <2>2 DEF ShowsTool
  <2>4. ShowsPads(BlankChannel, m)
    <3>1. ("BTN_TOOL_FINGER" \in m.on) = FALSE
      BY <2>1
    <3>2. 0 # PadSerial
      BY DEF PadSerial
    <3> HIDE DEF m
    <3> QED
      BY <1>7, <3>1, <3>2 DEF ShowsPads
  <2> QED
    BY <2>3, <2>4 DEF m
<1>10. Chain(queue, Now, Now)
  <2> DEFINE m == Now
  <2>1. m \in Moments /\ queue = <<>>
    BY <1>1, <1>4
  <2> HIDE DEF m
  <2>2. Chain(queue, m, m)
    BY <2>1, ChainStarts
  <2> QED
    BY <2>2 DEF m
<1> QED
  BY <1>4, <1>6, <1>8, <1>9, <1>10 DEF SingleInv, SingleReader, Shows

\* Every frame of a tablet that follows one tool finds its channel.
LEMMA SingleFits ==
    ASSUME TypedInv, SingleInv, type \in OneTool, queue # <<>>, ~EmptyFrame(Head(queue))
    PROVE  ChooseChannel(SerialOf(Head(queue))) # NoChannel \/ Forced = {}
<1> DEFINE q == queue
           b == Now
<1>1. PICK a \in Moments : Shows(a) /\ Chain(queue, a, Now)
  BY DEF SingleInv, SingleReader
<1>2. queue \in Seq(Frame) /\ \A i \in 1 .. Len(queue) : WellMade(queue[i])
  BY DEF TypedInv, KernelTyped, QueueTyped
<1>3. \E c \in Moments : Tells(a, Head(q), c) /\ Chain(Tail(q), c, b)
  <2>1. Chain(q, a, b) /\ q \in Seq(Frame) /\ q # <<>>
    BY <1>1, <1>2
  <2> HIDE DEF q, b
  <2> QED
    BY <2>1, ChainShrinks
<1>4. PICK n \in Moments : Tells(a, Head(queue), n)
  BY <1>3
<1> DEFINE f == Head(queue)
<1>5. f = queue[1] /\ 1 \in 1 .. Len(queue) /\ WellMade(f) /\ Tells(a, f, n) /\ ~EmptyFrame(f)
  BY <1>2, <1>4
<1> HIDE DEF f
<1>6. CASE TellsNothing(a, f, n)
  BY <1>1, <1>5, <1>6, NothingLost
<1>7. CASE ~TellsNothing(a, f, n)
  <2>1. SerialOf(f) = f.serial /\ ChooseChannel(f.serial) \in {0, 1}
    <3>1. /\ SerialOf(f) = f.serial
          /\ TellsPads(a, f, n) => f.serial = PadSerial /\ ChooseChannel(f.serial) = 1
          /\ TellsNear(a, f, n) \/ TellsAway(a, f, n) => f.serial \in Nat \ {0} /\ ChooseChannel(f.serial) = 0
      BY <1>1, <1>5, SingleChooses
    <3> QED
      BY <1>5, <1>7, <3>1 DEF Tells
  <2> QED
    BY <2>1 DEF f, NoChannel
<1> QED
  BY <1>6, <1>7 DEF f

-----------------------------------------------------------------------------
(* The theorems about careful users.                                       *)

ReadInv == TypedInv /\ DualInv /\ SingleInv

\* All three hold at the start.
LEMMA ReadStarts ==
    ASSUME ChannelsInit
    PROVE  ReadInv
<1>1. TypedInv
  BY TypedStarts
<1>2. SingleInv
  BY SingleStarts
<1>3. DualInv
  <2>1. /\ hand.tool = [s \in Slots |-> NoTool] /\ queue = <<>>
        /\ channel = [c \in Channels |-> BlankChannel]
    BY DEF ChannelsInit, ReportsInit
  <2>2. /\ \A s \in Slots : hand.tool[s] = NoTool
        /\ \A ch \in Channels : channel[ch].work = Blank /\ ~channel[ch].work.proximity
    BY <2>1 DEF BlankChannel, Blank
  <2> QED
    BY <2>1, <2>2 DEF DualInv, DualKernel, DualReader
<1> QED
  BY <1>1, <1>2, <1>3 DEF ReadInv

\* Every step of a careful user keeps all three.
LEMMA ReadStep ==
    ASSUME ReadInv, Supported, [ChannelsNext /\ CarefulUser /\ OneAtATime]_allVars
    PROVE  ReadInv'
<1>1. [ChannelsNext /\ Careful]_allVars /\ [ChannelsNext]_allVars
  BY DEF Careful
<1>2. TypedInv'
  BY <1>1, TypedStep DEF ReadInv
<1>3. DualInv'
  BY <1>1, <1>2, DualStep DEF ReadInv
<1>4. SingleInv'
  BY <1>1, <1>2, SingleStep DEF ReadInv
<1> QED
  BY <1>2, <1>3, <1>4 DEF ReadInv

\* No tool is forced out of proximity for want of a channel, on any tablet:
\* on one that follows two tools because the tools have no more serial
\* numbers than there are channels, on the others because the reader's one
\* channel is free or holds the tool whose frame is next.
THEOREM NeverForced ==
    ASSUME Supported, FewTools
    PROVE  CarefulSpec => []NeverForcedOut
<1>1. ChannelsInit => ReadInv
  BY ReadStarts
<1>2. ReadInv /\ [ChannelsNext /\ CarefulUser /\ OneAtATime]_allVars => ReadInv'
  BY ReadStep
<1>3. ReadInv => NeverForcedOut
  <2> SUFFICES ASSUME ReadInv, queue # <<>>, ~EmptyFrame(Head(queue))
               PROVE  ChooseChannel(SerialOf(Head(queue))) # NoChannel \/ Forced = {}
    BY DEF NeverForcedOut
  <2>1. CASE type = "INTUOS"
    BY <2>1, DualFits DEF ReadInv
  <2>2. CASE type \in OneTool
    BY <2>2, SingleFits DEF ReadInv
  <2>3. CASE type \notin IntuosTypes
    BY <2>3, DisplayFits DEF ReadInv
  <2> QED
    BY <2>1, <2>2, <2>3 DEF OneTool
<1> QED
  BY <1>1, <1>2, <1>3, PTL DEF CarefulSpec

\* On a tablet that follows one tool: once the driver has read all, a tool
\* that it has passed on as near is the one in the hand, with its type and
\* serial number, and pressed as the user presses it.
THEOREM ToolFollows ==
    ASSUME Supported, Agreed, PadsLookedAt
    PROVE  CarefulSpec => [](type \in OneTool => ToolFollowsHand)
<1>1. ChannelsInit => ReadInv
  BY ReadStarts
<1>2. ReadInv /\ [ChannelsNext /\ CarefulUser /\ OneAtATime]_allVars => ReadInv'
  BY ReadStep
<1>3. ReadInv => (type \in OneTool => ToolFollowsHand)
  <2> SUFFICES ASSUME ReadInv, type \in OneTool, Settled, NEW ch \in Channels,
                      channel[ch].valid.proximity, channel[ch].valid.type # "PAD"
               PROVE  LET v == channel[ch].valid
                      IN  \E s \in Slots :
                            /\ hand.tool[s] # NoTool
                            /\ v.type = TypeInHand(hand.tool[s])
                            /\ ProtocolLevel[product] = 5 => v.serial = hand.tool[s].serial
                            /\ v.buttons = ButtonsOf(hand.pressed[s] \cap Codes)
                            /\ v.axes = hand.pressed[s] \cap Axes \cap Codes
    BY DEF ToolFollowsHand
  <2>1. SingleKernel /\ SingleReader /\ KernelTyped /\ queue = <<>>
    BY DEF ReadInv, SingleInv, TypedInv, Settled
  <2>2. Shows(Now)
    <3>1. PICK a \in Moments : Shows(a) /\ Chain(queue, a, Now)
      BY <2>1 DEF SingleReader
    <3>2. a = Now
      <4> DEFINE b == Now
      <4>1. Chain(<<>>, a, b)
        BY <2>1, <3>1
      <4> HIDE DEF b
      <4>2. a = b
        BY <4>1, NoChain
      <4> QED
        BY <4>2 DEF b
    <3> QED
      BY <3>1, <3>2
  <2>3. ch = 0
    <3>1. ch \in {0, 1, 2}
      BY DEF Channels, MAX_CHANNELS
    <3>2. ch # 2
      BY <2>2 DEF Shows, BlankChannel, Blank
    <3>3. ch # 1
      BY <2>2 DEF Shows, ShowsPads
    <3> QED
      BY <3>1, <3>2, <3>3
  <2> DEFINE v == channel[0].valid
             w == channel[0].work
  <2>4. Near(Now) /\ v.type = KeyType[Now.key] /\ v.serial = Now.serial
        /\ v.buttons = ButtonsOf(Now.on \cap Written) /\ v.axes = Now.on \cap Axes
    BY <2>2, <2>3 DEF Shows, ShowsTool
  <2>5. KeyOn
    BY <2>4 DEF Near, Now
  <2>6. /\ Now = [key |-> wac.tool[0], serial |-> wac.serial[0], on |-> core.on]
        /\ ~Unheard(0) /\ wac.id[0] # 0 /\ ~Blocked(0)
    BY <2>1, <2>5, SingleFacts
  <2>7. /\ hand.tool[0] # NoTool
        /\ wac.tool[0] = ToolKeyOf(hand.tool[0].id) /\ wac.serial[0] = hand.tool[0].serial
    BY <2>1, <2>6 DEF SingleKernel, HeedsHand
  <2>8. core.on \cap Written = hand.pressed[0] \cap Codes
    BY <2>1, <2>6 DEF SingleKernel, PressesHand
  <2>9. core.on \cap Axes = hand.pressed[0] \cap Axes \cap Codes
    BY <2>8 DEF Axes, Written, PenSwitches
  <2>10. type \in IntuosTypes /\ 0 \in Slots
    BY DEF OneTool, Slots
  <2>11. /\ v.type = TypeInHand(hand.tool[0]) /\ v.serial = hand.tool[0].serial
         /\ v.buttons = ButtonsOf(hand.pressed[0] \cap Codes)
         /\ v.axes = hand.pressed[0] \cap Axes \cap Codes
    <3> HIDE DEF v
    <3> QED
      BY <2>4, <2>6, <2>7, <2>8, <2>9, <2>10 DEF TypeInHand
  <2> QED
    BY <2>3, <2>7, <2>10, <2>11
<1> QED
  BY <1>1, <1>2, <1>3, PTL DEF CarefulSpec

\* On a tablet that follows one tool: once the driver has read all, the pad's
\* channel has the express keys that the user presses.
THEOREM PadFollows ==
    ASSUME Supported, PadsLookedAt, NumbersApart
    PROVE  CarefulSpec => [](type \in OneTool => PadFollowsHand)
<1>1. ChannelsInit => ReadInv
  BY ReadStarts
<1>2. ReadInv /\ [ChannelsNext /\ CarefulUser /\ OneAtATime]_allVars => ReadInv'
  BY ReadStep
<1>3. ReadInv => (type \in OneTool => PadFollowsHand)
  <2> SUFFICES ASSUME ReadInv, type \in OneTool, Settled, NEW ch \in Channels,
                      channel[ch].valid.serial \in {PadSerial, DtusPadSerial}
               PROVE  /\ channel[ch].valid.type = "PAD"
                      /\ channel[ch].valid.buttons = ButtonsOf(hand.pads)
    BY DEF PadFollowsHand
  <2>1. SingleKernel /\ SingleReader /\ queue = <<>>
    BY DEF ReadInv, SingleInv, Settled
  <2>2. Shows(Now)
    <3>1. PICK a \in Moments : Shows(a) /\ Chain(queue, a, Now)
      BY <2>1 DEF SingleReader
    <3>2. a = Now
      <4> DEFINE b == Now
      <4>1. Chain(<<>>, a, b)
        BY <2>1, <3>1
      <4> HIDE DEF b
      <4>2. a = b
        BY <4>1, NoChain
      <4> QED
        BY <4>2 DEF b
    <3> QED
      BY <3>1, <3>2
  <2>3. ch = 1 /\ channel[1].valid.serial = PadSerial
    <3>1. ch \in {0, 1, 2}
      BY DEF Channels, MAX_CHANNELS
    <3>2. ch # 2
      BY <2>2 DEF Shows, BlankChannel, Blank, PadSerial, DtusPadSerial
    <3>3. ch # 0
      <4>1. channel[0].valid.serial \in Serials \cup {0}
        BY <2>2 DEF Shows, ShowsTool
      <4>2. Serials \subseteq Nat /\ DtusPadSerial \notin Serials
        BY ReportsAssumption DEF Serials, Tools, NumbersApart
      <4> QED
        BY <4>1, <4>2 DEF PadSerial, DtusPadSerial
    <3>4. channel[1].valid.serial \in {0, PadSerial}
      BY <2>2 DEF Shows, ShowsPads
    <3> QED
      BY <3>1, <3>2, <3>3, <3>4 DEF PadSerial, DtusPadSerial
  <2>4. channel[1].valid.type = "PAD" /\ channel[1].valid.buttons = ButtonsOf(Now.on \cap ExpressKeys)
    BY <2>2, <2>3 DEF Shows, ShowsPads
  <2>5. Now.on \cap ExpressKeys = hand.pads
    BY <2>1 DEF SingleKernel, PadsOn, Now
  <2> QED
    BY <2>3, <2>4, <2>5
<1> QED
  BY <1>1, <1>2, <1>3, PTL DEF CarefulSpec
=============================================================================
