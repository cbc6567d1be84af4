----------------------------- MODULE WacomSetup -----------------------------
(***************************************************************************)
(* The devices of a tablet from their sections of the configuration to     *)
(* their removal (src/xdrv/wcmConfig.c, wcmValidateDevice.c): what each is *)
(* allocated, what they come to share, the part of the tablet each has     *)
(* (xf86Wacom.c, wcmMapping.c), and the settings that clients change       *)
(* meanwhile (wcmXCommand.c).  What a device allocates is named after the  *)
(* device's section.                                                       *)
(***************************************************************************)
EXTENDS WacomScreens, FiniteSets

CONSTANTS
    Sections,     \* input sections that may name the tablet
    Options,      \* for each, the options it may have
    Layouts,      \* the screens the server may have
    Size,         \* the tablet's size, in its points: a record of x and y
    TouchSize,    \* its size for a finger
    TabletKeys,   \* {"touch"} if the kernel's key bits tell of a finger, or {}
    Bamboo,       \* TRUE: product id 0xd0 to 0xd3
    Risks,        \* what is done although it is known to go wrong, see below
    MaxCommands   \* bound: changes of settings by clients

Types == {"stylus", "eraser", "cursor", "touch", "pad"}
Paths == {"event", "link", "auto", "absent"}

ASSUME SetupAssumption ==
    /\ IsFiniteSet(Sections) /\ Options \in [Sections -> SUBSET
         [type: Types, path: Paths, source: {"conf", "hotplug"}, serial: Nat, core: BOOLEAN,
          rect: [Sides -> Nat], rotate: Rotations, mode: {"absolute", "relative", "default"},
          twinview: TwinViews, screen_no: -1 .. 9, shape: BOOLEAN, touch: {"on", "off", "default"}]]
    /\ \A l \in Layouts : l \in Seq([Sides -> Nat]) /\ Len(l) \in {1, 2}
    /\ \A l \in Layouts : \A n \in DOMAIN l : Width(l[n]) > 1 /\ Height(l[n]) > 1
    /\ {Size, TouchSize} \subseteq [x: Nat \ {0}, y: Nat \ {0}]
    /\ TabletKeys \subseteq {"touch"}
    /\ Bamboo \in BOOLEAN
    /\ Risks \subseteq {"no_tablet", "shared_removed", "no_number", "enabled_turned",
                      "no_area", "xinerama_of_one"}
    /\ MaxCommands \in Nat

VARIABLES
    devs,      \* each section's LocalDeviceRec and WacomDeviceRec
    commons,   \* each WacomCommonRec that was allocated
    tools,     \* each WacomTool
    areas,     \* each WacomToolArea
    screens,   \* the server's screens: sequence of rectangles
    pointer,   \* and the one its pointer is on
    commands,  \* how many settings were changed
    spun       \* history: tablets that were turned back to "none"

heapVars == <<devs, commons, tools, areas>>
setupVars == <<heapVars, screens, pointer, commands, spun>>

\* listed: the server has it in its list of input devices.
Gone == [live |-> FALSE, listed |-> FALSE]
Heap == [devs |-> devs, commons |-> commons, tools |-> tools, areas |-> areas]
Becomes(h) ==
    devs' = h.devs /\ commons' = h.commons /\ tools' = h.tools /\ areas' = h.areas

Common(h, s) == h.commons[h.devs[s].common]
Tool(h, s) == h.tools[h.devs[s].tool]
Elements(q) == {q[i] : i \in DOMAIN q}

\* A list after s was unlinked from it
Without(q, s) ==
    IF s \notin Elements(q) THEN q
    ELSE LET n == CHOOSE i \in DOMAIN q : q[i] = s
         IN  SubSeq(q, 1, n - 1) \o SubSeq(q, n + 1, Len(q))

-----------------------------------------------------------------------------
(* xf86WcmInit: the section, the port and the tool.                        *)

\* wcmDeviceTypeKeys leaves the keys as they are if it cannot open the device,
\* and is not called without one: they are then whatever was on the stack.
TypeKeys(path) ==
    IF path \in {"event", "link"} THEN {TabletKeys} ELSE SUBSET {"touch"}

\* wcmIsAValidType makes the section's type valid.
ValidKeys(o, keys) ==
    IF o.path # "absent" /\ o.type = "touch" THEN keys \cup {"touch"} ELSE keys

\* Slip: the device's name is compared.
SameName(s, o) ==
    \E e \in Sections \ {s} :
        /\ devs[e].live /\ devs[e].source # o.source
        /\ commons[devs[e].common].device = o.path

\* wcmIsDuplicate and xf86WcmCheckSource: the event device, by its number, is
\* in use by a section from elsewhere.  auto-dev has no number.
IsDuplicate(s, o) ==
    /\ o.path \in {"event", "link"}
    /\ \E e \in Sections \ {s} :
        /\ devs[e].live /\ devs[e].source # o.source
        /\ commons[devs[e].common].min_maj

\* xf86WcmAllocateStylus, -Touch, -Cursor, -Eraser and -Pad.  What a finger
\* does on a Bamboo is relative, if the tablet could be identified.
AbsoluteTypes(path) ==
    {"stylus", "eraser"} \cup
    (IF Bamboo /\ path \in {"event", "link"} THEN {} ELSE {"touch"})

\* xf86WcmAllocate
NewDevice(s, o) ==
    [live |-> TRUE, listed |-> TRUE, stage |-> "configured", type |-> o.type, source |-> o.source,
     core |-> o.core, absolute |-> o.type \in AbsoluteTypes(o.path),
     common |-> s, tool |-> s, toolarea |-> TRUE, shape |-> FALSE,
     rect |-> Whole, maxX |-> 0, maxY |-> 0, twinview |-> "none", screen_no |-> -1,
     currentScreen |-> -1, numScreen |-> Len(screens), wcmMMonitor |-> TRUE,
     tvoffset |-> [x |-> 0, y |-> 0], tvResolution |-> <<0, 0, 0, 0>>,
     screens |-> [n \in {0, 1} |-> Whole], desktop |-> [x |-> 0, y |-> 0],
     size |-> [x |-> 0, y |-> 0], mapped |-> [x |-> 0, y |-> 0],
     axes |-> [x |-> <<0, 0>>, y |-> <<0, 0>>]]

\* The tablet's touch settings start as off; its default follows the keys.
NewCommon(s, o, keys) ==
    [live |-> TRUE, devices |-> <<s>>, tools |-> <<s>>, min_maj |-> FALSE, rotate |-> "none",
     device |-> IF o.path = "link" THEN "link" ELSE "event", keys |-> keys,
     touchDefault |-> FALSE, touch |-> FALSE]

Allocated(s, o, keys) ==
    [devs    |-> [devs EXCEPT ![s] = NewDevice(s, o)],
     commons |-> [commons EXCEPT ![s] = NewCommon(s, o, keys)],
     tools   |-> [tools EXCEPT ![s] = [live |-> TRUE, typeid |-> o.type, serial |-> 0,
                                       areas |-> <<s>>]],
     areas   |-> [areas EXCEPT ![s] = [live |-> TRUE, rect |-> Whole]]]

\* xf86WcmMatchDevice: a device that was configured for the same port.
Matching(h, s) ==
    {e \in Sections \ {s} : h.devs[e].live /\ Common(h, e).device = h.commons[s].device}

Matched(h, s) ==
    IF Matching(h, s) = {} THEN h
    ELSE LET c == h.devs[CHOOSE e \in Matching(h, s) : TRUE].common
         IN  [h EXCEPT !.devs[s].common = c,
                       !.commons[s] = Gone, !.commons[c].devices = <<s>> \o @]

\* wcmDeviceSpecCommonOptions
SpecOptions(h, s, o) ==
    LET c == h.devs[s].common
        default == h.commons[c].touchDefault \/ "touch" \in h.commons[c].keys
    IN  [h EXCEPT !.commons[c].touchDefault = default,
                  !.commons[c].touch = IF o.touch = "default" THEN default ELSE o.touch = "on"]

\* The other options of xf86WcmInit: of the tablet, and of the device.  A pad
\* is in relative mode if it is a core device (xf86WcmSetPadCoreMode).
PadMode(d) == ~d.core

\* Other devices are in the mode asked for, or in that of their type.
Mode(d, o) ==
    IF d.type = "pad" THEN PadMode(d)
    ELSE CASE o.mode = "absolute" -> TRUE
           [] o.mode = "relative" -> FALSE
           [] OTHER               -> d.absolute

\* The screen, the shape and the part of the tablet
Placement(d, o) ==
    [d EXCEPT !.screen_no = o.screen_no, !.shape = o.shape, !.rect = o.rect]

Optioned(h, s, o) ==
    LET d == h.devs[s]
    IN  [h EXCEPT !.commons[d.common].rotate = IF o.rotate = "none" THEN @ ELSE o.rotate,
                  !.devs[s] = [Placement(d, o) EXCEPT !.absolute = Mode(d, o),
                                                      !.twinview = o.twinview],
                  !.areas[s].rect = o.rect,
                  !.tools[s].serial = o.serial]

\* A tool of the tablet with the section's type and serial number.
SameTool(h, s) ==
    {t \in Elements(Common(h, s).tools) :
        h.tools[t].typeid = h.tools[s].typeid /\ h.tools[t].serial = h.tools[s].serial}

\* The tool and the area join those of the tablet.
Joined(h, s) ==
    LET c == h.devs[s].common
        same == SameTool(h, s)
    IN  IF c = s THEN h
        ELSE IF same = {} THEN [h EXCEPT !.commons[c].tools = Append(@, s)]
        ELSE LET t == CHOOSE t \in same : TRUE
             IN  [h EXCEPT !.tools[s] = Gone, !.tools[t].areas = Append(@, s),
                           !.devs[s].tool = t]

\* SetupProc_fail, when no tablet is found for a section without a device: the
\* device is freed but the server keeps it in its list.  Unless "no_tablet", there is one.
Abandoned(h, s) ==
    [h EXCEPT !.devs[s] = [Gone EXCEPT !.listed = TRUE], !.commons[s] = Gone]

\* A section is configured when nothing that it once allocated is left, so
\* that its name is free.
NameFree(s) ==
    ~devs[s].listed /\ ~commons[s].live /\ ~tools[s].live /\ ~areas[s].live

\* The sections of the configuration file come first, then they are started,
\* then the tablet's others are plugged in, one by one.
InTurn(o) ==
    \A e \in Sections : devs[e].live =>
        IF o.source = "conf" THEN devs[e].source = "conf" /\ devs[e].stage = "configured"
        ELSE devs[e].stage # "configured"

Configure(s, o) ==
    /\ NameFree(s) /\ InTurn(o)
    /\ ~IsDuplicate(s, o)
    /\ \E keys \in TypeKeys(o.path) :
         LET h == Allocated(s, o, ValidKeys(o, keys))
             made == Joined(Optioned(SpecOptions(Matched(h, s), s, o), s, o), s)
             failed == IF o.path \in {"event", "link"} \/ "no_tablet" \notin Risks THEN {} ELSE {Abandoned(h, s)}
         IN  \E g \in {made} \cup failed : Becomes(g)
    /\ UNCHANGED <<screens, pointer, commands, spun>>

-----------------------------------------------------------------------------
(* xf86WcmUninit.                                                          *)

\* xf86WcmRemoveAssociates: the area, the tool, whoever else has it, and the
\* device.
AreaFreed(h, s) ==
    IF ~h.devs[s].toolarea THEN h
    ELSE [h EXCEPT !.tools[h.devs[s].tool].areas = Without(@, s), !.areas[s] = Gone]

\* Slip: the tablet's list keeps the tool.
ToolFreedListed(h, s) == [h EXCEPT !.tools[h.devs[s].tool] = Gone]

ToolFreed(h, s) ==
    LET d == h.devs[s]
    IN  [h EXCEPT !.commons[d.common].tools = Without(@, d.tool), !.tools[d.tool] = Gone]

DeviceFreed(h, s) ==
    [h EXCEPT !.commons[h.devs[s].common].devices = Without(@, s), !.devs[s] = Gone]

\* The last device frees what they had in common.
CommonFreed(h, c) == IF h.commons[c].devices = <<>> THEN [h EXCEPT !.commons[c] = Gone] ELSE h

SharesTool(s) == \E e \in Sections \ {s} : devs[e].live /\ devs[e].tool = devs[s].tool

\* What the call would dereference is there.
Intact(s) == devs[s].live /\ tools[devs[s].tool].live /\ commons[devs[s].common].live

\* Unless "shared_removed", a device that shares its tool is not.
Uninit(s) ==
    /\ Intact(s) /\ devs[s].stage # "on"
    /\ "shared_removed" \notin Risks => ~SharesTool(s)
    /\ Becomes(CommonFreed(DeviceFreed(ToolFreed(AreaFreed(Heap, s), s), s), devs[s].common))
    /\ UNCHANGED <<screens, pointer, commands, spun>>

-----------------------------------------------------------------------------
(* xf86WcmRegisterX11Devices, when a device is initialised and whenever it *)
(* is enabled again.                                                       *)

\* xf86WcmInitialToolSize: the device's size, which also fills in the areas of
\* all the tablet's tools.  The least x and y are 0.
ToolAreas(h, s) ==
    UNION {Elements(h.tools[t].areas) : t \in Elements(Common(h, s).tools)}

InitialToolSize(h, s) ==
    LET z == IF h.devs[s].type = "touch" THEN TouchSize ELSE Size
        Filled(r) == [r EXCEPT !.bottomX = IF @ = 0 THEN z.x ELSE @,
                               !.bottomY = IF @ = 0 THEN z.y ELSE @]
    IN  [h EXCEPT !.devs[s].maxX = z.x, !.devs[s].maxY = z.y,
                  !.areas = [a \in Sections |->
                     IF a \in ToolAreas(h, s)
                     THEN [h.areas[a] EXCEPT !.rect = Filled(h.areas[a].rect)] ELSE h.areas[a]]]

\* InitArea: the screen that the options name must be there.
Screened(d) ==
    LET n == IF Twin(d) THEN 2 ELSE d.numScreen
        none == d.screen_no # -1 /\ d.screen_no \notin 0 .. n - 1
                /\ (~Twin(d) \/ d.screen_no > 1)
    IN  DesktopSize([d EXCEPT !.numScreen = n, !.screen_no = IF none THEN -1 ELSE @], screens)

\* The rectangle is verified and, if asked, keeps the desktop's shape.
Fitted(d) ==
    LET r == Verified(d)
        e == Screened([d EXCEPT !.rect = r])
    IN  [e EXCEPT !.rect = IF d.shape THEN Shaped(d, r, e.desktop.x, e.desktop.y) ELSE r]

\* xf86WcmAreaListOverlap
Overlapped(h, s) ==
    \E e \in Elements(Tool(h, s).areas) \ {s} :
        AreasOverlap(h.areas[e].rect, h.areas[s].rect)

Sized(h, s) ==
    LET d == Fitted(h.devs[s]) IN [h EXCEPT !.devs[s] = d, !.areas[s].rect = d.rect]

\* An area that overlaps another, and is not the tool's first, is freed, and
\* its device leaves the tablet.
Refuses(h, s) == Head(Tool(h, s).areas) # s /\ Overlapped(h, s)

Refused(h, s) ==
    [h EXCEPT !.tools[h.devs[s].tool].areas = Without(@, s), !.areas[s] = Gone,
              !.devs[s].toolarea = FALSE,
              !.commons[h.devs[s].common].devices = Without(@, s)]

\* rotateOneTool of a device e that was as d.  Without rotation the area stays
\* as it is.
RotateOne(h, e, d, rotate) ==
    LET r == Rotated(d.rect, d.maxX, d.maxY, rotate)
        z == Turned(d, rotate)
    IN  [h EXCEPT !.devs[e] = BothCoordinates([d EXCEPT !.rect = r, !.maxX = z.x, !.maxY = z.y],
                                              pointer),
                  !.areas[e].rect = IF rotate = "none" THEN @ ELSE r]

\* The mode of a finger on a Bamboo is relative from then on.
Moded(h, s) ==
    [h EXCEPT !.devs[s].absolute = @ /\ ~(Bamboo /\ h.devs[s].type = "touch")]

Registered(h, s) ==
    Moded(RotateOne(h, s, h.devs[s], Common(h, s).rotate), s)

\* xf86WcmDevOpen: the first to open the tablet sets its number, which
\* it can have unless "no_number".
Opened(h, s) == [h EXCEPT !.commons[h.devs[s].common].min_maj = TRUE]

InUse(c) == \E e \in Sections : devs[e].live /\ devs[e].common = c /\ devs[e].stage = "on"

Openings(s) ==
    IF InUse(devs[s].common) THEN {Heap}
    ELSE {Opened(Heap, s)} \cup
         IF "no_number" \notin Risks THEN {} ELSE {[Heap EXCEPT !.commons[devs[s].common].min_maj = FALSE]}

Stage(h, s, stage) == [h EXCEPT !.devs[s].stage = stage]

\* DEVICE_INIT, and DEVICE_ON of a device that was disabled.  It may fail to
\* open; a device without an area cannot be registered.
Register(s, failed) ==
    /\ Intact(s) /\ devs[s].toolarea
    /\ \/ /\ ~InUse(devs[s].common)
          /\ Becomes(Stage(Heap, s, failed))
       \/ \E o \in Openings(s) :
            LET h == Sized(InitialToolSize(o, s), s)
            IN  Becomes(IF Refuses(h, s) THEN Stage(Refused(h, s), s, failed)
                        ELSE Stage(Registered(h, s), s, "on"))
    /\ UNCHANGED <<screens, pointer, commands, spun>>

DeviceInit(s) == devs[s].live /\ devs[s].stage = "configured" /\ Register(s, "failed")

\* Unless "enabled_turned", a device of a tablet that is turned is not enabled
\* again.
DeviceOn(s) ==
    /\ devs[s].live /\ devs[s].stage = "off"
    /\ "enabled_turned" \notin Risks => commons[devs[s].common].rotate = "none"
    /\ Register(s, "off")

DeviceOff(s) ==
    /\ devs[s].live /\ devs[s].stage = "on"
    /\ Becomes(Stage(Heap, s, "off"))
    /\ UNCHANGED <<screens, pointer, commands, spun>>

-----------------------------------------------------------------------------
(* Clients and the user.  A setting is changed of a device that was        *)
(* initialised, whether or not it is enabled, and not while the server     *)
(* adds another.                                                           *)

Settable(s) ==
    /\ \A e \in Sections : devs[e].live => devs[e].stage # "configured"
    /\ devs[s].live /\ devs[s].stage \in {"on", "off"}
    /\ commands < MaxCommands /\ commands' = commands + 1
    /\ UNCHANGED <<tools, screens>>

\* The device's record is all that changes.
Turns1(s, d) ==
    devs' = [devs EXCEPT ![s] = d] /\ UNCHANGED <<commons, areas, pointer, spun>>

AxisOf(side) == IF side \in {"topX", "bottomX"} THEN "x" ELSE "y"

\* Slip: a value that is refused stays in the area.
SideRefusedKept(h, s, side, value) == [h EXCEPT !.areas[s].rect[side] = value]

\* xf86WcmSetParam, TOPX to BOTTOMY: the area goes back to what it was.
SideRefused(h, s, side, value) == [h EXCEPT !.areas[s].rect[side] = h.devs[s].rect[side]]

SideSet(h, s, side, value) ==
    LET tried == [h EXCEPT !.areas[s].rect[side] = value]
    IN  IF h.devs[s].rect[side] = value THEN h
        ELSE IF Overlapped(tried, s) THEN SideRefused(h, s, side, value)
        ELSE [tried EXCEPT !.devs[s] =
                InitialCoordinates(MappingFactor([@ EXCEPT !.rect[side] = value], pointer),
                                   AxisOf(side), pointer)]

\* Unless "no_area", the rectangle is one, on the tablet, and larger than the
\* overlap of two screens.
Sensible(d) ==
    "no_area" \notin Risks =>
        /\ 0 <= d.rect.topX /\ d.rect.topX + 60 < d.rect.bottomX /\ d.rect.bottomX <= d.maxX
        /\ 0 <= d.rect.topY /\ d.rect.topY + 60 < d.rect.bottomY /\ d.rect.bottomY <= d.maxY

Resized(s, h) == devs' = h.devs /\ areas' = h.areas /\ UNCHANGED <<commons, pointer, spun>>

SetSide(s, side, value) ==
    /\ Settable(s) /\ devs[s].toolarea
    /\ Sensible([devs[s] EXCEPT !.rect[side] = value])
    /\ Resized(s, SideSet(Heap, s, side, value))

\* XYDEFAULT: the whole tablet, one side after the other.
SetDefault(s) ==
    /\ Settable(s) /\ devs[s].toolarea
    /\ LET h1 == SideSet(Heap, s, "topX", 0)
           h2 == SideSet(h1, s, "topY", 0)
           h3 == SideSet(h2, s, "bottomX", devs[s].maxX)
       IN  Resized(s, SideSet(h3, s, "bottomY", devs[s].maxY))

\* One device of the loop of xf86WcmRotateTablet.
TurnedTo(h, e, from, to) ==
    LET d == h.devs[e]
        z == Turned(d, from)
    IN  RotateOne(h, e, [d EXCEPT !.maxX = z.x, !.maxY = z.y,
                                  !.rect = Unrotated(@, d.maxX, d.maxY, from)], to)

\* Slip: only the device itself turns.
TurnedAlone(h, s, from, to) == TurnedTo(h, s, from, to)

\* xf86WcmRotateTablet to another rotation: all devices of the tablet, one
\* after the other.  What becomes of one does not depend on another.
AllTurned(h, s, from, to) ==
    LET all == Elements(Common(h, s).devices)
        Alone(e) == TurnedTo(h, e, from, to)
    IN  [h EXCEPT !.devs  = [e \in Sections |-> IF e \in all THEN Alone(e).devs[e] ELSE @[e]],
                  !.areas = [e \in Sections |-> IF e \in all THEN Alone(e).areas[e] ELSE @[e]]]

Rotate(s, to) ==
    /\ Settable(s)
    /\ commons[devs[s].common].live /\ commons[devs[s].common].rotate # to
    /\ LET c == devs[s].common
           from == commons[c].rotate
       IN  /\ \A e \in Elements(commons[c].devices) : devs[e].toolarea
           /\ LET h == AllTurned([Heap EXCEPT !.commons[c].rotate = to], s, from, to)
              IN  devs' = h.devs /\ commons' = h.commons /\ areas' = h.areas
           /\ spun' = IF to = "none" THEN spun \cup {c} ELSE spun
    /\ UNCHANGED pointer

\* xf86WcmDevSwitchModeCall.  A pad has no choice, and no coordinates.
SwitchMode(s, absolute) ==
    /\ Settable(s)
    /\ LET d == devs[s]
       IN  Turns1(s, IF d.type = "pad" THEN [d EXCEPT !.absolute = PadMode(d)]
                     ELSE IF d.absolute = absolute THEN d
                     ELSE BothCoordinates(MappingFactor([d EXCEPT !.absolute = absolute], pointer),
                                          pointer))

\* MMT: the axes are not told.
SetMMonitor(s, on) ==
    /\ Settable(s) /\ devs[s].wcmMMonitor # on
    /\ Turns1(s, MappingFactor([devs[s] EXCEPT !.wcmMMonitor = on], pointer))

SetScreenNo(s, n) ==
    /\ Settable(s) /\ n < devs[s].numScreen /\ n # devs[s].screen_no
    /\ Turns1(s, ChangeScreen(devs[s], n, screens, pointer))

\* TWINVIEW: with one screen again, the device is on that.
TwinViewSet(d, twinview) ==
    IF twinview = "none" /\ Len(screens) = 1
    THEN ChangeScreen([d EXCEPT !.twinview = twinview, !.currentScreen = 0], -1, screens, pointer)
    ELSE ChangeScreen([d EXCEPT !.twinview = twinview], d.screen_no, screens, pointer)

\* Unless "xinerama_of_one", a single screen is not made a Xinerama.
SetTwinView(s, twinview) ==
    /\ Settable(s) /\ devs[s].twinview # twinview
    /\ "xinerama_of_one" \notin Risks => twinview # "xinerama" \/ Len(screens) # 1
    /\ Turns1(s, TwinViewSet(devs[s], twinview))

\* TVRESOLUTION0 and 1: what is left of the screen goes to the other one.
Resolved(d, n, w, h) ==
    LET r == d.tvResolution
        s == screens[1]
    IN  CASE d.twinview \in OneAbove /\ n = 0 -> <<w, h, r[3], Height(s) - h>>
          [] d.twinview \in OneAbove /\ n = 1 -> <<r[1], Height(s) - h, w, h>>
          [] OTHER -> IF n = 0 THEN <<w, h, Width(s) - w, r[4]>> ELSE <<Width(s) - w, r[2], w, h>>

SetTVResolution(s, n, w, h) ==
    /\ Settable(s) /\ Twin(devs[s])
    /\ w <= Width(screens[1]) /\ h <= Height(screens[1])
    /\ LET d == [devs[s] EXCEPT !.tvResolution = Resolved(devs[s], n, w, h)]
       IN  Turns1(s, ChangeScreen(d, d.screen_no, screens, pointer))

\* COREEVENT: a pad's mode follows when it is next switched.
SetCore(s, core) ==
    /\ Settable(s) /\ devs[s].core # core
    /\ Turns1(s, [devs[s] EXCEPT !.core = core])

\* A tool is moved: xf86WcmSetScreen, where its tablet has its coordinates.
Move(s, v0, v1) ==
    /\ devs[s].live /\ devs[s].stage = "on"
    /\ LET r == SetScreen(devs[s], devs[s].core, v0, v1, screens, pointer)
       IN  devs' = [devs EXCEPT ![s] = r.v] /\ pointer' = r.pointer
    /\ UNCHANGED <<commons, tools, areas, screens, commands, spun>>

-----------------------------------------------------------------------------
SetupInit ==
    /\ screens \in Layouts
    /\ devs = [s \in Sections |-> Gone]
    /\ commons = devs /\ tools = devs /\ areas = devs
    /\ pointer \in 0 .. Len(screens) - 1
    /\ commands = 0 /\ spun = {}

\* What clients and users choose: ends of areas, places on the tablet and
\* resolutions.
Ends == {Size.x \div 3, Size.x}
Places == {<<Size.x \div 4, Size.y \div 4>>, <<(3 * Size.x) \div 4, (3 * Size.y) \div 4>>}
Halves == {<<Width(screens[1]) \div 4, Height(screens[1])>>}

Setting(s) ==
    \/ \E side \in Sides, value \in Ends : SetSide(s, side, value)
    \/ SetDefault(s)
    \/ \E to \in Rotations : Rotate(s, to)
    \/ \E b \in BOOLEAN : SwitchMode(s, b) \/ SetMMonitor(s, b) \/ SetCore(s, b)
    \/ \E n \in {-1, 0, 1} : SetScreenNo(s, n)
    \/ \E t \in TwinViews : SetTwinView(s, t)
    \/ \E n \in {0, 1}, wh \in Halves : SetTVResolution(s, n, wh[1], wh[2])

SetupNext ==
    \E s \in Sections :
        \/ \E o \in Options[s] : Configure(s, o)
        \/ Uninit(s) \/ DeviceInit(s) \/ DeviceOn(s) \/ DeviceOff(s)
        \/ Setting(s)
        \/ \E at \in Places : Move(s, at[1], at[2])

SetupSpec == SetupInit /\ [][SetupNext]_setupVars
-----------------------------------------------------------------------------
(* Properties.                                                             *)

Live == {s \in Sections : devs[s].live}
Working == {s \in Live : devs[s].stage = "on"}
Initialised == {s \in Live : devs[s].stage \in {"on", "off"}}
Placed == {s \in Initialised : devs[s].toolarea}

\* Whatever is configured, shared, refused and removed in whatever order, the
\* driver and the server keep no pointer to what was freed: a device's tablet,
\* tool and area are there and list it, and what they list is there.
NothingDangles ==
    /\ \A s \in Sections : devs[s].listed => devs[s].live
    /\ \A s \in Live :
         /\ commons[devs[s].common].live
         /\ tools[devs[s].tool].live
         /\ devs[s].tool \in Elements(commons[devs[s].common].tools)
         /\ devs[s].toolarea =>
              /\ areas[s].live
              /\ s \in Elements(tools[devs[s].tool].areas)
              /\ s \in Elements(commons[devs[s].common].devices)
    /\ \A c \in Sections : commons[c].live =>
         /\ \A e \in Elements(commons[c].devices) : devs[e].live
         /\ \A t \in Elements(commons[c].tools) :
              tools[t].live /\ \A a \in Elements(tools[t].areas) : areas[a].live /\ devs[a].live

\* When a client turns a tablet, every device of it, enabled or not, has the
\* same part of the tablet's surface as before, on a tablet of the same size:
\* "rotate all devices at once! else they get misaligned".
SurfaceOf(d, rotate) ==
    [rect |-> Unrotated(d.rect, d.maxX, d.maxY, rotate), size |-> Turned(d, rotate)]

RotatingKeepsPlace ==
    [][\A s \in Live : \A to \in Rotations : Rotate(s, to) =>
         LET c == devs[s].common
         IN  \A e \in Elements(commons[c].devices) :
                SurfaceOf(devs[e], commons[c].rotate)' = SurfaceOf(devs[e], commons[c].rotate)]_setupVars

\* The three copies of a device's part of the tablet agree however it is set,
\* turned, registered again or refused a change: the device's, which clients
\* are told; the area, which decides what device an event is for; and the
\* range of the axes, which the server scales by, for a device that is not on
\* a divided screen.  A tablet turned back to "none" is left out.
OneRectangle ==
    \A s \in Placed :
        LET d == devs[s]
            right == IF d.absolute THEN d.rect ELSE Area(0, 0, d.maxX, d.maxY)
        IN  /\ d.common \notin spun => areas[s].rect = d.rect
            /\ ~Twin(d) /\ d.type # "pad" =>
                 d.axes = [x |-> <<right.topX, right.bottomX>>, y |-> <<right.topY, right.bottomY>>]

\* The area turns with the device whatever the tablet is turned to.
AreaTurns == \A s \in Placed : areas[s].rect = devs[s].rect

\* A device is on a screen that there is, and bound to one only if there is.
ScreenExists ==
    \A s \in Placed :
        /\ devs[s].screen_no < devs[s].numScreen
        /\ devs[s].currentScreen \in 0 .. devs[s].numScreen - 1

\* Working devices of the tablet come from one source: "don't add the tool by
\* hal/udev if user has defined at least one tool for the device in xorg.conf".
OneSource == \A s, e \in Working : devs[s].source = devs[e].source

\* The areas of a tool's devices do not meet.
AreasApart ==
    \A s, e \in Placed :
        s # e /\ devs[s].tool = devs[e].tool => ~Meet(areas[s].rect, areas[e].rect)

\* A device that is enabled again has the part of the tablet it had.
EnablingKeepsPlace ==
    [][\A s \in Live : DeviceOn(s) /\ devs'[s].stage = "on" =>
         devs'[s].rect = devs[s].rect]_setupVars

\* A device is refused only if its part of the tablet meets another's: "Top/
\* Bottom area overlaps with another devices".
RefusedFairly ==
    [][\A s \in Live : DeviceInit(s) /\ ~devs'[s].toolarea =>
         \E e \in Live \ {s} :
            /\ devs[e].tool = devs[s].tool
            /\ Meet(devs'[s].rect, IF e \in Placed
                                   THEN SurfaceOf(devs[e], commons[devs[s].common].rotate).rect
                                   ELSE areas'[e].rect)]_setupVars

=============================================================================
