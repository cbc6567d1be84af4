---------------------------- MODULE WacomScreens ----------------------------
(***************************************************************************)
(* The screens a device is mapped to and the ranges of its axes            *)
(* (src/xdrv/wcmMapping.c).  The operators take a device v, a record with  *)
(* the WacomDeviceRec fields named below, and give the device after the    *)
(* call.  server is screenInfo: a sequence of the screens' rectangles, of  *)
(* which screen n is server[n + 1]; pointer is the screen the server's     *)
(* pointer is on.                                                          *)
(***************************************************************************)
EXTENDS WacomAreas, Sequences

TwinViews == {"none", "xinerama", "above_below", "left_right", "below_above", "right_left"}
SideBySide == {"left_right", "right_left"}
OneAbove == {"above_below", "below_above"}

\* twinview > TV_XINERAMA: the driver divides one server screen in two.
Twin(v) == v.twinview \in SideBySide \cup OneAbove

Width(a) == a.bottomX - a.topX
Height(a) == a.bottomY - a.topY
At(x, y, width, height) == Area(x, y, x + width, y + height)

-----------------------------------------------------------------------------
\* xf86WcmInitialTVScreens: the overlap of the two screens, their resolution
\* if nobody gave it ...
Resolutions(v, server) ==
    LET s == server[1]
        w == IF v.twinview \in SideBySide THEN Width(s) \div 2 ELSE Width(s)
        h == IF v.twinview \in OneAbove THEN Height(s) \div 2 ELSE Height(s)
    IN  IF v.tvResolution[1] = 0 THEN <<w, h, w, h>> ELSE v.tvResolution

TVOffset(v) ==
    IF v.screen_no # -1 THEN [x |-> 0, y |-> 0]
    ELSE IF v.twinview \in SideBySide THEN [x |-> 60, y |-> 0]
    ELSE [x |-> 0, y |-> 60]

\* ... and where they are.
TVScreens(twinview, r) ==
    CASE twinview = "above_below" -> <<At(0, 0, r[1], r[2]), Area(0, r[2], r[3], r[2] + r[4])>>
      [] twinview = "left_right"  -> <<At(0, 0, r[1], r[2]), Area(r[1], 0, r[1] + r[3], r[4])>>
      [] twinview = "below_above" -> <<Area(0, r[2], r[3], r[2] + r[4]), At(0, 0, r[1], r[2])>>
      [] twinview = "right_left"  -> <<Area(r[1], 0, r[1] + r[3], r[4]), At(0, 0, r[1], r[2])>>

InitialTVScreens(v, server) ==
    LET r == Resolutions(v, server)
        s == TVScreens(v.twinview, r)
    IN  [v EXCEPT !.numScreen = 2, !.tvoffset = TVOffset(v), !.tvResolution = r,
                  !.screens = [n \in {0, 1} |-> s[n + 1]]]

\* xf86WcmInitialScreens.  A single screen is at the origin.
InitialScreens(v, server) ==
    IF Twin(v) THEN InitialTVScreens(v, server)
    ELSE [v EXCEPT !.numScreen = Len(server), !.tvoffset = [x |-> 0, y |-> 0],
                   !.screens = [n \in {0, 1} |-> IF n < Len(server) THEN server[n + 1] ELSE @[n]]]

Least(S) == CHOOSE m \in S : \A n \in S : m <= n
Most(S) == CHOOSE m \in S : \A n \in S : n <= m

\* xf86WcmDesktopSize
DesktopSize(v, server) ==
    LET w == InitialScreens(v, server)
        shown == {w.screens[n] : n \in 0 .. w.numScreen - 1}
    IN  [w EXCEPT !.desktop =
           [x |-> Most({s.bottomX : s \in shown}) - Least({s.topX : s \in shown}),
            y |-> Most({s.bottomY : s \in shown}) - Least({s.topY : s \in shown})]]

-----------------------------------------------------------------------------
\* xf86WcmVirtaulTabletSize
VirtualTabletSize(v) ==
    [x |-> Width(v.rect) - (IF v.absolute THEN v.tvoffset.x ELSE 0),
     y |-> Height(v.rect) - (IF v.absolute THEN v.tvoffset.y ELSE 0)]

\* The screen a device is on: the one it is bound to, the pointer's if it is
\* used like a mouse or was on none, or the one it was on.
CurrentScreen(v, pointer) ==
    IF ~v.absolute \/ ~v.wcmMMonitor THEN pointer
    ELSE IF v.screen_no # -1 THEN v.screen_no
    ELSE IF v.currentScreen = -1 THEN pointer ELSE v.currentScreen

\* xf86WcmMappingFactor: factorX is mapped.x / size.x.
MappingFactor(v, pointer) ==
    LET n == CurrentScreen(v, pointer)
        one == v.screen_no # -1 \/ Twin(v) \/ ~v.wcmMMonitor
    IN  [v EXCEPT !.size = VirtualTabletSize(v), !.currentScreen = n,
                  !.mapped = IF one THEN [x |-> Width(v.screens[n]), y |-> Height(v.screens[n])]
                             ELSE v.desktop]

\* xf86WcmInitialCoordinates: the range of an axis that begins at top, is
\* size long, and has this offset.
AxisRange(v, top, size, offset, max) ==
    IF ~v.absolute THEN <<0, max>>
    ELSE <<top + (IF Twin(v) /\ v.currentScreen = 1 THEN offset ELSE 0),
           top + size - (IF Twin(v) /\ v.currentScreen = 0 THEN offset ELSE 0)>>

RangeX(v) == AxisRange(v, v.rect.topX, v.size.x, v.tvoffset.x, v.maxX)
RangeY(v) == AxisRange(v, v.rect.topY, v.size.y, v.tvoffset.y, v.maxY)

InitialCoordinates(v, axis, pointer) ==
    LET w == MappingFactor(v, pointer)
    IN  IF axis = "x" THEN [w EXCEPT !.axes.x = RangeX(w)] ELSE [w EXCEPT !.axes.y = RangeY(w)]

BothCoordinates(v, pointer) ==
    InitialCoordinates(InitialCoordinates(v, "x", pointer), "y", pointer)

\* xf86WcmChangeScreen
ChangeScreen(v, screen, server, pointer) ==
    LET w == [v EXCEPT !.screen_no = screen,
                       !.currentScreen = IF screen # -1 THEN screen ELSE @]
    IN  BothCoordinates(InitialScreens(w, server), pointer)

-----------------------------------------------------------------------------
\* xf86WcmSetScreen.  Where the tool is, the desktop is divided by the overlap.
TwinScreen(v, v0) ==
    LET across == v.twinview \in SideBySide
        top    == IF across THEN v.rect.topX ELSE v.rect.topY
        bottom == IF across THEN v.rect.bottomX ELSE v.rect.bottomY
        offset == IF across THEN v.tvoffset.x ELSE v.tvoffset.y
        first  == IF v.twinview \in {"left_right", "above_below"} THEN 0 ELSE 1
    IN  IF v0 > top /\ v0 <= top + offset THEN first
        ELSE IF v0 > bottom - offset /\ v0 <= bottom THEN 1 - first
        ELSE v.currentScreen

\* Screen n of a device whose tool is at v0, v1 of its area; a screen ends half
\* a point before its edge.
OnScreen(v, n, v0, v1) ==
    LET x == v0 * v.mapped.x
        y == v1 * v.mapped.y
        s == v.screens[n]
    IN  /\ x >= s.topX * v.size.x /\ 2 * x < (2 * s.bottomX - 1) * v.size.x
        /\ y >= s.topY * v.size.y /\ 2 * y <= (2 * s.bottomY - 1) * v.size.y

\* The screens that the device can be on after it was at v0, v1: none, or one.
ScreenAt(v, v0, v1) ==
    IF v.screen_no # -1 THEN {v.screen_no}
    ELSE LET hit == {n \in 0 .. v.numScreen - 1 : OnScreen(v, n, v0, v1)}
         IN  IF hit = {} THEN {} ELSE {Least(hit)}

\* The device, and the screen the server's pointer is then on.  Only a core
\* device moves it.
SetScreen(v, core, v0, v1, server, pointer) ==
    LET d == [v EXCEPT !.screen_no = IF @ >= v.numScreen THEN -1 ELSE @]
        w == MappingFactor(
               IF Twin(d) /\ d.screen_no = -1 /\ d.absolute
               THEN [d EXCEPT !.currentScreen = TwinScreen(d, v0)] ELSE d, pointer)
        to == ScreenAt(w, v0 - w.rect.topX, v1 - w.rect.topY)
    IN  IF ~core THEN [v |-> d, pointer |-> pointer]
        ELSE IF ~w.absolute \/ Len(server) = 1 \/ ~w.wcmMMonitor \/ to = {}
        THEN [v |-> w, pointer |-> pointer]
        ELSE LET n == Least(to)
             IN  [v |-> MappingFactor([w EXCEPT !.currentScreen = n], pointer), pointer |-> n]
=============================================================================
