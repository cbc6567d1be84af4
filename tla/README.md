# A verification of the linuxwacom tablet drivers

linuxwacom is three programs that a tablet's data pass through in turn: a kernel
driver that turns the reports of the hardware into Linux input events, an X
driver that turns those events (or the packets of a serial tablet) into
proximity, motion, button and key events of X input devices, and clients that
configure the X driver while it runs.  This directory holds TLA+ models of that
path, the TLC configurations that check them on small tablets, and TLAPS proofs
of the results that do not depend on the tablet.  Paths below are relative to
`src/src` of the repository.

## 1. The system

### Components, their state and their operations

| component | source | state it keeps | operations | what makes it correct | module |
|---|---|---|---|---|---|
| Kernel tablet driver | `2.6.30/wacom_wac.c` | `wacom_wac` of each interface (tool, ids, serials, fingers down), `shared->stylus_in_proximity` | one `wacom_*_irq` per family of tablets | every change of the hardware reaches the event queue; what is announced is taken back | WacomWac, WacomModels, WacomReports |
| Kernel glue | `2.6.30/wacom_sys.c` | per interface its lock, open flag, URB and LED group; the shared record and its references; the tablet's mode and LEDs | probe, open, close, LED store, suspend, resume, disconnect | the shared record outlives its users; what is open is listened to; what is awake is set up | WacomSys |
| USB reader | `xdrv/wcmUSB.c` | `wcmChannel[]`, `wcmLastToolSerial`, the event array, the static `syslast` | `usbParseEvent`, `usbChooseChannel`, `usbParseChannel`, `usbFindDeviceType` | the events of one tool go to one channel; the channel's state is the tool's | WacomUSB (two ports), WacomChannels (protocol 5, displays) |
| Serial and ISDV4 readers | `xdrv/wcmSerial.c`, `xdrv/wcmISDV4.c`, `xf86WcmReadPacket` | link speed, model, packet length; `buffer`, `bufpos`; the channels | the start-up dialogue, cutting bytes into packets, three packet parsers | driver and tablet agree on speed and length; packets are reframed after lost bytes; the channels are the tools | WacomStart, WacomSerial |
| Common event path | `xdrv/wcmCommon.c` | a `WacomDeviceRec` per X device, `tool->current`, settings of the common record | `xf86WcmEvent`, `xf86WcmSuppress`, `commonDispatchDevice`, `xf86WcmSendEvents`, `xf86WcmSendButtons`, `xf86WcmSoftOutEvent` | proximity sessions: *Promise to the X server* | WacomDispatch, WacomSession |
| Gestures | `xdrv/wcmTouchFilter.c` | `wcmGestureMode`, `wcmTouchpadMode`, scroll direction, the fingers' last states and times | finger tap, two-finger tap, scroll, zoom, drag | a gesture lasts and ends; what it presses it releases | WacomTouch |
| Device lifecycle | `xdrv/xf86Wacom.c` | `fd`, `fd_refs`, `wcmInitedTools`, `wcmEnabledTools`, `wcmDevOpenCount` | `xf86WcmDevProc`, `xf86WcmDevOpen`, `xf86WcmDevClose`, `xf86WcmDevReadInput` | the descriptor is shared, opened once and closed once; reading resumes | WacomLifecycle |
| Configuration | `xdrv/wcmConfig.c`, `wcmValidateDevice.c` | the lists of devices, tablets, tools and areas | `xf86WcmInit`, `xf86WcmUninit`, duplicates, options | every pointer is to something alive; every device is an area of one tool | WacomSetup, WacomAreas |
| Screen mapping | `xdrv/wcmMapping.c` | screen number and rectangle, TwinView, axis ranges, rotation | rotation, screen changes, mapping factors | all tools of a tablet stay aligned; the copies of a rectangle agree | WacomScreens, WacomSetup |
| Client settings | `xdrv/wcmXCommand.c` | the settings in the records above | `xf86WcmSetParam`, `xf86WcmSetButtonParam`, `xf86WcmDevSwitchMode` | a change takes effect without breaking what is in flight | WacomDispatch, WacomTouch, WacomSetup |
| Filters, tilt | `wcmFilter.c`, `wcmTilt2Rotation.c` | the raw-sample ring | arithmetic on a sample | - | - |
| Tools, older kernel | `util/`, `wacomxi/`, `2.6.16/` | none that lasts; an older copy of the kernel driver | `xsetwacom`, `wacdump` | - | - |

The pieces interact by calls, queues and shared records.  The kernel's pen and
touch interfaces are two event devices with a queue each, and share one record.
The X server calls `xf86WcmDevReadInput` for whichever has data; the reader of
that port parses a frame into a channel and calls `xf86WcmEvent`, which calls
the gesture filter and dispatch, all without a break.  Everything in the X driver
happens in one thread, so the interleavings that matter are those between the
user, the two kernel queues, the server's order of reading them, the client
requests that come between two frames, and for a serial tablet the bytes that have
arrived when the driver reads.  In the kernel it is the USB core, the open and
close of input devices, the LED files and power management that interleave.

### What is hard here

* **Two queues and one flag.** `stylus_in_proximity` changes when the *kernel*
  sees the pen.  The driver's own idea of it, `syslast`, changes when the driver
  *reads*.  A touch event can be read after the pen's and was sent before it.
* **Only changes are sent.** `input_event` swallows values equal to the last.
  A state the driver loses (a dropped frame, one discarded at the start of a
  session, one sent to the wrong channel) is not repeated.
* **State is thrown away on purpose.** The first two samples of a pen, samples
  close to the last one, touch beside a pen, touch points at the edge.
* **Ghost sessions.** A tool that leaves one area for another, a pen that comes
  near while a finger is down, a cursor lifted too high: the driver invents a
  prox-out for a device that got none from the hardware, and must release what
  was pressed.
* **Settings change in flight.** Between the press and the release of a button a
  client may change what the button means, the mode that decides whether it is
  sent at all, or the serial number the device listens to.
* **A gesture is decided late.** Two fingers land one after the other, and what they
  mean is known only from how long they rest and where they go; until then, and
  while it lasts, the driver has to hold back what one finger alone would do.
* **A tablet speaks in bytes.** A read ends anywhere, a byte may be lost, an answer
  may come after the driver has stopped waiting, and tablet and driver can be at two
  different speeds, each left over from an earlier session.
* **Two tools, one device.** An Intuos follows two tools at once, but the input core
  keeps one value for a pressure, a button or a tool id, and a pad shares them too.
* **The tablet sleeps.** Resuming, resetting, opening and selecting an LED each set
  up part of the same hardware, under a lock that some of them hold while they wait.
* **Who owns what.** Devices are configured separately, found to be the same
  tablet and merged; tools and areas change hands, and are freed by whoever had them
  first.
* **Counters spread over devices** (`fd_refs`, `wcmInitedTools`,
  `wcmEnabledTools`), each kept by a different path of `xf86WcmDevProc`.

`PROJECT.json` lists each of these hazards at the line where it bites, with the
properties that would catch it.

## 2. The modules

```
WacomSession            abstract: proximity sessions, the promise to the X server
   ^ refines
WacomDispatch           wcmCommon.c from commonDispatchDevice down; client settings
   ^ extends   ^ extends
WacomUSB   WacomTouch   reader of two USB ports; two-finger gestures on one of them
   | extends
WacomWac                three tablets of 2.6.30/wacom_wac.c and the input core

WacomModels             tables of the kernel and the X driver: ids, capabilities, tools
   ^ extends
WacomReports            the other handlers of wacom_wac.c: Intuos, displays
   ^ extends
WacomChannels           the reader's channels for them, protocols 4 and 5

WacomStart  <--extends-- WacomSerial    start-up dialogue; packets, parsers, channels
WacomLifecycle          xf86Wacom.c: adding, enabling, disabling, removing devices
WacomAreas <- WacomScreens <- WacomSetup   areas; screens; configuration to removal
WacomSys                wacom_sys.c: probe, open, power, disconnect

MCDispatch MCTouch MCUsb MCTablets MCSerial MCLifecycle MCSetup      instances for TLC
WacomDispatchProof <-extends- WacomUSBProof, WacomTouchProof         theorems
WacomChannelsProof WacomSerialProof WacomSysProof WacomSetupProof WacomLifecycleProof
```

### WacomSession

The promise: an X device holds buttons and modifier keys only between its
ProximityIn and its ProximityOut; one report moves one device, and the most it
may do to another is to end its session; of the areas of one tool one is in a
session.  It has two variables, `inprox` and `pressed`, and one action.

### WacomDispatch

`priv[d]` is the `WacomDeviceRec` of an X device reduced to the fields whose
value outlives a call: `oldProximity`, `oldButtons`, the two Tablet PC flags,
`ABSOLUTE_FLAG`, `serial`, `button[]`, the pressure minimum and the hardware
proximity.  `current[t]` is `tool->current`; `wcmTPCButton`, `wcmTouch`,
`wcmThreshold` and `wcmMaxCursorDist` are fields of `WacomCommonRec`.  `down` and
`xprox` are not the driver's: they are what the X server has been told.

One sample through `commonDispatchDevice` is one step (`Dispatch`), since the code
does not yield.  The function's parts are operators in the code's order: the type
of a sample that has none (`Typed`), the tool (`ToolsFor`), the area (`AreaFor`)
and the soft prox-out it costs (`AreaOuts`), the touch devices sent out
(`TouchOuts`), the pressure (`MinPressure`, `Normalized`, `TipButton`), the samples
relative mode ends early (`Idles`), the cursor distance (`CursorDist`, `HeldOut`,
`Filtered`).  The ways a call can end are the three disjuncts
`DispatchNowhere`, `DispatchIdle`, `DispatchSend`.  What is posted for one device is a
function from a *view* (the driver's and the server's record of it) to a view:
`SendEvents`, `InProximity`, `OutOfProximity`, `SendButtons` with its three Tablet
PC cases, `SendAButtons`.  The settings of `wcmXCommand.c` are actions:
`SetButton`, `SetSerial`, `SetMode`, `SetTPCButton`, `SetTouch`, `SetThreshold`.
`Enable` is the server adding a device while others are in use.

Coordinates are positions, areas are sets of positions (so overlap needs no
geometry), and a button action is the set of X buttons and modifier keys it leaves
held.  `SendAButtons` gives the effect of the loop over the buttons in closed
form: where two buttons hold the same code, the last one sent decides.

There are two specifications.  `Spec` lets every setting change at any time, as
the code does.  `CarefulSpec` changes button actions and Tablet PC mode only
while no tool is in proximity, and the serial number only of devices that share
no tool.  The two conditions are not decoration: the run `stuck` shows what is
lost without the first.  All results below that name `CarefulSpec` need them.

### WacomWac

The kernel, for three tablets: the Tablet PC with two-finger touch
(`wacom_tpc_irq`), the Bamboo Pen & Touch (`wacom_bpt_irq`) and the Graphire4
(`wacom_graphire_irq`).  `hand` is the user; `wac` and `near` are the driver's record
and `stylus_in_proximity`; `core` holds what the input core remembers of each event
device, and `queue` the frames (events up to `SYN_REPORT`) the X driver has not
read.  Each of `PenMoves`, `TouchMoves`, `GraphireMoves` is one URB: the user moves,
the handler runs, the input core drops what did not change, and whatever is left
is queued.

### WacomUSB

The whole path.  `channel`, `wcmLastToolSerial` and `syslast` are the reader's.
`Read(c)` is one frame of one port through `usbParseEvent`, `usbChooseChannel`,
`usbParseChannel`, `xf86WcmEvent` and dispatch: `ReadEmpty` for the frames without
information, then `ParseDeaf` for touch that is off or beside a pen, and the four
ends of `xf86WcmEvent`: `Discard` (the first two pen samples), `DiscardJump`
(implausible Bamboo touch points), `Suppress` and `Use`.

### WacomLifecycle

The devices of one tablet as the X server sees them, apart from what they report.
`local[d]` is the device's `fd`, `wcmDevOpenCount` and `wcmInitKeyClassCount`, with the
number of key classes the server has for it; `common` is `fd_refs`, the two tool
counters and the LED descriptors; `port` is the kernel's side, how often the event
device is open and whether there is something to read.  `server[d]` is what the
server last did.  Each case of `xf86WcmDevProc` is an action: `DeviceInit`,
`DeviceOn`, `DeviceOff`, `DeviceClose`.  Opening may fail in each of the ways the code
provides for (`DevOpenFails`): the device cannot be opened, the tablet does not
answer, or registration fails before or after the key class.  The server drops a
device whose initialisation failed, may try again one that could not be enabled,
may close a device that is still enabled, and when all are closed may start another
generation with the same records (`Regenerate`).  `ReadInput` is
`xf86WcmDevReadInput`, whose ten rounds of reading empty the event device's buffer.

### WacomTouch

Two fingers, a pad on their port and, if wanted, a pen on another, over the
variables of WacomDispatch.  `states[f]` is what the filter remembers of finger `f`
(whether it was down in the last sample used and the one before, and the age of the
time stamp in it); `wcmGestureMode`, `wcmTouchpadMode` and `wcmScrollDirection` are the
common record's.  A sample of a finger (`Land`, `Move`, `Lift`) is one step:
`GestureFilter` follows `xf86WcmGestureFilter` in order (`Lag`, `EndGesture`,
`FingerTapToClick`, `ScrollOrZoom`), `FirstFingerClick` the drag of a touchpad,
and `Passed` what `xf86WcmEvent` posts or dispatches afterwards.  Samples that
touch switched off or a pen makes the reader drop, and those a Bamboo ignores because
they jump or lie on an edge, are `Unheard`: the reader's channel changes (`hand`,
`sample`), the filter's record does not.  A sample of another tool is `OtherSample`.
The last express key of a Bamboo is released with serial number 1 (`wacom_wac.c:289`), so
the release is a sample out of proximity on the first finger's channel
(`ReleasesFirst`): it becomes that finger's last used sample while the gesture stays
on, and the finger's next sample finds the channel cleared (`lost`).  Time is a `Tick` that makes every age older, up to the greatest the
code compares it with; the fingers' movement is what the filter asks about it
(`Motions`).  `CarefulTouchSpec` changes the settings only with no finger down.

### WacomModels, WacomReports and WacomChannels

`WacomModels` holds the tables: the product ids of each kernel type, the events
`wacom_setup_input_capabilities` declares for it, the model and protocol the X
driver takes it for, and how each side reads a tool id.  `WacomReports` is the
rest of `wacom_wac_irq`: `Enter`, `Exit`, `RangeReport`, `ToolPacket` and `Pad` for
`wacom_intuos_irq` (twenty kernel types, two tools at once on an Intuos), and
`DisplayTool` and `DtusPad` for the handlers of the displays and the PenPartner.
`hand` is the user, `wac` the driver's record by tool slot, `core` the input core's
current values, of which `Send` lets only the declared and changed ones through.
A range report is also written into the record that interfaces share
(`wacom_wac.c:637`), and `wacom_probe` makes one for the Intuos5 and Intuos Pro only
(`HasShared`): on every other tablet of `wacom_intuos_irq` the pointer is NULL and the
kernel dies of the report.  `RangeReport` is guarded by that, so what is said of
those tablets is said as long as none of their tools sends a range report.
`WacomChannels` is the reader: `ReadEmpty`, `ReadFrame` (`ChooseChannel`,
`ParseToolKey`, `ParseMisc`, `Retyped`, `After`) and `ReadLost` for a frame without a
channel, which forces every tool out.  `Close` and `Open` are a terminal switched
away and back: the kernel reads no reports meanwhile, the channels stay as they were.
`channel[ch].valid` is what `xf86WcmEvent` has passed on; dispatch itself is not
composed here.

### WacomStart and WacomSerial

`WacomStart` is the dialogue of `serialInit` and `isdv4Init`: `step` is where it is,
`port` the speed of the line, `tablet` the hardware with its own speed.  A tablet
hears what is written at its speed only (`Written`).  A request (`Requested`,
`Queried`) takes the first answer there is, which may be a late one of an
earlier request or data, or none.  A write, a wait or the setting of the speed may fail
in every step (`WriteFails`), and the tablet may have obeyed by then.  The resets, most
requests and the start then give the tablet up (`GivesUp`); a resolution that could not be
asked for has its default (`NoResolution`), a digitizer whose pen could not be asked is
asked for touch at 38400 baud (`NoPenQuery`), and one that could not be asked for touch
may have a pen (`NoTouchQuery`).  `WacomSerial` adds the tools, the bytes on the
wire and `xf86WcmReadPacket`: `Read` takes any number of the bytes that are there,
`Parse` one call of the model's parser (`SerialParse`, `ISDV4Parse`), `Drained` the end
of the loop, and `Lose` loses a byte.  A byte is a place in the packet it was sent in,
so that what is cut out of the buffer can be compared with what was sent.  Bit 8 of a
protocol 4 packet makes its tool an eraser, a mouse with its fourth button too
(`wcmSerial.c:1239`), and so does tip with the second side switch: `Fits` says of a channel that it shows
the tool in the hand, or an eraser that the buttons held do not tell from it
(`Distinct`).

### WacomSys

`tablet` is the hardware and its power, `node[i]` the `struct wacom` of an interface and
what the USB core keeps of it (its stage of binding, lock, open flag, URB, use
count, LED files), `data` the record the interfaces of one tablet share.
`wacom_probe` is the steps `Probe`, `Register`, `Bind` (or `ProbeFails`), because
the input device may be opened as soon as it is registered; `wacom_disconnect` is
`Disconnect`, `Unregister`, `Remove`; `wacom_open` is `OpenLocks` and `Open`, because
it waits for the tablet to wake in between.  `Suspend`, `Autosuspend` and `Resume`
take all bound interfaces at once; a `Resume` may find the tablet reset.
`PenMoves` writes `stylus_in_proximity`: a Tablet PC's and a Bamboo's pen in every report,
an Intuos5's or Pro's only if it sends a range report, and no report of theirs takes
it back.  Touch is held back by the record on the first two only (`TouchWaits`); the touch
interface of the others is refused.  `LedStore` is a write to an LED file while the interface is bound.
The file is there before `usb_set_intfdata(intf, wacom)` and after `usb_set_intfdata(intf,
NULL)` (`wacom_sys.c:614,797,817`), when a write finds no `struct wacom` and dies on a null pointer;
such a write changes nothing of the model's state and is no step.

### WacomAreas, WacomScreens and WacomSetup

`WacomAreas` and `WacomScreens` are operators without state: overlap,
verification and rotation of a rectangle; the screens a device is mapped to and
the ranges of its axes.  `WacomSetup` is the heap of the driver: `devs`, `commons`,
`tools` and `areas`, each named by the section that allocated it, with a flag that
says whether it was freed.  `Configure` is `xf86WcmInit` (matching an earlier
device of the same port, options, joining tools), `Uninit` is `xf86WcmUninit`;
`DeviceInit` and `DeviceOn` are `xf86WcmRegisterX11Devices` with its areas and
rotation; the client's settings are `SetSide`, `SetDefault`, `Rotate`, `SwitchMode`,
`SetMMonitor`, `SetScreenNo`, `SetTwinView`, `SetTVResolution` and `SetCore`, and `Move`
is what `xf86WcmSetScreen` does with a sample.  The geometry is exact integer
arithmetic, on a tablet of 240 by 160 points.

### How modules are laid out

A definition marked `Slip` is a plausible mistake in the definition after it.  No
specification uses it: each property is shown to reject at least one
(`PROJECT.json`, `mutants`), so that none of them holds whatever the code does.

## 3. The runs

A dozen runs are listed in `PROJECT.json`; the other `.cfg` files are
counterexamples, which the next table explains.

| run | tablet | what it shows |
|---|---|---|
| `areas` | a stylus tool with two areas, one added late, a position in neither, side button, Tablet PC mode | `TypeOK`; `NoStuckButton`, `HeldIsReported`, `ReportedIsHeld`: between the driver's record and the server's there is exactly what is owed; `OneInProxPerTool`: areas are handed over; `SessionSpec`: refinement |
| `tools` | mouse, pad and finger | where prox-outs are invented (cursor distance, relative mode, touch ended by another tool, samples whose type was lost) a device that goes out leaves nothing behind (`OutMeansOut`), and touch does end (`PenEndsTouch`) |
| `usb_touch` | Tablet PC, pen and two fingers, two queues | `NoTouchBesidePen` for any order of the two queues, with touch switched on and off |
| `usb_bamboo` | Bamboo, pen with side switch, finger, express key | `UsbTypeOK`; `PenFollowsHand` with a pad and fingers writing `wcmLastToolSerial` |
| `usb_graphire` | Graphire4, pen, mouse and express key, fair | `PadFollowsHand`, and the two liveness properties `PenArrives` and `PenLeaves`: every tool that stays near comes in, unless it is a mouse held too high, and every tool that leaves goes out |
| `lifecycle` | three devices and two server generations, fair | `DescriptorShared`: the event device is opened and closed once however openings, failures and closings interleave; `OnHasDescriptor` and `KeyClassOnce`: a device that opens early or again misses nothing and repeats nothing; `ReadWhenComplete` and `DataIsRead`: the counters keep the tablet from being read while a device is missing, and from then on let it be read |
| `gesture` | touchpad with two fingers and an express key, gestures and touch switched on and off | `GestureLasts`: neither time nor a finger that comes back turns one gesture into another; `NoDragInGesture`: the finger that began it holds no button meanwhile; `GestureEnds`: once both fingers have left the tablet no mode, direction or drag is left, though an express key's release may have taken the first finger's record meanwhile |
| `intuos` | fourteen tablets, one for every way of reporting tools with serial numbers or a display's pen | `ToolFollowsHand`, `PadFollowsHand`: when all is read, what was passed on is the tool, type, serial and switches in the hand, although only changes are sent and tools share the input core (no range report on the tablets that die of it); `NeverForcedOut` |
| `serial` | six serial models and the Tablet PC digitizers, left at any speed | `RunningInStep`, `OpensWhenAnswered`: the dialogue ends at the tablet's speed with the tablet known for what it is, and a tablet is not given up, unless in this open an answer was late or a write failed; `KeepsUnread`, `WholeIsParsed`: no byte is looked at before it has come, and no whole packet is skipped to find the next; `SettledFollowsHand`, `OneTypeAtATime`: the channels are the tools (or an eraser they cannot be told from), and one that was mistaken for another goes out before it comes back |
| `sys` | Tablet PC, Bamboo, Intuos4 S and M, Intuos5, Intuos Pro, with anything failing | `SharedInUse`: no handler runs on a freed record; `NoGhostPen`: no Tablet PC or Bamboo has its touch held back for a pen that is not near; `ListensWhenOpen`: exactly the open devices have a URB, whatever of open, close, sleep, wake and unbind came last; `SetUpWhenAwake`: mode and LEDs survive resets and selections made asleep |
| `setup` | two pens and a finger of one tablet, on one screen or two | `NothingDangles`: lists and pointers name only what is alive; `OneRectangle`: the device's, the area's and the server's idea of a rectangle agree; `OneSource`: a tablet is configured or plugged in, not both; `RotatingKeepsPlace`: all devices turn together and keep their part of the surface |
| `sys_open` | one tablet, autosuspended | a violation, see below |

### Where the code does otherwise

`sys_open` is a finding of `PROJECT.json`: `wacom_open` takes the interface's lock
and then wakes the tablet, and `wacom_resume` takes the same lock
(`2.6.30/wacom_sys.c:127-131,851`), so opening a tablet that the USB core has
suspended never returns.  Each of the following configurations ends in a
counterexample, in seconds or minutes.

| cfg (module) | property | what TLC finds | code |
|---|---|---|---|
| `StuckButton` (MCDispatch) | `NoStuckButton` | without the premise of `CarefulSpec`: Tablet PC mode turned on while a button is held; the prox-out releases nothing | `wcmCommon.c:130`, `wcmXCommand.c:358` |
| `SerialAreas` (MCDispatch) | `OneInProxAnyTool` | a tool with a configured serial: `xf86WcmSoftOutEvent` sends serial 0, which `xf86WcmSendEvents` filters out; two areas of the tool are in proximity | `wcmCommon.c:711` |
| `Leds` (MCLifecycle) | `LedsReachable` | the last device disabled closes the LED descriptors too, and enabling opens only the tablet's | `xf86Wacom.c:940` |
| `UsbPadKeys` (MCUsb) | `PadFollowsHand` | Bamboo express keys: pressed with serial 0xf0, released with serial 1, hence on two channels | `wacom_wac.c:289` |
| the same | property `NoTouchBesidePen` | an express key overwrites `syslast`; the reader forgets the pen and a finger comes in | `wcmUSB.c:1474` |
| `UsbGhostTouch` (MCUsb) | `TouchFollowsHand` | the lift of a finger is dropped beside a pen which itself never comes into proximity | `wcmUSB.c:1468` |
| `GestureOut` (MCTouch) | `FingersOut` | a gesture the second finger begins: the first lands and lifts within the lag, which swallows its prox-out; the second's lift then ends the gesture without a soft prox-out, because the last sample has the first still there, and button 1 stays held | `wcmTouchFilter.c:241` |
| `GestureTap` (MCTouch) | `OneClickPerTap` | the samples after a two-finger tap satisfy the tap's condition again: another right click each | `wcmTouchFilter.c`, `xf86WcmFingerTapToClick` |
| `Gesture` with its constants | `PadFollowsKeys` | a pad's samples are swallowed while a gesture is on, its release included | `wcmCommon.c:1203` |
| `GestureDrag` (MCTouch) | `DragIsDoubleTap` | `DEVICE_ID(priv->flags == TOUCH_ID)` is never `TOUCH_ID`: a drag ended by a pen is resumed by the finger's next sample, though no lift came before | `wcmCommon.c:1633` |
| `DualInput` (MCTablets) | `ToolFollowsHand` | two pens on an Intuos: the input core has one value of a button for both, and the second's press is not a change | `wacom_wac.c:1033` |
| `SerialUnread` (MCSerial) | `KeepsUnread` | a touch packet that is to be dropped is counted as read before all of it has come | `wcmISDV4.c:363` |
| `SysOpen` with `CarefulSpec` | `PenIsBound` | an Intuos4 S leaves its LED files behind when it is unbound, and cannot be bound again | `wacom_sys.c:660` |
| `SetupShared` (MCSetup) | `NothingDangles` | a device that shares its tool is removed and frees the tool | `wcmConfig.c:447` |
| `SetupShared`, `Risks = {"no_tablet"}` | `NothingDangles` | no tablet is found: the device is freed and stays in the server's list | `wcmConfig.c`, `SetupProc_fail` |
| `SetupShared`, `Risks = {"no_number"}` | `OneSource` | duplicates are found by device number, which stays 0 if `xf86WcmDevOpen` cannot stat the device (`xf86Wacom.c:750-765`): the same tablet is then taken twice | `wcmValidateDevice.c:60` |
| `SetupShared`, `Risks = {"no_area"}` | `OneRectangle` | a client leaves a device's rectangle without width; enabled again it is reshaped, and the next device to register fills in the area's bottom with the tablet's size while the device keeps its own | `xf86Wacom.c:297` |
| `SetupShared`, `Risks = {"xinerama_of_one"}` | `ScreenExists` | a single screen set to Xinerama is on a screen that there is not | `wcmXCommand.c:434` |
| `SetupTurned` (MCSetup) | property `RefusedFairly` | areas are compared when one is turned already and the other not | `wcmMapping.c:150` |
| `SetupTurned`, `Risks = {"enabled_turned"}` | property `EnablingKeepsPlace` | a device enabled again on a turned tablet is turned twice | `wcmMapping.c:812` |
| `SetupTurned` | invariant `AreaTurns` | turned back to none, a device's area stays turned | `wcmMapping.c:765-784` |
| `SetupCrossing` (MCSetup) | `AreasApart` | overlap is looked for at corners: two areas that cross are accepted | `wcmConfig.c:357` |

### Bounds, and why they are enough

* *Dispatch.* Two areas and a third position that is in neither give every
  transition: enter, cross, leave, return by either side.  Two hardware buttons
  (the tip and one side button) are what the Tablet PC logic tells apart, button 1 or
  any other.  Pressures lie below, inside and above the threshold's tolerance band,
  and below and above a rebased minimum.  The tools of a port are independent but for
  `TouchOuts`, which `tools` has on both sides.
* *USB.* `Heights` are the distances a mouse reports: in `usb_graphire` 0 and one beyond
  `wcmCursorProxoutDist`, elsewhere 0, since no mouse is there.  The pen's tip and side switch
  are pressed in the touch tablets' runs (`Pressed`); in `usb_graphire` the mouse's buttons
  and the express key are what is pressed.  `MaxQueue = 1`: the hardware rests while a frame of its port is unread.
  A port can still hold more than one frame, because a report of a Tablet PC or of
  a Bamboo may send three, and the two ports are read in any order.  Two fingers are
  all the reader has channels for.
* `Remapped`, `Renumbered`, `Late` name the devices whose settings change in a run,
  `Axes` whether a report changes a coordinate.  In the runs without fairness
  `Axes = {TRUE}` for the touch tablets loses only frames that say nothing new.
* *Lifecycle.* With three devices the first, a middle and the last to come or go are
  different ones, which is what `fd_refs` tells apart.  Within a generation a device is
  enabled and disabled without bound; `MaxGeneration = 2` gives the counters what an
  earlier generation leaves, and a third adds no new case to code that compares the
  counters only with each other.  (The proofs are for every bound.)
* `nSamples` counts to 2, which stands for more: the code compares it with 2 only.

* *Gestures.* One tick is the lag and one the tap time: an age is then below, at or
  above each time the code compares it with, and twice the tap time is a third case.
  Ages saturate one above that.  The settings change with no finger down.
* *Intuos and displays.* A user presses the tip and one or two switches of a tool,
  chosen so that every kind of packet matters on some tablet, and one express key
  (`SwitchesOf`, `PadKeys`); two tools are those an Intuos can follow.  `MaxQueue = 2`
  frames unread, so that the reader is behind the input core.
* *Serial.* `MaxWire = 13` bytes, one packet of the longest kind or part of two;
  `MaxLost = 1` byte lost, on two of the protocol 4 tablets (`Lossy`): the parser resynchronises at the first header, so a second loss starts from a state it
  has been in.  `ReadsWhole` names the tablet whose packets are not cut (see
  `SerialUnread`).
* *Kernel glue.* `MaxRefs = 3`, one more than the interfaces that share a record.
* *Setup.* Three sections: one that allocates, one that joins, and one of another
  type.  Options are a whole tablet or half of it, turned or not, configured or
  plugged in; `MaxCommands = 1` setting is changed, at any time and before or after
  any number of enablings and removals.

### What the passing runs assume of users

Where the code is right only if users do not do everything they may, the
specification a run checks says so in one named formula, and the table above says what
happens otherwise.

* `CarefulSpec` of WacomDispatch: button actions and Tablet PC mode change with no
  tool near, serial numbers only of devices that share no tool.
* `CarefulUser` of WacomChannels: a terminal is switched away with nothing near;
  nothing is pressed on a PL's or PenPartner's tool as it leaves, since its exit does
  not reset its switches; a tool leaves beside a pressed express key only after a
  position was reported, since otherwise its type is looked up among the keys the
  kernel holds, which are the pad's.  `OneAtATime`: of two tools, one is not out of
  range while the other's tip is down, since the range report resets their common
  pressure.  The dual-input tablets have a pen and a mouse, not two pens
  (`DualInput`).  A PTU's tool whose entry was not seen is left out: its exit is read
  as an entry.
* `CarefulUser` of WacomSerial: nothing is near the tablet until it is running and
  known, and the port is closed when all is read.
* `CarefulUser` of WacomSys: a pen leaves only while it is listened to, an Intuos
  Pro stays plugged in (its third interface's reference is never given back,
  `wacom_sys.c:456`), and no autosuspended tablet is opened (`sys_open`).
* `Risks` of WacomSetup is empty in `setup`; each of its members allows one thing of the
  table above.  `spun` leaves tablets turned back to none out of `OneRectangle`.

### Fairness

Two runs check liveness.  `FairUsbSpec` assumes two things.  `WF(Read(c))`: the server calls
`xf86WcmDevReadInput` for a descriptor with data, and the function reads until there
is none (`xf86Wacom.c:813-822`).  `SF(Jitter)`: a tool near the tablet is reported
again and again at coordinates that are not all the same, which is what a hand does;
without it the two samples discarded at the start of a session would be the only
ones, and the session would never start.  The condition is part of the claim.
Nothing is assumed of the user: `PenArrives` allows the tool to be taken away again,
and a mouse to be lifted off.  `commonDispatchDevice` keeps a mouse out of proximity while its
distance is off the nearest it has come by more than `wcmCursorProxoutDist`
(`wcmCommon.c:1582-1597`), so a mouse held high, though near the tablet, may never
come in again; `LiftedOff` is that comparison with the last sample used.
`xf86WcmSuppress` compares no distance, so a mouse whose distance alone changes may be
sent out or let in only with its next move or button.

The lifecycle's `FairSpec` assumes `WF` of reading by some enabled device, for the
same reason.  `DataIsRead` is conditional on its face: it speaks of the first
generation and of devices that are all enabled.  That is no more than the code
gives, because `wcmInitedTools` counts a device whose initialisation fails and is
never counted down, and `wcmEnabledTools` is counted down once for OFF and once more
for CLOSE: after either, the counters do not agree again and the tablet stays unread.

## 4. The proofs

Each `*Proof` module extends the module it is about.  The theorems hold for every
value of the constants that meets the module's named `ASSUME`, which states what the
configuration code or the hardware establishes, and no more; TLC evaluates each on
the instances of the runs.

**WacomDispatchProof**, for every set of devices, tools, areas, buttons, samples and
settings:

| theorem | states |
|---|---|
| `Invariant`, `TypeCorrect` | `CarefulSpec => []IInv`, `[]TypeOK` |
| `NothingStuck` | `CarefulSpec => []NoStuckButton` |
| `NothingUnowed` | `CarefulSpec => []HeldIsReported` |
| `NothingLost` | `CarefulSpec => []ReportedIsHeld` |
| `OneArea` | `CarefulSpec => []OneInProxPerTool` |
| `TouchEnded` | `CarefulSpec => PenEndsTouch` |
| `ProxOutArrives` | `CarefulSpec => OutMeansOut` |
| `Refinement` | `CarefulSpec => SessionSpec` |

`NoStuckButton` is not inductive: a prox-out releases the codes of the buttons the
driver *remembers*, so one must know that whatever is down at the server is owed to
a remembered button, that the Tablet PC flags agree with the mode and with what is
remembered, and that the driver's proximity is the server's.  That is `ViewInv`, a
predicate on the view of one device.  For `ReportedIsHeld` the converse is needed, too:
the codes held are those the remembered buttons give, in the Tablet PC case as well
(`HeldFor`), and a step of the loop over the buttons must not take back what another
one holds, which is so if no two buttons have a code in common (`Separate`; the
property's own condition).  `IInv` is `TypeOK`, `ViewInv` of every device,
`CurrentInv` (a tool's current device is one of its areas), `SerialInv` (a device
that is an area of a shared default tool listens to every serial number, without
which soft prox-outs are filtered) and `OneInProxPerTool`.  The proof follows the
code upwards: lemmas on `SendAButtons`, on each Tablet PC case, on `InProximity`,
`OutOfProximity` and `SendEvents` say that `ViewInv` is kept and what the device's
proximity is afterwards; a lemma on `Post` lifts them to all devices; then there is
one step per way a sample can end and one per setting.  The two action properties are
read off the same outcomes: `TouchEnded` from `TouchOuts`, `ProxOutArrives` from the
area that was current.  The attempt to prove the latter showed what it depends on:
the prox-out of a device that listens to one serial number arrives only if its
tool has no other area, and `OutMeansOut` says so.

The assumptions are those the configuration code establishes: every device is an
area of exactly one tool of its own type, two tools of a port differ in type or in
serial (`xf86WcmInit`), and values lie in their C ranges.

**WacomUSBProof**, for any of the three tablets, devices, areas and settings, and
any bound on what the driver leaves unread:

| theorem | assumes | states |
|---|---|---|
| `UsbInvariant`, `UsbTypeCorrect` | | `UsbSpec => []UsbInv`, `[]UsbTypeOK` |
| `UsbNothingStuck` | | `UsbSpec => []NoStuckButton` |
| `UsbRefinement` | | `UsbSpec => SessionSpec` |
| `HandInvariant` | | `UsbSpec => []HandInv` |
| `UsbPenFollows` | `PensAtPort`, `Unshared`, `TipFelt` | `UsbSpec => []PenFollowsHand` |
| `UsbPadFollows` | a Graphire, `PadsReached` | `UsbSpec => []PadFollowsHand` |
| `UsbNoTouchBesidePen` | `PensAtPort`, `Unshared`, `FingersAlone` | `UsbSpec => NoTouchBesidePen` |

`UsbInv` is `IInv /\ UsbTypeOK`; the work is to
show that every frame the kernel can queue is one the reader has a channel for and a
type for, whatever the hand does, so that what reaches dispatch is a sample of
`Packet`, and that dispatch's steps, now with samples made by the reader instead of
drawn from `Packets`, still keep `IInv`.

`HandInv` says what an unread queue is.  A *moment* is a pen (its tool and serial
number, what is pressed) and the express keys; `Now` is the moment that the input core
holds, which is the hand's.  The queue is a `Chain` of moments: the first is what the
reader's channels show (`Told`), the last is `Now`, and each frame `Tells` one from
the next.  A report of the kernel adds a link, since only changes are sent and what has
not changed is the same in both moments; a frame read takes one away.  With an empty
queue the two ends are the same moment, and the channels show the hand.
`UsbPenFollows` adds the last stretch (`PensInv`): the devices' records are what the
channel's last sample used makes of them, which neither the two discarded samples nor
the suppressed ones spoil.  It needs that the pens are configured on the pen's event device,
that an area is not shared by tools that listen to a serial number
(`SerialAreas` shows why), and that a tip pressed all the way is above every
threshold.  `UsbPadFollows` is about the tablet where pen and keys share a
report, an input core and a queue: each pad is enabled from the start, the only area of
the tool that takes serial number 0xf0.  A Bamboo is not included, because its
keys are pressed and released on two channels (`UsbPadKeys`).

`UsbNoTouchBesidePen` relates two queues that are read in any order.  The reader
decides by one variable, `syslast`: the channel of the last event it let through.
While a stylus or an eraser is in proximity that is the pen's channel (`BesideInv`),
which shows a pen in proximity (`PensInv`), so a finger's frame is not let through.
The pen's own frames put it there and bring in no touch device (`OthersStayOut`); what is
left is that every frame of the other port is taken for a finger's, although a frame
carries changes only and need not name the tool.  That is a chain again, of
sets of fingers (`FingerInv`): a frame that says nothing of a finger's key is about a
finger that is down, whose channel therefore has its type.  `FingersAlone` asks for two
ports, and for a Bamboo without express keys, since these are reported among
the fingers and take the pen's place in `syslast` (`UsbPadKeys`).

TLC evaluates the hypotheses on every instance of MCUsb (`ConfigurationAssumption`),
but for `FingersAlone`, which describes that of `usb_touch`.

**WacomChannelsProof**, for any tablets of WacomModels, tools, keys and switches:

| theorem | assumes | states |
|---|---|---|
| `ChannelsTyped` | | `ChannelsSpec => []ChannelsTypeOK` |
| `NeverForced` | `Supported`, `FewTools` | `CarefulSpec => []NeverForcedOut` |
| `ToolFollows` | `Supported`, `Agreed`, `PadsLookedAt` | `CarefulSpec => [](type \in OneTool => ToolFollowsHand)` |
| `PadFollows` | `Supported`, `PadsLookedAt`, `NumbersApart` | `CarefulSpec => [](type \in OneTool => PadFollowsHand)` |

`TypedInv` adds to the types what each report may contain.  `OneTool` are the types
of `wacom_intuos_irq` that follow one tool.  For them the argument is the chain
of moments again (`SingleKernel`, `SingleReader`; a report adds a link by `Continued`,
reading takes one away by `SingleReads`), now through twenty kernel types, tools that go
out of range, serial numbers that come in frames of their own and a terminal switched
away.  `NeverForced` follows from it there, for the one channel is free or holds the
tool whose frame is next.  On a tablet that follows two tools it follows from
`DualInv`: each number in the queue and in a channel is that of one of the tools.

What the theorems assume is what their proofs ran into:

* `Supported`: the tablet has declared the key of each tool.  Otherwise the input core
  swallows the tool's key.
* `Agreed`: both drivers take a tool's id for the same type.  They do not for ids like
  0x012 and 0x032, which the kernel reports as a pen and the X driver's
  `usbFindDeviceType` takes for a cursor.
* `FewTools`: on a tablet with dual input there are not more serial numbers than
  `MAX_CHANNELS`.  With more, `NeverForcedOut` is false: the exit of a tool
  that was near and never reported gets a channel and keeps it.
* `PadsLookedAt`: `KEY_PROG1` to `KEY_PROG3` of a Cintiq 22HD, which its pad report does not
  count when it asks whether any key is down, are not pressed.  `PadFollowsHand` does not
  hold for them alone.
* `NumbersApart`: no tool has the number by which the reader knows the pad of a
  DTU-1031.

TLC evaluates all five on the run's tablets (`TabletsAssumption`).

**WacomTouchProof**, for any settings and any pens beside the fingers:

| theorem | states |
|---|---|
| `TouchTyped` | `TouchSpec => [](TouchTypeOK /\ CurrentInv)` |
| `NothingDragged` | `CarefulTouchSpec => []NoDragInGesture` |
| `GestureStays` | `CarefulTouchSpec => GestureLasts` |
| `NothingLeft` | `CarefulTouchSpec /\ []~syslast /\ ModeKept => []GestureEnds` |

`TouchInv` is the types, the areas of tools, and `NoDragInGesture` itself.
`NothingLeft` needs its two hypotheses, and they are what the run `gesture` has (no pen,
no button that toggles the mode).  The channel of a finger that lifts beside a pen is
cleared although the filter did not hear it, and the mode then stays until a finger is
heard to lift; and a toggle of the device's mode while gestures are off leaves
`wcmTouchpadMode` on.  `PenlessInv` adds four things to `TouchInv`: without a pen a finger
the filter believes down is on the tablet and heard (`HeardInv`; not the converse, since
an express key's release clears the first finger's record); with gestures switched off
nothing but a drag of a finger on the tablet is on (`OffInv`); with touch switched off
nothing is (`QuietInv`); and only a relative device drags (`DragInv`).

**WacomSerialProof**, for any set of tablets, speeds, tools and lengths of the wire:

| theorem | states |
|---|---|
| `SerialInvariant` | `CarefulSpec => []SerialInv` |
| `TabletInStep` | `CarefulSpec => []RunningInStep` |
| `NotGivenUp` | `CarefulSpec => []OpensWhenAnswered` |
| `UnreadIsKept` | `CarefulSpec /\ TouchLength(IdOf(tablet)) # 13 => []KeepsUnread` |
| `WholeParsed` | `CarefulSpec => WholeIsParsed` |
| `SettledFollows` | `CarefulSpec /\ TouchLength(IdOf(tablet)) # 13 => []SettledFollowsHand` |

`SerialInv` has three parts.  `StartInv` says of each step of the dialogue what it may
rely on: whatever went wrong (`ResetInv`: the speed of the port after a reset, that the
tablet hears before the model is asked for, that only trouble leads to giving up),
and if nothing did (`CalmInv`: port and tablet have one speed, no answer is left over,
the tablet is `Known` for what it is).  The longest part is that a request's answer is
its own.  `QuietInv` is that nothing is near or on the wire before the tablet
runs, and `StreamInv` what bytes there may be.  `WholeParsed` adds that all packets of a
serial tablet have the length the driver knows and that only the first byte of one has
the header bit: the parser therefore stops skipping at the first whole packet.
`UnreadIsKept` excludes the digitizers of two fingers, whose 13-byte packets the parser
counts before they are complete (`SerialUnread`).

`SettledFollows` is the argument about what lies between the hand and the channels.  Its
invariant `SettleInv` says, as long as no byte was lost: the bytes that are unread are
whole packets (`Stream`); the packets lead, each telling of one tool what the one before
left (`Chain` over `Tells`), from a moment `m` to what is near now; and the channels
show `m` (`Shown`).  A moment is what each slot's tool is and how much the tablet has
told of it: in protocol 5 an id alone, the first half of a 4D mouse's position, or all.
Hardware steps lengthen the chain at its end, reading moves its bytes, and the parser
takes its first packet and shows what that packet tells.  The one exception is why a
digitizer's step is the hardest case: a finger is sent out as soon as the header of the
pen's packet is there, and the packet itself taken later (`OutBefore`).  When nothing is
unread the chain is empty and what is shown is the hand.  A dialogue that went wrong may
take one model for another, but then nothing is near.

`StartAssumption` says which tablets there are: none streams before it is opened, only
an Intuos has an old ROM, and a Tablet PC has a pen or a sensor and one of two speeds.

**WacomSysProof**, for any ports, products and number of interfaces:

| theorem | states |
|---|---|
| `SysInvariant`, `SysTyped` | `CarefulSpec => []IInv`, `[]SysTypeOK` |
| `RecordInUse` | `CarefulSpec => []SharedInUse` |
| `NoPenOfAnother` | `CarefulSpec => []NoGhostPen` |
| `OpenListens` | `CarefulSpec => []ListensWhenOpen` |
| `AwakeIsSetUp` | `CarefulSpec => []SetUpWhenAwake` |

`IInv` fits an interface's record to its stage of binding (`StageInv`), the count of
the shared record to the interfaces that use it (`RefsInv`), the URB to open flag,
stage and power (`ListenInv`), the mode and the LEDs to what was last asked for
(`ModeInv`, `SelectInv`), and says that an address without a tablet keeps nothing
(`AddressInv`) and that a pen in the record is a pen at the tablet (`NearInv`), on the
tablets of `TouchWaits`.  On an Intuos5 or an Intuos Pro a range report sets the flag and
nothing clears it, so neither `NearInv` nor `NoGhostPen` speaks of them.
`SharedInUse` alone is not inductive, because `wacom_remove_shared_data` frees by
count: one needs that the count is the number of users, and at least that on an Intuos
Pro, where the refused third interface keeps its reference.

**WacomSetupProof**, for any sections, options, screens, tablet size and any number of
settings, enablings and removals:

| theorem | states |
|---|---|
| `SetupSafe` | `CarefulSetup`: `SetupSpec => []SetupInv` |
| `NeverDangles` | `CarefulSetup`: `SetupSpec => []NothingDangles` |
| `TurnsTogether` | `CarefulSetup`: `SetupSpec => RotatingKeepsPlace` |
| `OneSourceWorks` | `CarefulSetup`, `PluggedByPath`, numbers known: `SetupSpec => []OneSource` |
| `RectanglesAgree` | `CarefulSetup`, not on a Bamboo: `SetupSpec /\ []EndsGiven => []OneRectangle` |

`SetupInv` is a sound heap, links and values, and that the server has screens.  Links: what a live record points to is
live, the lists of a tablet, a tool and an area hold exactly those that point back,
without duplicates, and who was freed is in no list.  Values: the records keep to
their types, a resolution of the halves of a screen that was given has a height, and
only halves overlap (`GoodDevice`); each is what some division of the next steps needs,
as `SetupAssumption`'s screens wider and higher than 1.  Neither half is inductive alone: a
removal follows the links of the removed, and `InitialToolSize` computes with the
rectangle of another device of the tool.  `CarefulSetup` is that `Risks` has neither
`no_tablet` nor `shared_removed`: with either `NothingDangles` is false, as the run
`SetupShared` shows.  `RotatingKeepsPlace` rests on arithmetic lemmas: `Unrotated`
undoes `Rotated`, and a turn by way of "none" is the turn.  `Sources`, the invariant of
`OneSourceWorks`, adds that a section of the configuration is live beside a plugged-in device
only if it has failed, and that a working device's tablet has a number; `PluggedByPath` is that what hal or udev adds comes with the path of its
device.  `PlacesAgree`, that of `RectanglesAgree`, says that the device's record, its area
and its axes have the same four sides once it is registered.  It takes
`EndsGiven`: an end of 0 means "not given" to the driver, and a rectangle whose start is
the tablet's last point gets that end when it is turned, and is then filled in anew.
A Bamboo is excluded because its finger becomes relative after its axes were set.

**WacomLifecycleProof**, for any finite set of devices and any number of generations:

| theorem | states |
|---|---|
| `TypeCorrect` | `Spec => []LifecycleTypeOK` |
| `DescriptorIsShared` | `Spec => []DescriptorShared` |
| `EnabledHasDescriptor` | `Spec => []OnHasDescriptor` |
| `KeyClassInitialisedOnce` | `Spec => []KeyClassOnce` |
| `ReadOnlyWhenComplete` | `Spec => ReadWhenComplete` |

None is inductive.  The invariant `IInv` adds that the open count and the descriptor
of a device agree with what the server did last (`LocalInv`), which is why an
`xf86WcmDevOpen` that returns at once misses nothing, and that the counters err on
the safe side (`CounterInv`): at least as many tools inited as the server has begun
to add, at most as many enabled as are enabled.  If they are equal the two sets are
equal too, which is `ReadWhenComplete`.  The sharing is proved from one device's side:
`Agree(v, n)` says what its view and the port agree on when `n` others hold the port,
lemmas show that every helper keeps it, and `ViewAgrees` and `BecomesAgrees` pass
between that and the cardinality of the set of holders.

### Only model-checked

* `ToolFollowsHand` and `PadFollowsHand` of WacomChannels for the displays and for
  tablets that follow two tools.  For the latter `ToolFollowsHand` depends on which tools there
  are (`DualInput`).
* `OneTypeAtATime` of WacomSerial, which looks at the single events of a step;
  `SettledFollowsHand` and `KeepsUnread` for the digitizers of two fingers.
* `OneRectangle` on a Bamboo and for rectangles one of whose ends is 0.
* `PenArrives`, `PenLeaves` and `DataIsRead` are liveness under fairness, which the
  proof system has no means for.

Nothing is proved about a recursive definition: the modules have none.
`StartTypeOK`, `SysTypeOK`, `TouchTypeOK` and `ChannelsTypeOK` are proved, or parts of
proved invariants, and no run lists them.

## 5. What the models leave out

* *Arithmetic on a sample*: filters (`wcmFilter.c`), pressure curve, tilt
  (`wcmTilt2Rotation.c`), scaling of coordinates, wheel and strip values.  They change
  no state that outlives a session but the ring of raw samples, and no other module
  depends on their results beyond "changed or not" and "pressed or not".
* *Key lists of buttons* (`util/wcmAction.c`, `xf86WcmSetButtonParam`'s upload and query): a
  button action is the set of codes it leaves held.  An action that toggles the
  screen or the display is not in `Actions`.
* *The composition of all readers with dispatch.*  The three tablets of WacomUSB go
  from the hand to the X server; Intuos, displays and serial tablets go as far as
  what `xf86WcmEvent` is given, and gestures start there.  In all of these modules a
  device is enabled once; in the lifecycle and setup modules devices come and go but
  nothing is reported.  A device disabled in mid-session is in none.
* The run `tools` has one area a tool and one common record: that a prox-out arrives when
  several devices share a tool's areas is shown by the theorem `ProxOutArrives`, not by
  that run, and the guard by another port's `wcmTouch` is never exercised there.
* *Relative touch* is in WacomTouch only; WacomUSB assumes touch absolute and
  gestures off.
* In the USB runs pressure is not recalibrated (`wcmNoPressureRecal`), because the
  manual page itself warns of lost buttons with it (`wacom.4x:253-256`); the
  dispatch runs have it on.
* A tool leaves the tablet with nothing pressed, except on the tablets of
  WacomReports whose exit report resets the switches.  The Bamboo's byte 17 is taken
  to agree with the finger bits of the same report.
* One-finger Tablet PCs over USB, frames of more than 32 events, and the reader's
  queries of a tablet's ranges.
* A range report of a tablet without a shared record: the handler then writes through
  NULL (`wacom_wac.c:637`), so WacomReports has range reports for `HasShared` only.  In
  the same way `LedStore` of WacomSys leaves out a store while the interface has no
  driver data, before `wacom_sys.c:797` and after 817, which would go through NULL.
* In WacomSys what a report descriptor says is reduced to whether it was read and is
  a finger's; in WacomStart the text of an answer to whose it is.
* `2.6.16/` is an older copy of `wacom_wac.c` and `wacom_sys.c` next to a vendored
  `hid-core.c`; `util/` and `wacomxi/` are clients and dumpers, sequential programs
  without state that lasts; `xdrv/wcmCompat.c` wraps system calls.

## 6. Plan

Proofs first, since the models they need are there:

1. `OneTypeAtATime`, from `SettleInv`.
2. `ToolFollowsHand` for the displays, by the same chain, and for two tools of an
   Intuos that share no switch.

Then the rest of the code:

3. A device disabled and enabled in mid-session (`xf86Wacom.c:1002`), in WacomUSB.
4. Key lists and their upload (`wcmXCommand.c:598,774`, `util/wcmAction.c`).
5. Pure algorithms against reference definitions: pressure curve, raw filter, wheel
   deltas.
