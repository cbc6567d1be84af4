------------------------------- MODULE WacomSys -------------------------------
(***************************************************************************)
(* The USB side of the kernel driver (src/2.6.30/wacom_sys.c): a tablet's  *)
(* interfaces are probed, opened, closed, suspended, resumed and           *)
(* disconnected one by one, and share a record that is counted by          *)
(* references.  A probe or disconnect of one interface is not interrupted  *)
(* by that of another of the same tablet, but an input device may be       *)
(* opened as soon as it is registered.  An LED file leads to a struct      *)
(* wacom only while the interface is bound.                                *)
(***************************************************************************)
EXTENDS Integers, FiniteSets

CONSTANTS
    Kinds,          \* the tablets that may be plugged in
    MayFail,        \* TRUE: allocations, transfers and submissions may fail
    MaxRefs         \* bound: references to a tablet's record

\* A Tablet PC with two fingers (TABLETPC2FG), a Bamboo, an Intuos4 S and M,
\* an Intuos5 and an Intuos Pro.
Interfaces == [TPC2 |-> {"pen", "touch"}, BPT |-> {"pen", "touch"}, I4S |-> {"pen"},
               I4 |-> {"pen"}, I5 |-> {"pen", "touch"}, PRO |-> {"pen", "touch", "extra"}]
Sharing == {"TPC2", "BPT", "I5", "PRO"}
\* The tablets whose touch is held back while the record says a pen is near
TouchWaits == {"TPC2", "BPT"}
HasLeds == {"I4S", "I4", "I5", "PRO"}
Ifaces == {"pen", "touch", "extra"}

ASSUME SysAssumption ==
    /\ Kinds \subseteq DOMAIN Interfaces
    /\ MayFail \in BOOLEAN
    /\ MaxRefs \in Nat \ {0, 1, 2}

Unplugged == "none"
Selects == {0, 1}

VARIABLES
    tablet,  \* the hardware at a USB address, and its power
    node,    \* per interface its struct wacom and what the USB core keeps
    data,    \* the address's wacom_usbdev_data; refs is 0 when there is none
    failed   \* something has failed since the tablet was plugged in

sysVars == <<tablet, node, data, failed>>

Stages == {"new", "unbound", "refused", "made", "registered", "bound", "leaving", "removed"}
Unbound == {"new", "unbound", "refused"}

SysTypeOK ==
    /\ tablet \in [kind: DOMAIN Interfaces \cup {Unplugged}, plugged: BOOLEAN, pen: BOOLEAN,
                   power: {"on", "system", "auto"}, mode: SUBSET Ifaces, leds: Selects]
    /\ node \in [Ifaces -> [stage: Stages, open: BOOLEAN, urb: BOOLEAN, lock: BOOLEAN,
                            usage: BOOLEAN, finger: BOOLEAN, shared: BOOLEAN, group: BOOLEAN,
                            select: Selects]]
    /\ data \in [refs: 0 .. MaxRefs, near: BOOLEAN]
    /\ failed \in BOOLEAN

NoData == [refs |-> 0, near |-> FALSE]
Fresh == [stage |-> "new", open |-> FALSE, urb |-> FALSE, lock |-> FALSE,
          usage |-> FALSE, finger |-> FALSE, shared |-> FALSE, group |-> FALSE, select |-> 0]

On == tablet.power = "on"
Works == tablet.plugged /\ On
Of(i) == i \in Interfaces[tablet.kind]
At(i, stage) == node[i].stage = stage
\* The USB core holds the tablet while it binds or unbinds an interface.
Quiet == \A i \in Ifaces : node[i].stage \in Unbound \cup {"bound"}
Set(i, fields) == [node EXCEPT ![i] = [f \in DOMAIN @ |-> IF f \in DOMAIN fields THEN fields[f] ELSE @[f]]]

-----------------------------------------------------------------------------
(* The hardware and its user.                                              *)

Plug ==
    /\ tablet.kind = Unplugged
    /\ \E kind \in Kinds, pen \in BOOLEAN, leds \in Selects :
         tablet' = [kind |-> kind, plugged |-> TRUE, pen |-> pen, power |-> "on", mode |-> {},
                    leds |-> leds]
    /\ failed' = FALSE
    /\ UNCHANGED <<node, data>>

Unplug ==
    /\ tablet.kind # Unplugged /\ tablet.plugged
    /\ tablet' = [tablet EXCEPT !.plugged = FALSE, !.power = "on"]
    /\ UNCHANGED <<node, data, failed>>

\* When all interfaces are unbound the address is free for another tablet;
\* files that were left behind go with the interface.
Forget ==
    /\ tablet.kind # Unplugged /\ ~tablet.plugged
    /\ \A i \in Ifaces : node[i].stage \in Unbound
    /\ tablet' = [tablet EXCEPT !.kind = Unplugged]
    /\ node' = [i \in Ifaces |-> Fresh]
    /\ UNCHANGED <<data, failed>>

\* wacom_sys_irq, for the pen's packets: near is stylus_in_proximity.  On an
\* Intuos5 or Pro a range report sets it, which a pen that is near may or may
\* not have sent, and no report clears it.
PenMoves(near) ==
    /\ Works
    /\ tablet' = [tablet EXCEPT !.pen = near]
    /\ IF node["pen"].urb /\ tablet.kind \in Sharing
       THEN \E ranged \in {FALSE, near} :
              data' = [data EXCEPT !.near = IF tablet.kind \in TouchWaits THEN near ELSE @ \/ ranged]
       ELSE UNCHANGED data
    /\ UNCHANGED <<node, failed>>

\* wacom_sys_irq cannot submit its URB again.
IrqFails(i) ==
    /\ MayFail /\ node[i].urb
    /\ node' = Set(i, [urb |-> FALSE])
    /\ failed' = TRUE
    /\ UNCHANGED <<tablet, data>>

-----------------------------------------------------------------------------
(* Set-up messages.                                                        *)

\* wacom_query_tablet_data puts all but the Tablet PCs' pens in Wacom mode.
\* Its last failure is ignored.
Queried(i) == tablet.kind # "TPC2" \/ node[i].finger

\* wacom_parse_hid: a Tablet PC's or Bamboo's interface is for fingers if its
\* report descriptor says so; one that cannot be read makes it a pen's.
Fingers(i, read) == tablet.kind \in TouchWaits /\ i = "touch" /\ read

\* What may come of n messages: those that get through
Sent(messages) ==
    IF ~tablet.plugged THEN {{}} ELSE IF MayFail THEN SUBSET messages ELSE {messages}

-----------------------------------------------------------------------------
(* wacom_probe and wacom_disconnect.                                       *)

\* Slip: the second interface takes no reference.
TakeSharedUncounted == [data EXCEPT !.refs = 1]

\* wacom_add_shared_data, with wacom_get_usbdev_data
TakeShared == [data EXCEPT !.refs = @ + 1]

\* Slip: the record is never taken off the list.
DropSharedNever(i) == data

\* wacom_remove_shared_data: the last one frees it.
DropShared(i) ==
    IF ~node[i].shared THEN data
    ELSE IF data.refs = 1 THEN NoData ELSE [data EXCEPT !.refs = @ - 1]

\* The third interface of an Intuos Pro is refused, but its reference is kept.
Refused(i) ==
    \/ i = "touch" /\ tablet.kind \in {"I5", "PRO"}
    \/ tablet.kind = "PRO" /\ data.refs > 0

\* The USB core begins with the pen's interface.
Probed(i) ==
    /\ Works /\ Quiet /\ Of(i) /\ node[i].stage \in Unbound
    /\ i # "pen" => node["pen"].stage # "new"

\* Up to wacom_initialize_leds: LED files that are still there from an
\* earlier driver are an error.
Probe(i) ==
    /\ Probed(i) /\ data.refs < MaxRefs
    /\ IF Refused(i)
       THEN /\ data' = IF i = "touch" THEN data ELSE TakeShared
            /\ node' = Set(i, [stage |-> "refused"])
            /\ UNCHANGED <<tablet, failed>>
       ELSE IF node[i].group
       THEN node' = Set(i, [stage |-> "refused"]) /\ UNCHANGED <<tablet, data, failed>>
       ELSE \E sent \in (IF tablet.kind \in HasLeds THEN Sent({"leds"}) ELSE {{}}),
               read \in (IF MayFail THEN BOOLEAN ELSE {TRUE}) :
              /\ data' = IF tablet.kind \in Sharing THEN TakeShared ELSE data
              /\ node' = Set(i, [stage |-> "made", shared |-> tablet.kind \in Sharing,
                                 group |-> tablet.kind \in HasLeds, select |-> 0,
                                 finger |-> Fingers(i, read)])
              /\ tablet' = IF sent = {} THEN tablet ELSE [tablet EXCEPT !.leds = 0]
              /\ failed' = (failed \/ ~read \/ (tablet.kind \in HasLeds /\ sent = {}))

\* wacom_destroy_leds does not know the Intuos4 S.
GroupLeft(i) == node[i].group /\ tablet.kind = "I4S"

Gone(i, stage) ==
    /\ data' = DropShared(i)
    /\ node' = [node EXCEPT ![i] = [Fresh EXCEPT !.stage = stage, !.group = GroupLeft(i)]]

Register(i) ==
    /\ At(i, "made")
    /\ node' = Set(i, [stage |-> "registered"])
    /\ UNCHANGED <<tablet, data, failed>>

ProbeFails(i) ==
    /\ MayFail
    /\ \/ At(i, "made") /\ Gone(i, "refused")
       \/ /\ Probed(i)
          /\ node' = Set(i, [stage |-> "refused"]) /\ UNCHANGED data
    /\ failed' = TRUE
    /\ UNCHANGED tablet

\* The input device is registered before the tablet is put in Wacom mode.
Bind(i) ==
    /\ At(i, "registered") /\ ~node[i].lock
    /\ node' = Set(i, [stage |-> "bound"])
    /\ \E sent \in (IF Queried(i) THEN Sent({"mode"}) ELSE {{}}) :
         /\ tablet' = IF sent = {} THEN tablet ELSE [tablet EXCEPT !.mode = @ \cup {i}]
         /\ failed' = (failed \/ (Queried(i) /\ sent = {}))
    /\ UNCHANGED data

\* The tablet is gone, or the driver is unbound from the interface.
Disconnect(i) ==
    /\ Quiet /\ At(i, "bound") /\ On
    /\ node' = Set(i, [stage |-> "leaving", urb |-> FALSE])
    /\ UNCHANGED <<tablet, data, failed>>

\* input_unregister_device closes the device.
Unregister(i) ==
    /\ At(i, "leaving") /\ ~node[i].lock
    /\ node' = Set(i, [stage |-> "removed", open |-> FALSE, urb |-> FALSE])
    /\ UNCHANGED <<tablet, data, failed>>

Remove(i) ==
    /\ At(i, "removed")
    /\ Gone(i, "unbound")
    /\ UNCHANGED <<tablet, failed>>

-----------------------------------------------------------------------------
(* wacom_open and wacom_close.                                             *)

\* wacom_open takes the interface's lock, then wakes the tablet.
OpenLocks(i) ==
    /\ node[i].stage \in {"registered", "bound", "leaving"} /\ tablet.power # "system"
    /\ ~node[i].open /\ ~node[i].lock
    /\ node' = Set(i, [lock |-> TRUE])
    /\ UNCHANGED <<tablet, data, failed>>

\* An interface that is being unbound can transfer nothing.
Submits(i) == tablet.plugged /\ ~At(i, "leaving")

Open(i) ==
    /\ On /\ node[i].lock
    /\ \E submitted \in (IF ~Submits(i) THEN {FALSE} ELSE IF MayFail THEN BOOLEAN ELSE {TRUE}) :
         /\ node' = Set(i, [lock |-> FALSE, open |-> submitted, urb |-> submitted,
                            usage |-> node[i].usage \/ submitted])
         /\ failed' = (failed \/ ~submitted)
    /\ UNCHANGED <<tablet, data>>

\* wacom_close does not give back the use of the interface.
Close(i) ==
    /\ node[i].open /\ ~node[i].lock /\ tablet.power # "system"
    /\ node' = Set(i, [open |-> FALSE, urb |-> FALSE])
    /\ UNCHANGED <<tablet, data, failed>>

\* wacom_led_select_store: what could not be sent is kept all the same.  The
\* file is there from wacom_initialize_leds to wacom_destroy_leds, but a writer
\* that comes before the interface is bound, or while it is being unbound,
\* finds no struct wacom and dies on a null pointer: it changes nothing here.
LedStore(i, v) ==
    /\ At(i, "bound") /\ node[i].group /\ ~node[i].lock /\ tablet.power # "system"
    /\ node' = Set(i, [select |-> v])
    /\ \E sent \in (IF On THEN Sent({"leds"}) ELSE {{}}) :
         /\ tablet' = IF sent = {} THEN tablet ELSE [tablet EXCEPT !.leds = v]
         /\ failed' = (failed \/ (On /\ sent = {}))
    /\ UNCHANGED data

-----------------------------------------------------------------------------
(* wacom_suspend, wacom_resume and wacom_reset_resume.                     *)

Bound == {i \in Ifaces : At(i, "bound")}
Unlocked == \A i \in Bound : ~node[i].lock

Sleep(power) ==
    /\ tablet' = [tablet EXCEPT !.power = power]
    /\ node' = [i \in Ifaces |-> [node[i] EXCEPT !.urb = @ /\ i \notin Bound]]
    /\ UNCHANGED <<data, failed>>

Suspend == Works /\ Quiet /\ Unlocked /\ Sleep("system")

\* The USB core suspends a tablet none of whose interfaces is in use.
Autosuspend ==
    /\ Works /\ Quiet /\ Unlocked
    /\ \A i \in Bound : ~node[i].usage
    /\ Sleep("auto")

\* Slip: every interface listens again.
ListensAgainAlways(i) == TRUE

ListensAgain(i) == node[i].open

\* Slip: only the mode is restored.
RestoredMode(i) == IF Queried(i) THEN {"mode"} ELSE {}

Restored(i) == {"leds"} \cup (IF Queried(i) THEN {"mode"} ELSE {})

\* After a reset, or the loss of its power, the tablet has forgotten its mode
\* and LEDs.  wacom_resume takes the lock of each interface.
Resume ==
    /\ tablet.plugged /\ tablet.power # "on" /\ Unlocked
    /\ \E reset \in BOOLEAN, submitted \in (IF MayFail THEN BOOLEAN ELSE {TRUE}) :
       \E sent \in [Bound -> SUBSET {"leds", "mode"}] :
         LET kept == IF reset THEN {} ELSE tablet.mode
             leds == IF reset THEN 0 ELSE tablet.leds
         IN  /\ \A i \in Bound : sent[i] \subseteq Restored(i) /\ (MayFail \/ sent[i] = Restored(i))
             /\ tablet' = [tablet EXCEPT !.power = "on",
                             !.mode = kept \cup {i \in Bound : "mode" \in sent[i]},
                             !.leds = IF tablet.kind \in HasLeds /\ "pen" \in Bound
                                         /\ "leds" \in sent["pen"]
                                      THEN node["pen"].select ELSE leds]
             /\ node' = [i \in Ifaces |->
                  IF i \in Bound THEN [node[i] EXCEPT !.urb = ListensAgain(i) /\ submitted] ELSE node[i]]
             /\ failed' = (failed \/ ~submitted \/ \E i \in Bound : sent[i] # Restored(i))
    /\ UNCHANGED data

-----------------------------------------------------------------------------
SysInit ==
    /\ tablet = [kind |-> Unplugged, plugged |-> FALSE, pen |-> FALSE, power |-> "on",
                 mode |-> {}, leds |-> 0]
    /\ node = [i \in Ifaces |-> Fresh]
    /\ data = NoData
    /\ failed = FALSE

Driver ==
    \/ \E i \in Ifaces : \/ Probe(i) \/ ProbeFails(i) \/ Register(i) \/ Bind(i)
                         \/ Disconnect(i) \/ Unregister(i) \/ Remove(i)
                         \/ OpenLocks(i) \/ Open(i) \/ Close(i) \/ IrqFails(i)
                         \/ \E v \in Selects : LedStore(i, v)
    \/ Suspend \/ Autosuspend \/ Resume

SysNext == Plug \/ Unplug \/ Forget \/ (\E near \in BOOLEAN : PenMoves(near)) \/ Driver

SysSpec == SysInit /\ [][SysNext]_sysVars

\* The pen leaves only while the tablet listens to it; an Intuos Pro, whose
\* record is never freed, stays plugged in; and no tablet is opened that the
\* USB core has suspended.
CarefulUser ==
    /\ tablet.plugged /\ tablet'.plugged /\ tablet.pen /\ ~tablet'.pen => node["pen"].urb
    /\ tablet.kind = "PRO" => tablet'.plugged
    /\ tablet.power = "auto" => \A i \in Ifaces : node'[i].lock => node[i].lock

CarefulSpec == SysInit /\ [][SysNext /\ CarefulUser]_sysVars

-----------------------------------------------------------------------------
(* Properties.                                                             *)

\* A handler that may run finds the record its tablet shares: it is not freed
\* before the last interface that uses it is disconnected.
SharedInUse ==
    /\ \A i \in Ifaces : node[i].urb /\ tablet.kind \in Sharing => node[i].shared
    /\ data.refs >= Cardinality({i \in Ifaces : node[i].shared})

\* Touch is never held back for a pen that is not near: what one tablet, or
\* one binding of its interfaces, has left is not seen by the next.
NoGhostPen == Works /\ tablet.kind \in TouchWaits /\ data.near => tablet.pen

\* While the tablet is awake and nothing has failed, exactly the devices that
\* are open are listened to, whichever of opening, closing, sleeping, waking
\* and unbinding came last.
ListensWhenOpen ==
    /\ \A i \in Ifaces : node[i].urb => node[i].open /\ On
    /\ Works /\ ~failed =>
         \A i \in Ifaces : node[i].open /\ node[i].stage \in {"registered", "bound"} => node[i].urb

\* A tablet that is awake is in Wacom mode and shows the LED that was last
\* selected, though it was reset while asleep and the LED was selected while
\* it was being opened, or slept.
SetUpWhenAwake ==
    Works /\ ~failed =>
      \A i \in Bound :
        /\ tablet.kind # "TPC2" \/ i = "touch" => i \in tablet.mode
        /\ tablet.kind \in HasLeds /\ i = "pen" => tablet.leds = node[i].select

\* wacom_open returns: it never waits for a resume that waits for the lock it
\* holds.
OpenReturns == ~ \E i \in Ifaces : At(i, "bound") /\ node[i].lock /\ tablet.power = "auto"

\* If nothing fails, the pen of every tablet that is plugged in is bound.
PenIsBound == At("pen", "refused") => failed
=============================================================================
