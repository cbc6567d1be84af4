---------------------------- MODULE WacomLifecycle ----------------------------
(***************************************************************************)
(* The devices of one tablet as the X server adds, enables, disables and   *)
(* removes them (src/xdrv/xf86Wacom.c: xf86WcmDevProc, xf86WcmDevOpen,     *)
(* xf86WcmDevClose, xf86WcmDevReadInput).  They share one file descriptor, *)
(* counted in fd_refs, and two counters that keep the tablet from being    *)
(* read while not all of its devices are there.                            *)
(***************************************************************************)
EXTENDS Integers, FiniteSets

CONSTANTS
    Devices,        \* the X input devices of the tablet
    HasLeds,        \* the tablet has LEDs in sysfs
    MaxGeneration   \* bound: server generations

ASSUME LifecycleAssumption ==
    /\ IsFiniteSet(Devices)
    /\ HasLeds \in BOOLEAN
    /\ MaxGeneration \in Nat

VARIABLES
    server,      \* what the server last did with each device
    generation,  \* the server's, which starts its devices again
    local,       \* LocalDeviceRec and WacomDeviceRec of each device
    common,      \* WacomCommonRec
    port         \* the kernel's side of the descriptor

vars == <<server, generation, local, common, port>>

Stages == {"new", "inited", "on", "off", "closed", "failed"}

\* fd is -1 or a descriptor of the port, all of which are 0 here.  keyClasses
\* is the server's: the key classes it has for the device in this generation.
LocalState ==
    [fd: {-1, 0}, wcmDevOpenCount: Nat, wcmInitKeyClassCount: Nat, keyClasses: Nat]

\* fd_sysfs: fd_sysfs0 and fd_sysfs1, which set the LEDs
CommonState ==
    [fd_refs: Nat, wcmInitedTools: Nat, wcmEnabledTools: Int, fd_sysfs: {-1, 0}]

\* open: descriptors opened and not closed; data: there is something to read
PortState == [open: Nat, data: BOOLEAN]

LifecycleTypeOK ==
    /\ server \in [Devices -> Stages]
    /\ generation \in Nat \ {0}
    /\ local \in [Devices -> LocalState]
    /\ common \in CommonState
    /\ port \in PortState

\* What one call of the driver changes, for device d
View(d) == [l |-> local[d], c |-> common, p |-> port]

Becomes(d, v) ==
    /\ local' = [local EXCEPT ![d] = v.l]
    /\ common' = v.c
    /\ port' = v.p

-----------------------------------------------------------------------------
\* xf86WcmClose of the port's descriptor, and xf86WcmCloseSysfs, if nobody
\* refers to it; what was to be read is lost.
PortClosed(v) ==
    IF v.c.fd_refs # 0 THEN v
    ELSE [l |-> v.l,
          c |-> [v.c EXCEPT !.fd_sysfs = -1],
          p |-> [open |-> v.p.open - 1, data |-> FALSE]]

\* The port, opened by this device or already open.
Attached(v) ==
    [l |-> [v.l EXCEPT !.fd = 0],
     c |-> [v.c EXCEPT !.fd_refs =
              IF @ = 0 THEN 1 ELSE IF v.l.fd >= 0 THEN @ ELSE @ + 1],
     p |-> [v.p EXCEPT !.open = IF v.c.fd_refs = 0 THEN @ + 1 ELSE @]]

\* xf86WcmOpen fails before or after the tablet answers.
OpenFailures(v) ==
    IF v.c.fd_refs # 0 THEN {}
    ELSE {v, [l |-> v.l, c |-> [v.c EXCEPT !.fd_sysfs = -1], p |-> v.p]}

\* xf86WcmRegisterX11Devices, as far as the key class: only once.
KeyClass(v) ==
    [l |-> [v.l EXCEPT !.keyClasses =
              IF v.l.wcmInitKeyClassCount = 0 THEN @ + 1 ELSE @],
     c |-> v.c, p |-> v.p]

\* Slip: the reference is not given back.
DetachedHeld(v) ==
    PortClosed([l |-> [v.l EXCEPT !.fd = -1], c |-> v.c, p |-> v.p])

\* Registration failed: the device lets go of the port.
Detached(v) ==
    PortClosed([l |-> [v.l EXCEPT !.fd = -1],
                c |-> [v.c EXCEPT !.fd_refs = @ - 1],
                p |-> v.p])

\* xf86WcmDevOpen: the states it can succeed in and those it can fail in.
DevOpens(v) ==
    IF v.l.wcmDevOpenCount # 0 THEN {v} ELSE {KeyClass(Attached(v))}

DevOpenFails(v) ==
    IF v.l.wcmDevOpenCount # 0 THEN {}
    ELSE OpenFailures(v) \cup {Detached(Attached(v)), Detached(KeyClass(Attached(v)))}

\* Slip: the reference is given back even without one.
DevCloseAgain(v) == Detached(v)

\* xf86WcmDevClose
DevClose(v) == IF v.l.fd >= 0 THEN Detached(v) ELSE v

-----------------------------------------------------------------------------
(* xf86WcmDevProc.                                                         *)

\* A device of a closed server is a new one of the next.
StartInit(v) ==
    [l |-> [fd |-> v.l.fd, wcmDevOpenCount |-> 0, wcmInitKeyClassCount |-> 0,
            keyClasses |-> 0],
     c |-> [v.c EXCEPT !.wcmInitedTools = @ + 1],
     p |-> v.p]

Initialised(v) ==
    [l |-> [v.l EXCEPT !.wcmInitKeyClassCount = @ + 1, !.wcmDevOpenCount = @ + 1],
     c |-> v.c, p |-> v.p]

DeviceInit(d) ==
    /\ server[d] = "new"
    /\ \/ \E v \in DevOpens(StartInit(View(d))) :
            /\ Becomes(d, Initialised(v))
            /\ server' = [server EXCEPT ![d] = "inited"]
       \/ \E v \in DevOpenFails(StartInit(View(d))) :
            /\ Becomes(d, v)
            /\ server' = [server EXCEPT ![d] = "failed"]
    /\ UNCHANGED generation

TurnedOn(v) ==
    [l |-> [v.l EXCEPT !.wcmDevOpenCount = @ + 1],
     c |-> [v.c EXCEPT !.wcmEnabledTools = @ + 1],
     p |-> v.p]

\* A device that could not be enabled may be tried again.
DeviceOn(d) ==
    /\ server[d] \in {"inited", "off"}
    /\ \/ \E v \in DevOpens(View(d)) :
            /\ Becomes(d, TurnedOn(v))
            /\ server' = [server EXCEPT ![d] = "on"]
       \/ \E v \in DevOpenFails(View(d)) :
            Becomes(d, v) /\ UNCHANGED server
    /\ UNCHANGED generation

\* Slip: the open count survives.
StopKeepsCount(v) == [DevClose(v) EXCEPT !.c.wcmEnabledTools = @ - 1]

\* Slip: a disabled device still counts as enabled.
StopKeepsEnabled(v) == [DevClose(v) EXCEPT !.l.wcmDevOpenCount = 0]

\* Slip: the next enabling initialises the key class again.
StopForgetsKeys(v) ==
    [DevClose(v) EXCEPT !.l.wcmDevOpenCount = 0, !.l.wcmInitKeyClassCount = 0,
                        !.c.wcmEnabledTools = @ - 1]

\* DEVICE_OFF and DEVICE_CLOSE are one case.
Stop(v) ==
    LET w == DevClose(v)
    IN  [l |-> [w.l EXCEPT !.wcmDevOpenCount = 0],
         c |-> [w.c EXCEPT !.wcmEnabledTools = @ - 1],
         p |-> w.p]

DeviceOff(d) ==
    /\ server[d] = "on"
    /\ Becomes(d, Stop(View(d)))
    /\ server' = [server EXCEPT ![d] = "off"]
    /\ UNCHANGED generation

\* The server ends: it may close a device that it has not disabled.
DeviceClose(d) ==
    /\ server[d] \in {"inited", "on", "off"}
    /\ Becomes(d, Stop(View(d)))
    /\ server' = [server EXCEPT ![d] = "closed"]
    /\ UNCHANGED generation

\* The next generation initialises the same devices again.
Regenerate ==
    /\ \A d \in Devices : server[d] = "closed"
    /\ generation < MaxGeneration
    /\ generation' = generation + 1
    /\ server' = [d \in Devices |-> "new"]
    /\ UNCHANGED <<local, common, port>>

\* Slip: the counters are not compared.
ReadInputAlways(d) ==
    /\ server[d] = "on"
    /\ port.data
    /\ port' = [port EXCEPT !.data = FALSE]
    /\ UNCHANGED <<server, generation, local, common>>

\* xf86WcmDevReadInput reads until there is no more, unless a device is being
\* added or has been removed.
ReadInput(d) ==
    /\ server[d] = "on"
    /\ port.data
    /\ common.wcmInitedTools = common.wcmEnabledTools
    /\ port' = [port EXCEPT !.data = FALSE]
    /\ UNCHANGED <<server, generation, local, common>>

Arrive ==
    /\ port.open # 0
    /\ port' = [port EXCEPT !.data = TRUE]
    /\ UNCHANGED <<server, generation, local, common>>

-----------------------------------------------------------------------------
Init ==
    /\ server = [d \in Devices |-> "new"]
    /\ generation = 1
    /\ local = [d \in Devices |->
         [fd |-> -1, wcmDevOpenCount |-> 0, wcmInitKeyClassCount |-> 0, keyClasses |-> 0]]
    /\ common = [fd_refs |-> 0, wcmInitedTools |-> 0, wcmEnabledTools |-> 0, 
               fd_sysfs |-> IF HasLeds THEN 0 ELSE -1]
    /\ port = [open |-> 0, data |-> FALSE]

Next ==
    \/ \E d \in Devices :
         \/ DeviceInit(d) \/ DeviceOn(d) \/ DeviceOff(d) \/ DeviceClose(d)
         \/ ReadInput(d)
    \/ Regenerate
    \/ Arrive

Spec == Init /\ [][Next]_vars

\* The server calls xf86WcmDevReadInput of an enabled device while there is
\* data.
FairSpec == Spec /\ WF_vars(\E d \in Devices : ReadInput(d))
-----------------------------------------------------------------------------
(* Properties.                                                             *)

Holders == {d \in Devices : local[d].fd >= 0}

\* The descriptor is open exactly while some device refers to it: however
\* initialising, enabling and their failures interleave over the devices, it
\* is neither leaked nor closed under a device, nor closed twice.
DescriptorShared ==
    /\ common.fd_refs = Cardinality(Holders)
    /\ port.open = IF Holders = {} THEN 0 ELSE 1

\* An enabled device has the descriptor, although xf86WcmDevOpen returns at
\* once for a device it believes to be open.
OnHasDescriptor == \A d \in Devices : server[d] = "on" => local[d].fd >= 0

\* A device's key class is initialised once in a server generation, although
\* the device is registered each time it is enabled ("only initial KeyClass
\* and LedFeedbackClass once").
KeyClassOnce == \A d \in Devices : local[d].keyClasses <= 1

Absent(d) == server[d] = "new" /\ generation = 1

\* The tablet is read only while every device the server has begun to add is
\* enabled ("do not process the data while another tool on the port is being
\* added or at least one tool has been removed").
ReadWhenComplete ==
    [][(\E d \in Devices : ReadInput(d)) =>
         \A e \in Devices : Absent(e) \/ server[e] = "on"]_vars

\* While all devices of the first generation are enabled, what arrives is
\* read, however often they were disabled and enabled before.
DataIsRead ==
    (port.data /\ generation = 1) ~> (~port.data \/ \E d \in Devices : server[d] # "on")

\* While all devices are enabled the LEDs can be set ("Sets/gets the LED status").
LedsReachable == HasLeds /\ (\A d \in Devices : server[d] = "on") => common.fd_sysfs >= 0
=============================================================================
