---------------------------- MODULE WacomSession ----------------------------
(***************************************************************************)
(* What the driver promises the X server about every input device it       *)
(* feeds: proximity sessions.  A device holds buttons and modifier keys    *)
(* only inside a session, a session ends with everything released, one     *)
(* report moves one device (all it may do to another device is to end its  *)
(* session), and of the devices that share one physical tool at most one   *)
(* is in a session.                                                        *)
(***************************************************************************)
CONSTANTS
    Devices,  \* the X input devices of the driver
    Codes,    \* what a device can hold down: X buttons and modifier keys
    Groups    \* sets of devices of which at most one may be in a session

VARIABLES
    inprox,   \* inprox[d]: the X server has seen ProximityIn and no ProximityOut
    pressed   \* pressed[d]: the codes the X server believes d holds down

sessionVars == <<inprox, pressed>>

SessionTypeOK ==
    /\ inprox \in [Devices -> BOOLEAN]
    /\ pressed \in [Devices -> SUBSET Codes]

\* No session and nothing held: the state in which a device is handed over.
Idle(d) == ~inprox[d] /\ pressed[d] = {}

AtMostOne(in) == \A g \in Groups : \A d, e \in g : in[d] /\ in[e] => d = e

SessionInit == \A d \in Devices : Idle(d)

\* The device the report is about opens, continues or ends its session ...
Reports(d) == ~inprox'[d] => pressed'[d] = {}

\* ... and every other device stays as it is or is sent out.
Bystander(d) ==
    \/ inprox'[d] = inprox[d] /\ pressed'[d] = pressed[d]
    \/ ~inprox'[d] /\ pressed'[d] = {}

SessionNext ==
    /\ SessionTypeOK'
    /\ AtMostOne(inprox')
    /\ \E d \in Devices :
         Reports(d) /\ \A e \in Devices \ {d} : Bystander(e)

SessionSpec ==
    SessionTypeOK /\ SessionInit /\ [][SessionNext]_sessionVars
=============================================================================
