---------------------------- MODULE WacomSysProof ----------------------------
(***************************************************************************)
(* Proofs about the kernel driver's USB side, for any set of tablets, with *)
(* and without failures, and any bound on the references: whatever order   *)
(* interfaces are probed, opened, suspended, resumed and disconnected in,  *)
(* a handler finds the record its tablet shares, no pen of another tablet  *)
(* holds touch back, exactly the open devices of a tablet that is awake    *)
(* are listened to, and it wakes in the mode it went to sleep in.          *)
(***************************************************************************)
EXTENDS WacomSys, FiniteSetTheorems, TLAPS

NodeState == [stage: Stages, open: BOOLEAN, urb: BOOLEAN, lock: BOOLEAN, usage: BOOLEAN,
              finger: BOOLEAN, shared: BOOLEAN, group: BOOLEAN, select: Selects]
NodeFields == {"stage", "open", "urb", "lock", "usage", "finger", "shared", "group", "select"}

\* The values that an action may give some fields.
Fits(fields) ==
    /\ DOMAIN fields \subseteq NodeFields
    /\ "stage" \in DOMAIN fields => fields.stage \in Stages
    /\ "open" \in DOMAIN fields => fields.open \in BOOLEAN
    /\ "urb" \in DOMAIN fields => fields.urb \in BOOLEAN
    /\ "lock" \in DOMAIN fields => fields.lock \in BOOLEAN
    /\ "usage" \in DOMAIN fields => fields.usage \in BOOLEAN
    /\ "finger" \in DOMAIN fields => fields.finger \in BOOLEAN
    /\ "shared" \in DOMAIN fields => fields.shared \in BOOLEAN
    /\ "group" \in DOMAIN fields => fields.group \in BOOLEAN
    /\ "select" \in DOMAIN fields => fields.select \in Selects

Idle(i) == node[i].stage \in Unbound
Users == {i \in Ifaces : node[i].shared}

\* An address without a tablet keeps nothing, and an Intuos Pro stays.
AddressInv ==
    /\ tablet.kind = Unplugged => data = NoData /\ \A i \in Ifaces : node[i] = Fresh
    /\ tablet.kind = "PRO" => tablet.plugged
    /\ tablet.plugged => tablet.kind # Unplugged

\* What a struct wacom holds at each stage of its life.
StageInv(i) ==
    /\ Idle(i) => ~node[i].open /\ ~node[i].lock /\ ~node[i].shared
    /\ Idle(i) /\ node[i].group => tablet.kind = "I4S"
    /\ node[i].group => tablet.kind \in HasLeds
    /\ ~Idle(i) => /\ tablet.kind # Unplugged /\ i \in Interfaces[tablet.kind]
                   /\ node[i].shared <=> tablet.kind \in Sharing
                   /\ i = "touch" => tablet.kind \in TouchWaits
    /\ node[i].stage \in {"made", "removed"} => ~node[i].open /\ ~node[i].lock
    /\ node[i].lock => ~node[i].open
    /\ node[i].urb => node[i].open /\ On /\ node[i].stage \in {"registered", "bound"}
    /\ ~On => Idle(i) \/ At(i, "bound")

\* Only the refused interface of an Intuos Pro holds a reference for nothing.
RefsInv ==
    /\ data.refs >= Cardinality(Users)
    /\ tablet.kind # "PRO" => data.refs = Cardinality(Users)
    /\ data.refs = 0 => ~data.near

NearInv == data.near /\ tablet.plugged /\ tablet.kind \in TouchWaits => tablet.pen

\* A tablet with LEDs is driven by one interface.
LedsInv == tablet.kind \in HasLeds => \A i, j \in Ifaces : ~Idle(i) /\ ~Idle(j) => i = j

ListenInv ==
    Works /\ ~failed =>
      \A i \in Ifaces : node[i].open /\ node[i].stage \in {"registered", "bound"} => node[i].urb

FingerInv == tablet.kind = "TPC2" /\ ~failed /\ ~Idle("touch") => node["touch"].finger

ModeInv ==
    Works /\ ~failed =>
      \A i \in Ifaces : At(i, "bound") /\ (tablet.kind # "TPC2" \/ i = "touch") => i \in tablet.mode

SelectInv ==
    Works /\ ~failed /\ tablet.kind \in HasLeds /\ node["pen"].stage \in {"made", "registered", "bound"}
      => tablet.leds = node["pen"].select

IInv ==
    /\ SysTypeOK
    /\ AddressInv
    /\ \A i \in Ifaces : StageInv(i)
    /\ RefsInv
    /\ NearInv
    /\ LedsInv
    /\ ListenInv
    /\ FingerInv
    /\ ModeInv
    /\ SelectInv

-----------------------------------------------------------------------------
(* The model's operators.                                                  *)

\* Setting some fields of an interface's record leaves its others, and the
\* other interfaces, as they were.
LEMMA SetFields ==
    ASSUME SysTypeOK, NEW i \in Ifaces, NEW fields, Fits(fields)
    PROVE  /\ Set(i, fields) \in [Ifaces -> NodeState]
           /\ \A j \in Ifaces \ {i} : Set(i, fields)[j] = node[j]
           /\ \A f \in NodeFields :
                Set(i, fields)[i][f] = IF f \in DOMAIN fields THEN fields[f] ELSE node[i][f]
<1> DEFINE m == [f \in DOMAIN node[i] |-> IF f \in DOMAIN fields THEN fields[f] ELSE node[i][f]]
<1>1. node \in [Ifaces -> NodeState]
  BY DEF SysTypeOK, NodeState
<1>2. Set(i, fields) = [node EXCEPT ![i] = m]
  BY <1>1 DEF Set
<1>3. node[i] \in NodeState
  BY <1>1
<1>4. DOMAIN node[i] = NodeFields
  BY <1>3 DEF NodeState, NodeFields
<1>5. /\ m = [f \in NodeFields |-> m[f]]
      /\ \A f \in NodeFields : m[f] = IF f \in DOMAIN fields THEN fields[f] ELSE node[i][f]
  BY <1>4
<1>6. m \in NodeState
  <2> HIDE DEF m
  <2> QED
    BY <1>3, <1>5 DEF Fits, NodeState, NodeFields
<1> HIDE DEF m
<1> QED
  BY <1>1, <1>2, <1>5, <1>6

\* An interface nothing has happened to, in a tablet that has kept its kind and
\* its power, still keeps its stage's promises.
LEMMA StageKept ==
    ASSUME NEW j \in Ifaces, StageInv(j), node'[j] = node[j], tablet'.kind = tablet.kind,
           tablet'.power = tablet.power
    PROVE  StageInv(j)'
BY DEF StageInv, Idle, At, On

\* A step that takes and gives up no reference, and makes no interface a
\* driver's, leaves what is said of the address and its record true.
LEMMA RecordKept ==
    ASSUME IInv, tablet.kind # Unplugged, tablet'.kind = tablet.kind,
           tablet'.plugged = tablet.plugged, tablet'.pen = tablet.pen, data' = data,
           \A j \in Ifaces : node'[j].shared = node[j].shared /\ (Idle(j) => Idle(j)')
    PROVE  AddressInv' /\ RefsInv' /\ NearInv' /\ LedsInv'
<1>1. Users' = Users
  BY DEF Users
<1> QED
  BY <1>1 DEF IInv, AddressInv, RefsInv, NearInv, LedsInv

-----------------------------------------------------------------------------
(* The interfaces' steps.                                                  *)

\* An input device is registered before it can be opened.
LEMMA RegisterInv ==
    ASSUME IInv, NEW i \in Ifaces, Register(i)
    PROVE  IInv'
<1> DEFINE fields == [stage |-> "registered"]
<1>1. /\ node[i].stage = "made" /\ node' = Set(i, fields)
      /\ tablet' = tablet /\ data' = data
      /\ failed' = failed
  BY DEF Register, At
<1>2. Fits(fields)
  BY DEF Fits, NodeFields, Stages, Selects
<1> HIDE DEF fields
<1>3. /\ node' \in [Ifaces -> NodeState]
      /\ \A j \in Ifaces \ {i} : node'[j] = node[j]
      /\ \A f \in NodeFields :
           node'[i][f] = IF f \in DOMAIN fields THEN fields[f] ELSE node[i][f]
  BY <1>1, <1>2, SetFields DEF IInv
<1>4. /\ node'[i].stage = "registered" /\ node'[i].open = node[i].open
      /\ node'[i].urb = node[i].urb /\ node'[i].lock = node[i].lock
      /\ node'[i].finger = node[i].finger /\ node'[i].shared = node[i].shared
      /\ node'[i].group = node[i].group /\ node'[i].select = node[i].select
  BY <1>3 DEF fields, NodeFields
<1>5. SysTypeOK'
  BY <1>1, <1>3 DEF IInv, SysTypeOK, NodeState
<1>6. \A j \in Ifaces : StageInv(j)'
  <2>1. StageInv(i)'
    BY <1>1, <1>4 DEF IInv, StageInv, Idle, At, On, Unbound
  <2> QED
    BY <1>1, <1>3, <2>1, StageKept DEF IInv
<1>7. AddressInv' /\ RefsInv' /\ NearInv' /\ LedsInv'
  BY <1>1, <1>3, <1>4, RecordKept DEF IInv, StageInv, Idle, Unbound, At
<1>8. ListenInv'
  BY <1>1, <1>3, <1>4 DEF IInv, StageInv, ListenInv, Works, On
<1>9. FingerInv'
  BY <1>1, <1>3, <1>4 DEF IInv, FingerInv, Idle, Unbound, Ifaces
<1>10. ModeInv'
  BY <1>1, <1>3, <1>4 DEF IInv, ModeInv, At, Works, On
<1>11. SelectInv'
  BY <1>1, <1>3, <1>4 DEF IInv, SelectInv, Ifaces, Works, On
<1> QED
  BY <1>5, <1>6, <1>7, <1>8, <1>9, <1>10, <1>11 DEF IInv

\* Disconnecting stops the interface's URB.
LEMMA DisconnectInv ==
    ASSUME IInv, NEW i \in Ifaces, Disconnect(i)
    PROVE  IInv'
<1> DEFINE fields == [stage |-> "leaving", urb |-> FALSE]
<1>1. /\ node[i].stage = "bound" /\ node' = Set(i, fields)
      /\ On /\ tablet' = tablet
      /\ data' = data /\ failed' = failed
  BY DEF Disconnect, At
<1>2. Fits(fields)
  BY DEF Fits, NodeFields, Stages, Selects
<1> HIDE DEF fields
<1>3. /\ node' \in [Ifaces -> NodeState]
      /\ \A j \in Ifaces \ {i} : node'[j] = node[j]
      /\ \A f \in NodeFields :
           node'[i][f] = IF f \in DOMAIN fields THEN fields[f] ELSE node[i][f]
  BY <1>1, <1>2, SetFields DEF IInv
<1>4. /\ node'[i].stage = "leaving" /\ node'[i].open = node[i].open
      /\ node'[i].urb = FALSE /\ node'[i].lock = node[i].lock
      /\ node'[i].finger = node[i].finger /\ node'[i].shared = node[i].shared
      /\ node'[i].group = node[i].group /\ node'[i].select = node[i].select
  BY <1>3 DEF fields, NodeFields
<1>5. SysTypeOK'
  BY <1>1, <1>3 DEF IInv, SysTypeOK, NodeState
<1>6. \A j \in Ifaces : StageInv(j)'
  <2>1. StageInv(i)'
    BY <1>1, <1>4 DEF IInv, StageInv, Idle, At, On, Unbound
  <2> QED
    BY <1>1, <1>3, <2>1, StageKept DEF IInv
<1>7. AddressInv' /\ RefsInv' /\ NearInv' /\ LedsInv'
  BY <1>1, <1>3, <1>4, RecordKept DEF IInv, StageInv, Idle, Unbound, At
<1>8. ListenInv'
  BY <1>1, <1>3, <1>4 DEF IInv, StageInv, ListenInv, Works, On
<1>9. FingerInv'
  BY <1>1, <1>3, <1>4 DEF IInv, FingerInv, Idle, Unbound, Ifaces
<1>10. ModeInv'
  BY <1>1, <1>3, <1>4 DEF IInv, ModeInv, At, Works, On
<1>11. SelectInv'
  BY <1>1, <1>3, <1>4 DEF IInv, SelectInv, Ifaces, Works, On
<1> QED
  BY <1>5, <1>6, <1>7, <1>8, <1>9, <1>10, <1>11 DEF IInv

\* Unregistering the input device closes it.
LEMMA UnregisterInv ==
    ASSUME IInv, NEW i \in Ifaces, Unregister(i)
    PROVE  IInv'
<1> DEFINE fields == [stage |-> "removed", open |-> FALSE, urb |-> FALSE]
<1>1. /\ node[i].stage = "leaving" /\ ~node[i].lock
      /\ node' = Set(i, fields) /\ tablet' = tablet
      /\ data' = data /\ failed' = failed
  BY DEF Unregister, At
<1>2. Fits(fields)
  BY DEF Fits, NodeFields, Stages, Selects
<1> HIDE DEF fields
<1>3. /\ node' \in [Ifaces -> NodeState]
      /\ \A j \in Ifaces \ {i} : node'[j] = node[j]
      /\ \A f \in NodeFields :
           node'[i][f] = IF f \in DOMAIN fields THEN fields[f] ELSE node[i][f]
  BY <1>1, <1>2, SetFields DEF IInv
<1>4. /\ node'[i].stage = "removed" /\ node'[i].open = FALSE
      /\ node'[i].urb = FALSE /\ node'[i].lock = node[i].lock
      /\ node'[i].finger = node[i].finger /\ node'[i].shared = node[i].shared
      /\ node'[i].group = node[i].group /\ node'[i].select = node[i].select
  BY <1>3 DEF fields, NodeFields
<1>5. SysTypeOK'
  BY <1>1, <1>3 DEF IInv, SysTypeOK, NodeState
<1>6. \A j \in Ifaces : StageInv(j)'
  <2>1. StageInv(i)'
    BY <1>1, <1>4 DEF IInv, StageInv, Idle, At, On, Unbound
  <2> QED
    BY <1>1, <1>3, <2>1, StageKept DEF IInv
<1>7. AddressInv' /\ RefsInv' /\ NearInv' /\ LedsInv'
  BY <1>1, <1>3, <1>4, RecordKept DEF IInv, StageInv, Idle, Unbound, At
<1>8. ListenInv'
  BY <1>1, <1>3, <1>4 DEF IInv, StageInv, ListenInv, Works, On
<1>9. FingerInv'
  BY <1>1, <1>3, <1>4 DEF IInv, FingerInv, Idle, Unbound, Ifaces
<1>10. ModeInv'
  BY <1>1, <1>3, <1>4 DEF IInv, ModeInv, At, Works, On
<1>11. SelectInv'
  BY <1>1, <1>3, <1>4 DEF IInv, SelectInv, Ifaces, Works, On
<1> QED
  BY <1>5, <1>6, <1>7, <1>8, <1>9, <1>10, <1>11 DEF IInv

\* wacom_open locks a device that is neither open nor being opened.
LEMMA OpenLocksInv ==
    ASSUME IInv, NEW i \in Ifaces, OpenLocks(i)
    PROVE  IInv'
<1> DEFINE fields == [lock |-> TRUE]
<1>1. /\ node[i].stage \in {"registered", "bound", "leaving"} /\ ~node[i].open
      /\ node' = Set(i, fields) /\ tablet' = tablet
      /\ data' = data /\ failed' = failed
  BY DEF OpenLocks
<1>2. Fits(fields)
  BY DEF Fits, NodeFields, Stages, Selects
<1> HIDE DEF fields
<1>3. /\ node' \in [Ifaces -> NodeState]
      /\ \A j \in Ifaces \ {i} : node'[j] = node[j]
      /\ \A f \in NodeFields :
           node'[i][f] = IF f \in DOMAIN fields THEN fields[f] ELSE node[i][f]
  BY <1>1, <1>2, SetFields DEF IInv
<1>4. /\ node'[i].stage = node[i].stage /\ node'[i].open = node[i].open
      /\ node'[i].urb = node[i].urb /\ node'[i].lock = TRUE
      /\ node'[i].finger = node[i].finger /\ node'[i].shared = node[i].shared
      /\ node'[i].group = node[i].group /\ node'[i].select = node[i].select
  BY <1>3 DEF fields, NodeFields
<1>5. SysTypeOK'
  BY <1>1, <1>3 DEF IInv, SysTypeOK, NodeState
<1>6. \A j \in Ifaces : StageInv(j)'
  <2>1. StageInv(i)'
    BY <1>1, <1>4 DEF IInv, StageInv, Idle, At, On, Unbound
  <2> QED
    BY <1>1, <1>3, <2>1, StageKept DEF IInv
<1>7. AddressInv' /\ RefsInv' /\ NearInv' /\ LedsInv'
  BY <1>1, <1>3, <1>4, RecordKept DEF IInv, StageInv, Idle, Unbound, At
<1>8. ListenInv'
  BY <1>1, <1>3, <1>4 DEF IInv, StageInv, ListenInv, Works, On
<1>9. FingerInv'
  BY <1>1, <1>3, <1>4 DEF IInv, FingerInv, Idle, Unbound, Ifaces
<1>10. ModeInv'
  BY <1>1, <1>3, <1>4 DEF IInv, ModeInv, At, Works, On
<1>11. SelectInv'
  BY <1>1, <1>3, <1>4 DEF IInv, SelectInv, Ifaces, Works, On
<1> QED
  BY <1>5, <1>6, <1>7, <1>8, <1>9, <1>10, <1>11 DEF IInv

\* wacom_close stops the URB with the device.
LEMMA CloseInv ==
    ASSUME IInv, NEW i \in Ifaces, Close(i)
    PROVE  IInv'
<1> DEFINE fields == [open |-> FALSE, urb |-> FALSE]
<1>1. /\ node[i].open /\ ~node[i].lock
      /\ node' = Set(i, fields) /\ tablet' = tablet
      /\ data' = data /\ failed' = failed
  BY DEF Close
<1>2. Fits(fields)
  BY DEF Fits, NodeFields, Stages, Selects
<1> HIDE DEF fields
<1>3. /\ node' \in [Ifaces -> NodeState]
      /\ \A j \in Ifaces \ {i} : node'[j] = node[j]
      /\ \A f \in NodeFields :
           node'[i][f] = IF f \in DOMAIN fields THEN fields[f] ELSE node[i][f]
  BY <1>1, <1>2, SetFields DEF IInv
<1>4. /\ node'[i].stage = node[i].stage /\ node'[i].open = FALSE
      /\ node'[i].urb = FALSE /\ node'[i].lock = node[i].lock
      /\ node'[i].finger = node[i].finger /\ node'[i].shared = node[i].shared
      /\ node'[i].group = node[i].group /\ node'[i].select = node[i].select
  BY <1>3 DEF fields, NodeFields
<1>5. SysTypeOK'
  BY <1>1, <1>3 DEF IInv, SysTypeOK, NodeState
<1>6. \A j \in Ifaces : StageInv(j)'
  <2>1. StageInv(i)'
    BY <1>1, <1>4 DEF IInv, StageInv, Idle, At, On, Unbound
  <2> QED
    BY <1>1, <1>3, <2>1, StageKept DEF IInv
<1>7. AddressInv' /\ RefsInv' /\ NearInv' /\ LedsInv'
  BY <1>1, <1>3, <1>4, RecordKept DEF IInv, StageInv, Idle, Unbound, At
<1>8. ListenInv'
  BY <1>1, <1>3, <1>4 DEF IInv, StageInv, ListenInv, Works, On
<1>9. FingerInv'
  BY <1>1, <1>3, <1>4 DEF IInv, FingerInv, Idle, Unbound, Ifaces
<1>10. ModeInv'
  BY <1>1, <1>3, <1>4 DEF IInv, ModeInv, At, Works, On
<1>11. SelectInv'
  BY <1>1, <1>3, <1>4 DEF IInv, SelectInv, Ifaces, Works, On
<1> QED
  BY <1>5, <1>6, <1>7, <1>8, <1>9, <1>10, <1>11 DEF IInv

\* A URB that cannot be submitted again is a failure.
LEMMA IrqFailsInv ==
    ASSUME IInv, NEW i \in Ifaces, IrqFails(i)
    PROVE  IInv'
<1> DEFINE fields == [urb |-> FALSE]
<1>1. /\ node[i].urb /\ node' = Set(i, fields)
      /\ tablet' = tablet /\ data' = data
      /\ failed' = TRUE
  BY DEF IrqFails
<1>2. Fits(fields)
  BY DEF Fits, NodeFields, Stages, Selects
<1> HIDE DEF fields
<1>3. /\ node' \in [Ifaces -> NodeState]
      /\ \A j \in Ifaces \ {i} : node'[j] = node[j]
      /\ \A f \in NodeFields :
           node'[i][f] = IF f \in DOMAIN fields THEN fields[f] ELSE node[i][f]
  BY <1>1, <1>2, SetFields DEF IInv
<1>4. /\ node'[i].stage = node[i].stage /\ node'[i].open = node[i].open
      /\ node'[i].urb = FALSE /\ node'[i].lock = node[i].lock
      /\ node'[i].finger = node[i].finger /\ node'[i].shared = node[i].shared
      /\ node'[i].group = node[i].group /\ node'[i].select = node[i].select
  BY <1>3 DEF fields, NodeFields
<1>5. SysTypeOK'
  BY <1>1, <1>3 DEF IInv, SysTypeOK, NodeState
<1>6. \A j \in Ifaces : StageInv(j)'
  <2>1. StageInv(i)'
    BY <1>1, <1>4 DEF IInv, StageInv, Idle, At, On, Unbound
  <2> QED
    BY <1>1, <1>3, <2>1, StageKept DEF IInv
<1>7. AddressInv' /\ RefsInv' /\ NearInv' /\ LedsInv'
  BY <1>1, <1>3, <1>4, RecordKept DEF IInv, StageInv, Idle, Unbound, At
<1>8. ListenInv' /\ FingerInv' /\ ModeInv' /\ SelectInv'
  BY <1>1 DEF ListenInv, FingerInv, ModeInv, SelectInv
<1> QED
  BY <1>5, <1>6, <1>7, <1>8 DEF IInv

\* A tablet that is queried without failure is in Wacom mode when it is bound.
LEMMA BindInv ==
    ASSUME IInv, NEW i \in Ifaces, Bind(i)
    PROVE  IInv'
<1>p. PICK sent \in (IF Queried(i) THEN Sent({"mode"}) ELSE {{}}) :
        /\ tablet' = IF sent = {} THEN tablet ELSE [tablet EXCEPT !.mode = @ \cup {i}]
        /\ failed' = (failed \/ (Queried(i) /\ sent = {}))
  BY DEF Bind
<1>0. /\ tablet'.kind = tablet.kind /\ tablet'.plugged = tablet.plugged
      /\ tablet'.pen = tablet.pen /\ tablet'.power = tablet.power
      /\ tablet'.leds = tablet.leds /\ tablet'.mode = IF sent = {} THEN tablet.mode ELSE tablet.mode \cup {i}
      /\ tablet' \in [kind: DOMAIN Interfaces \cup {Unplugged}, plugged: BOOLEAN, pen: BOOLEAN,
                      power: {"on", "system", "auto"}, mode: SUBSET Ifaces, leds: Selects]
  BY <1>p DEF IInv, SysTypeOK
<1> DEFINE fields == [stage |-> "bound"]
<1>1. /\ node[i].stage = "registered" /\ ~node[i].lock
      /\ node' = Set(i, fields) /\ data' = data
      /\ failed' = (failed \/ (Queried(i) /\ sent = {}))
  BY <1>p DEF Bind, At
<1>2. Fits(fields)
  BY DEF Fits, NodeFields, Stages, Selects
<1> HIDE DEF fields
<1>3. /\ node' \in [Ifaces -> NodeState]
      /\ \A j \in Ifaces \ {i} : node'[j] = node[j]
      /\ \A f \in NodeFields :
           node'[i][f] = IF f \in DOMAIN fields THEN fields[f] ELSE node[i][f]
  BY <1>1, <1>2, SetFields DEF IInv
<1>4. /\ node'[i].stage = "bound" /\ node'[i].open = node[i].open
      /\ node'[i].urb = node[i].urb /\ node'[i].lock = node[i].lock
      /\ node'[i].finger = node[i].finger /\ node'[i].shared = node[i].shared
      /\ node'[i].group = node[i].group /\ node'[i].select = node[i].select
  BY <1>3 DEF fields, NodeFields
<1>5. SysTypeOK'
  BY <1>0, <1>1, <1>3 DEF IInv, SysTypeOK, NodeState
<1>6. \A j \in Ifaces : StageInv(j)'
  <2>1. StageInv(i)'
    BY <1>0, <1>1, <1>4 DEF IInv, StageInv, Idle, At, On, Unbound
  <2> QED
    BY <1>0, <1>1, <1>3, <2>1, StageKept DEF IInv
<1>7. AddressInv' /\ RefsInv' /\ NearInv' /\ LedsInv'
  BY <1>0, <1>1, <1>3, <1>4, RecordKept DEF IInv, StageInv, Idle, Unbound, At
<1>8. ListenInv'
  BY <1>0, <1>1, <1>3, <1>4 DEF IInv, StageInv, ListenInv, Works, On
<1>9. FingerInv'
  BY <1>0, <1>1, <1>3, <1>4 DEF IInv, FingerInv, Idle, Unbound, Ifaces
<1>10. ModeInv'
  BY <1>0, <1>1, <1>3, <1>4 DEF IInv, FingerInv, ModeInv, Queried, Idle, Unbound, Ifaces, At, Works, On
<1>11. SelectInv'
  BY <1>0, <1>1, <1>3, <1>4 DEF IInv, SelectInv, Ifaces, Works, On
<1> QED
  BY <1>5, <1>6, <1>7, <1>8, <1>9, <1>10, <1>11 DEF IInv

\* A device is open if its URB was submitted, and then it listens.
LEMMA OpenInv ==
    ASSUME IInv, NEW i \in Ifaces, Open(i)
    PROVE  IInv'
<1>p. PICK submitted \in (IF ~Submits(i) THEN {FALSE} ELSE IF MayFail THEN BOOLEAN ELSE {TRUE}) :
        /\ node' = Set(i, [lock |-> FALSE, open |-> submitted, urb |-> submitted,
                           usage |-> node[i].usage \/ submitted])
        /\ failed' = (failed \/ ~submitted)
  BY DEF Open
<1> DEFINE fields == [lock |-> FALSE, open |-> submitted, urb |-> submitted,
                         usage |-> node[i].usage \/ submitted]
<1>1. /\ node[i].lock /\ On
      /\ node' = Set(i, fields) /\ tablet' = tablet
      /\ data' = data /\ failed' = (failed \/ ~submitted)
      /\ submitted \in BOOLEAN /\ (submitted => ~At(i, "leaving"))
      /\ node[i].usage \in BOOLEAN /\ node[i].stage \in {"registered", "bound", "leaving"}
  BY <1>p DEF Open, Submits, IInv, SysTypeOK, StageInv, Idle, Unbound, Stages
<1>2. Fits(fields)
  BY <1>1 DEF Fits, NodeFields, Stages, Selects
<1> HIDE DEF fields
<1>3. /\ node' \in [Ifaces -> NodeState]
      /\ \A j \in Ifaces \ {i} : node'[j] = node[j]
      /\ \A f \in NodeFields :
           node'[i][f] = IF f \in DOMAIN fields THEN fields[f] ELSE node[i][f]
  BY <1>1, <1>2, SetFields DEF IInv
<1>4. /\ node'[i].stage = node[i].stage /\ node'[i].open = submitted
      /\ node'[i].urb = submitted /\ node'[i].lock = FALSE
      /\ node'[i].finger = node[i].finger /\ node'[i].shared = node[i].shared
      /\ node'[i].group = node[i].group /\ node'[i].select = node[i].select
  BY <1>3 DEF fields, NodeFields
<1>5. SysTypeOK'
  BY <1>1, <1>3 DEF IInv, SysTypeOK, NodeState
<1>6. \A j \in Ifaces : StageInv(j)'
  <2>1. StageInv(i)'
    BY <1>1, <1>4 DEF IInv, StageInv, Idle, At, On, Unbound
  <2> QED
    BY <1>1, <1>3, <2>1, StageKept DEF IInv
<1>7. AddressInv' /\ RefsInv' /\ NearInv' /\ LedsInv'
  BY <1>1, <1>3, <1>4, RecordKept DEF IInv, StageInv, Idle, Unbound, At
<1>8. ListenInv'
  BY <1>1, <1>3, <1>4 DEF IInv, StageInv, ListenInv, Works, On
<1>9. FingerInv'
  BY <1>1, <1>3, <1>4 DEF IInv, FingerInv, Idle, Unbound, Ifaces
<1>10. ModeInv' /\ SelectInv'
  <2>1. \A j \in Ifaces : node'[j].stage = node[j].stage /\ node'[j].select = node[j].select
    BY <1>3, <1>4
  <2>2. Works' = Works /\ tablet' = tablet /\ (~failed' => ~failed)
    BY <1>1 DEF Works, On
  <2> QED
    BY <2>1, <2>2 DEF IInv, ModeInv, SelectInv, At, Ifaces
<1> QED
  BY <1>5, <1>6, <1>7, <1>8, <1>9, <1>10 DEF IInv

\* A tablet that is awake shows what is stored, unless the message is lost.
LEMMA LedStoreInv ==
    ASSUME IInv, NEW i \in Ifaces, NEW v \in Selects, LedStore(i, v)
    PROVE  IInv'
<1>p. PICK sent \in (IF On THEN Sent({"leds"}) ELSE {{}}) :
        /\ tablet' = IF sent = {} THEN tablet ELSE [tablet EXCEPT !.leds = v]
        /\ failed' = (failed \/ (On /\ sent = {}))
  BY DEF LedStore
<1>0. /\ tablet'.kind = tablet.kind /\ tablet'.plugged = tablet.plugged
      /\ tablet'.pen = tablet.pen /\ tablet'.power = tablet.power
      /\ tablet'.mode = tablet.mode /\ tablet'.leds = IF sent = {} THEN tablet.leds ELSE v
      /\ tablet' \in [kind: DOMAIN Interfaces \cup {Unplugged}, plugged: BOOLEAN, pen: BOOLEAN,
                      power: {"on", "system", "auto"}, mode: SUBSET Ifaces, leds: Selects]
  BY <1>p DEF IInv, SysTypeOK, Selects
<1> DEFINE fields == [select |-> v]
<1>1. /\ node[i].stage = "bound" /\ node[i].group
      /\ node' = Set(i, fields) /\ data' = data
      /\ failed' = (failed \/ (On /\ sent = {}))
  BY <1>p DEF LedStore, At
<1>2. Fits(fields)
  BY DEF Fits, NodeFields, Stages, Selects
<1> HIDE DEF fields
<1>3. /\ node' \in [Ifaces -> NodeState]
      /\ \A j \in Ifaces \ {i} : node'[j] = node[j]
      /\ \A f \in NodeFields :
           node'[i][f] = IF f \in DOMAIN fields THEN fields[f] ELSE node[i][f]
  BY <1>1, <1>2, SetFields DEF IInv
<1>4. /\ node'[i].stage = node[i].stage /\ node'[i].open = node[i].open
      /\ node'[i].urb = node[i].urb /\ node'[i].lock = node[i].lock
      /\ node'[i].finger = node[i].finger /\ node'[i].shared = node[i].shared
      /\ node'[i].group = node[i].group /\ node'[i].select = v
  BY <1>3 DEF fields, NodeFields
<1>5. SysTypeOK'
  BY <1>0, <1>1, <1>3 DEF IInv, SysTypeOK, NodeState
<1>6. \A j \in Ifaces : StageInv(j)'
  <2>1. StageInv(i)'
    BY <1>0, <1>1, <1>4 DEF IInv, StageInv, Idle, At, On, Unbound
  <2> QED
    BY <1>0, <1>1, <1>3, <2>1, StageKept DEF IInv
<1>7. AddressInv' /\ RefsInv' /\ NearInv' /\ LedsInv'
  BY <1>0, <1>1, <1>3, <1>4, RecordKept DEF IInv, StageInv, Idle, Unbound, At
<1>8. ListenInv'
  BY <1>0, <1>1, <1>3, <1>4 DEF IInv, StageInv, ListenInv, Works, On
<1>9. FingerInv'
  BY <1>0, <1>1, <1>3, <1>4 DEF IInv, FingerInv, Idle, Unbound, Ifaces
<1>10. ModeInv'
  BY <1>0, <1>1, <1>3, <1>4 DEF IInv, ModeInv, At, Works, On
<1>11. SelectInv'
  BY <1>0, <1>1, <1>3, <1>4 DEF IInv, SelectInv, LedsInv, StageInv, Idle, Unbound, Ifaces, Works, On
<1> QED
  BY <1>5, <1>6, <1>7, <1>8, <1>9, <1>10, <1>11 DEF IInv

-----------------------------------------------------------------------------
(* Taking and giving up references.                                        *)

\* There are three interfaces at most, so those that hold the record can be
\* counted.
LEMMA UsersFinite == IsFiniteSet(Users) /\ Cardinality(Users) \in Nat
<1>1. IsFiniteSet({} \cup {"pen"} \cup {"touch"} \cup {"extra"})
  BY FS_EmptySet, FS_AddElement
<1>2. Users \in SUBSET ({} \cup {"pen"} \cup {"touch"} \cup {"extra"})
  BY DEF Users, Ifaces
<1> QED
  BY <1>1, <1>2, FS_Subset, FS_CardinalityType

\* One more interface holds the record.
LEMMA UsersJoined ==
    ASSUME NEW i \in Ifaces, ~node[i].shared, node'[i].shared,
           \A j \in Ifaces \ {i} : node'[j].shared = node[j].shared
    PROVE  Cardinality(Users') = Cardinality(Users) + 1
<1>1. Users' = Users \cup {i} /\ i \notin Users
  BY DEF Users
<1> QED
  BY <1>1, UsersFinite, FS_AddElement

\* One interface less does.
LEMMA UsersLeft ==
    ASSUME NEW i \in Ifaces, node[i].shared, ~node'[i].shared,
           \A j \in Ifaces \ {i} : node'[j].shared = node[j].shared
    PROVE  Cardinality(Users') = Cardinality(Users) - 1
<1>1. Users' = Users \ {i} /\ i \in Users
  BY DEF Users
<1> QED
  BY <1>1, UsersFinite, FS_RemoveElement

\* wacom_remove_shared_data frees the record with the last interface.
LEMMA DropSharedInv ==
    ASSUME IInv, NEW i \in Ifaces, data' = DropShared(i), tablet'.kind = tablet.kind,
           ~node'[i].shared, \A j \in Ifaces \ {i} : node'[j].shared = node[j].shared
    PROVE  /\ data' \in [refs: 0 .. MaxRefs, near: BOOLEAN]
           /\ RefsInv'
           /\ data'.near => data.near
<1>1. /\ data \in [refs: 0 .. MaxRefs, near: BOOLEAN] /\ MaxRefs \in Nat
      /\ Cardinality(Users) \in Nat
      /\ data.refs >= Cardinality(Users)
      /\ tablet.kind # "PRO" => data.refs = Cardinality(Users)
      /\ data.refs = 0 => ~data.near
  BY UsersFinite, SysAssumption DEF IInv, SysTypeOK, RefsInv
<1>2. CASE ~node[i].shared
  <2>1. data' = data
    BY <1>2 DEF DropShared
  <2>2. Users' = Users
    BY <1>2 DEF Users
  <2> QED
    BY <1>1, <2>1, <2>2 DEF RefsInv
<1>3. CASE node[i].shared
  <2>1. Cardinality(Users') = Cardinality(Users) - 1
    BY <1>3, UsersLeft
  <2>2. Cardinality(Users') \in Nat
    <3>1. Users' \in SUBSET Users
      BY <1>3 DEF Users
    <3> QED
      BY <3>1, UsersFinite, FS_Subset, FS_CardinalityType
  <2>3. CASE data.refs = 1
    <3>1. data' = [refs |-> 0, near |-> FALSE]
      BY <1>3, <2>3 DEF DropShared, NoData
    <3>2. data'.refs = 0 /\ data'.near = FALSE
      BY <3>1
    <3>3. data' \in [refs: 0 .. MaxRefs, near: BOOLEAN]
      BY <1>1, <3>1
    <3> QED
      BY <1>1, <2>1, <2>2, <2>3, <3>2, <3>3 DEF RefsInv
  <2>4. CASE data.refs # 1
    <3>1. data' = [data EXCEPT !.refs = @ - 1]
      BY <1>3, <2>4 DEF DropShared
    <3>2. data.refs >= 2
      BY <1>1, <2>1, <2>2, <2>4
    <3>3. data'.refs = data.refs - 1 /\ data'.near = data.near
      BY <1>1, <3>1
    <3>4. data' \in [refs: 0 .. MaxRefs, near: BOOLEAN]
      BY <1>1, <3>1, <3>2
    <3> QED
      BY <1>1, <2>1, <3>2, <3>3, <3>4 DEF RefsInv
  <2> QED
    BY <2>3, <2>4
<1> QED
  BY <1>2, <1>3

\* What wacom_disconnect and the error path of wacom_probe leave behind.
LEMMA GoneInv ==
    ASSUME IInv, NEW i \in Ifaces, ~Idle(i), NEW stage \in {"refused", "unbound"},
           Gone(i, stage), tablet' = tablet, failed' \in BOOLEAN, failed => failed'
    PROVE  IInv'
<1>1. node \in [Ifaces -> NodeState]
  BY DEF IInv, SysTypeOK, NodeState
<1>2. PICK left \in BOOLEAN :
        /\ node' = [node EXCEPT ![i] = [Fresh EXCEPT !.stage = stage, !.group = left]]
        /\ left => node[i].group /\ tablet.kind = "I4S"
  <2>1. GroupLeft(i) \in BOOLEAN
    BY DEF GroupLeft
  <2> QED
    BY <2>1 DEF Gone, GroupLeft
<1>3. /\ \A j \in Ifaces \ {i} : node'[j] = node[j]
      /\ node'[i] = [Fresh EXCEPT !.stage = stage, !.group = left]
  BY <1>1, <1>2
<1>4. /\ node'[i].stage = stage /\ node'[i].open = FALSE /\ node'[i].urb = FALSE
      /\ node'[i].lock = FALSE /\ node'[i].shared = FALSE /\ node'[i].group = left
  BY <1>3 DEF Fresh
<1>5. node' \in [Ifaces -> NodeState]
  <2>1. node'[i] \in NodeState
    BY <1>3 DEF Fresh, NodeState, Stages, Selects
  <2> QED
    BY <1>1, <1>2, <1>3, <2>1
<1>6. /\ data' \in [refs: 0 .. MaxRefs, near: BOOLEAN]
      /\ RefsInv'
      /\ data'.near => data.near
  BY <1>3, <1>4, DropSharedInv DEF Gone
<1>7. SysTypeOK'
  BY <1>5, <1>6 DEF IInv, SysTypeOK, NodeState
<1>8. tablet.kind # Unplugged
  BY DEF IInv, StageInv
<1>9. AddressInv' /\ NearInv'
  BY <1>6, <1>8 DEF IInv, AddressInv, NearInv
<1>10. \A j \in Ifaces : StageInv(j)'
  <2>1. StageInv(i)'
    BY <1>2, <1>4 DEF StageInv, Idle, At, Unbound, HasLeds
  <2> QED
    BY <1>3, <2>1, StageKept DEF IInv
<1>11. /\ Works' = Works
       /\ Idle(i)' /\ ~node'[i].open /\ ~At(i, "bound")'
       /\ node'[i].stage \notin {"made", "registered", "bound"}
  BY <1>4 DEF Works, On, Idle, Unbound, At
<1>12. LedsInv'
  BY <1>3, <1>11 DEF IInv, LedsInv, Idle
<1>13. ListenInv' /\ ModeInv'
  BY <1>3, <1>11 DEF IInv, ListenInv, ModeInv, At
<1>14. FingerInv' /\ SelectInv'
  BY <1>3, <1>11 DEF IInv, FingerInv, SelectInv, Idle, Ifaces
<1> QED
  BY <1>6, <1>7, <1>9, <1>10, <1>12, <1>13, <1>14 DEF IInv

\* The last part of wacom_disconnect
LEMMA RemoveInv ==
    ASSUME IInv, NEW i \in Ifaces, Remove(i)
    PROVE  IInv'
<1>1. ~Idle(i)
  BY DEF Remove, At, Idle, Unbound
<1> QED
  BY <1>1, GoneInv DEF Remove, IInv, SysTypeOK

-----------------------------------------------------------------------------
(* wacom_probe.                                                            *)

\* A probe that gives up before it has an input device leaves the interface
\* as it was, though an Intuos Pro's keeps its reference.
LEMMA RefusedInv ==
    ASSUME IInv, NEW i \in Ifaces, Probed(i), node' = Set(i, [stage |-> "refused"]),
           tablet' = tablet, failed' \in BOOLEAN, failed => failed',
           \/ data' = data
           \/ tablet.kind = "PRO" /\ data.refs < MaxRefs /\ data' = TakeShared
    PROVE  IInv'
<1> DEFINE fields == [stage |-> "refused"]
<1>1. /\ Idle(i) /\ Works /\ i \in Interfaces[tablet.kind]
      /\ tablet.kind # Unplugged
  BY DEF Probed, Works, Of, Idle, IInv, AddressInv
<1>2. Fits(fields)
  BY DEF Fits, NodeFields, Stages, Selects
<1> HIDE DEF fields
<1>3. /\ node' \in [Ifaces -> NodeState]
      /\ \A j \in Ifaces \ {i} : node'[j] = node[j]
      /\ \A f \in NodeFields :
           node'[i][f] = IF f \in DOMAIN fields THEN fields[f] ELSE node[i][f]
  BY <1>2, SetFields DEF IInv, fields
<1>4. /\ node'[i].stage = "refused" /\ node'[i].open = node[i].open
      /\ node'[i].urb = node[i].urb /\ node'[i].lock = node[i].lock
      /\ node'[i].finger = node[i].finger /\ node'[i].shared = node[i].shared
      /\ node'[i].group = node[i].group /\ node'[i].select = node[i].select
  BY <1>3 DEF fields, NodeFields
<1>5. /\ data' \in [refs: 0 .. MaxRefs, near: BOOLEAN]
      /\ RefsInv'
      /\ data'.near = data.near
  <2>1. Users' = Users
    BY <1>3, <1>4 DEF Users
  <2>2. /\ data \in [refs: 0 .. MaxRefs, near: BOOLEAN] /\ MaxRefs \in Nat
        /\ Cardinality(Users) \in Nat
    BY UsersFinite, SysAssumption DEF IInv, SysTypeOK
  <2>3. CASE data' = data
    BY <2>1, <2>2, <2>3 DEF IInv, RefsInv
  <2>4. CASE tablet.kind = "PRO" /\ data.refs < MaxRefs /\ data' = TakeShared
    <3>1. data' = [data EXCEPT !.refs = @ + 1]
      BY <2>4 DEF TakeShared
    <3>2. data'.refs = data.refs + 1 /\ data'.near = data.near
      BY <2>2, <3>1
    <3>3. data' \in [refs: 0 .. MaxRefs, near: BOOLEAN]
      BY <2>2, <2>4, <3>1
    <3> QED
      BY <2>1, <2>2, <2>4, <3>2, <3>3 DEF IInv, RefsInv
  <2> QED
    BY <2>3, <2>4
<1>6. SysTypeOK'
  BY <1>3, <1>5 DEF IInv, SysTypeOK, NodeState
<1>7. \A j \in Ifaces : StageInv(j)'
  <2>1. StageInv(i)'
    BY <1>1, <1>4 DEF IInv, StageInv, Idle, At, On, Works, Unbound
  <2> QED
    BY <1>3, <2>1, StageKept DEF IInv
<1>8. AddressInv' /\ NearInv'
  BY <1>1, <1>5 DEF IInv, AddressInv, NearInv
<1>9. Works' = Works /\ Idle(i)' /\ ~node'[i].open /\ ~At(i, "bound")'
  BY <1>1, <1>4 DEF Works, On, Idle, Unbound, At, IInv, StageInv
<1>10. LedsInv'
  BY <1>3, <1>9 DEF IInv, LedsInv, Idle
<1>11. ListenInv' /\ ModeInv'
  BY <1>3, <1>9 DEF IInv, ListenInv, ModeInv, At
<1>12. FingerInv' /\ SelectInv'
  BY <1>3, <1>4, <1>9 DEF IInv, FingerInv, SelectInv, Idle, Ifaces
<1> QED
  BY <1>5, <1>6, <1>7, <1>8, <1>10, <1>11, <1>12 DEF IInv

\* The failures of wacom_probe.
LEMMA ProbeFailsInv ==
    ASSUME IInv, NEW i \in Ifaces, ProbeFails(i)
    PROVE  IInv'
<1>1. CASE At(i, "made") /\ Gone(i, "refused")
  <2>1. ~Idle(i)
    BY <1>1 DEF At, Idle, Unbound
  <2> QED
    BY <1>1, <2>1, GoneInv DEF ProbeFails
<1>2. CASE Probed(i) /\ node' = Set(i, [stage |-> "refused"]) /\ data' = data
  BY <1>2, RefusedInv DEF ProbeFails
<1> QED
  BY <1>1, <1>2 DEF ProbeFails

\* The interface that is made takes a reference if its tablet shares a record,
\* and is the only one if its tablet has LEDs.
LEMMA MadeInv ==
    ASSUME IInv, NEW i \in Ifaces, Probed(i), ~Refused(i), ~node[i].group, data.refs < MaxRefs,
           NEW read \in BOOLEAN, NEW lit \in BOOLEAN,
           data' = IF tablet.kind \in Sharing THEN TakeShared ELSE data,
           node' = Set(i, [stage |-> "made", shared |-> tablet.kind \in Sharing,
                           group |-> tablet.kind \in HasLeds, select |-> 0,
                           finger |-> Fingers(i, read)]),
           tablet' = IF lit THEN [tablet EXCEPT !.leds = 0] ELSE tablet,
           failed' = (failed \/ ~read \/ (tablet.kind \in HasLeds /\ ~lit))
    PROVE  IInv'
<1> DEFINE fields == [stage |-> "made", shared |-> tablet.kind \in Sharing,
                      group |-> tablet.kind \in HasLeds, select |-> 0,
                      finger |-> Fingers(i, read)]
<1>0. /\ tablet'.kind = tablet.kind /\ tablet'.plugged = tablet.plugged
      /\ tablet'.pen = tablet.pen /\ tablet'.power = tablet.power
      /\ tablet'.mode = tablet.mode
      /\ tablet'.leds = IF lit THEN 0 ELSE tablet.leds
      /\ tablet' \in [kind: DOMAIN Interfaces \cup {Unplugged}, plugged: BOOLEAN, pen: BOOLEAN,
                      power: {"on", "system", "auto"}, mode: SUBSET Ifaces, leds: Selects]
  BY DEF IInv, SysTypeOK, Selects
<1>1. /\ Idle(i) /\ ~node[i].shared /\ ~node[i].open /\ ~node[i].urb /\ ~node[i].lock
      /\ Works /\ i \in Interfaces[tablet.kind]
      /\ tablet.kind # Unplugged
      /\ i = "touch" => tablet.kind \notin {"I5", "PRO"}
      /\ tablet.kind = "PRO" => data.refs = 0
  <2>1. data.refs \in Nat
    BY SysAssumption DEF IInv, SysTypeOK
  <2>2. Idle(i) /\ Works /\ i \in Interfaces[tablet.kind] /\ tablet.kind # Unplugged
    BY DEF Probed, Works, Of, Idle, IInv, AddressInv
  <2> QED
    BY <2>1, <2>2 DEF IInv, StageInv, Idle, Unbound, Refused
<1>2. Fits(fields)
  <2>1. Fingers(i, read) \in BOOLEAN
    BY DEF Fingers
  <2> QED
    BY <2>1 DEF Fits, NodeFields, Stages, Selects
<1> HIDE DEF fields
<1>3. /\ node' \in [Ifaces -> NodeState]
      /\ \A j \in Ifaces \ {i} : node'[j] = node[j]
      /\ \A f \in NodeFields :
           node'[i][f] = IF f \in DOMAIN fields THEN fields[f] ELSE node[i][f]
  BY <1>2, SetFields DEF IInv, fields
<1>4. /\ node'[i].stage = "made" /\ node'[i].open = node[i].open
      /\ node'[i].urb = node[i].urb /\ node'[i].lock = node[i].lock
      /\ node'[i].finger = Fingers(i, read) /\ node'[i].shared = (tablet.kind \in Sharing)
      /\ node'[i].group = (tablet.kind \in HasLeds) /\ node'[i].select = 0
  BY <1>3 DEF fields, NodeFields
<1>5. /\ data' \in [refs: 0 .. MaxRefs, near: BOOLEAN]
      /\ RefsInv'
      /\ data'.near = data.near
  <2>1. /\ data \in [refs: 0 .. MaxRefs, near: BOOLEAN] /\ MaxRefs \in Nat
        /\ Cardinality(Users) \in Nat
    BY UsersFinite, SysAssumption DEF IInv, SysTypeOK
  <2>2. CASE tablet.kind \in Sharing
    <3>1. data' = [data EXCEPT !.refs = @ + 1]
      BY <2>2 DEF TakeShared
    <3>2. data'.refs = data.refs + 1 /\ data'.near = data.near
      BY <2>1, <3>1
    <3>3. data' \in [refs: 0 .. MaxRefs, near: BOOLEAN]
      BY <2>1, <3>1
    <3>4. Cardinality(Users') = Cardinality(Users) + 1
      BY <1>1, <1>3, <1>4, <2>2, UsersJoined
    <3> QED
      BY <1>0, <2>1, <3>2, <3>3, <3>4 DEF IInv, RefsInv
  <2>3. CASE tablet.kind \notin Sharing
    <3>1. Users' = Users
      BY <1>1, <1>3, <1>4, <2>3 DEF Users
    <3> QED
      BY <1>0, <2>1, <2>3, <3>1 DEF IInv, RefsInv
  <2> QED
    BY <2>2, <2>3
<1>6. SysTypeOK'
  BY <1>0, <1>3, <1>5 DEF IInv, SysTypeOK, NodeState
<1>7. \A j \in Ifaces : StageInv(j)'
  <2>1. StageInv(i)'
    <3>1. i = "touch" => tablet.kind \in TouchWaits
      BY <1>1 DEF Interfaces, IInv, SysTypeOK, TouchWaits
    <3> QED
      BY <1>0, <1>1, <1>4, <3>1 DEF StageInv, Idle, At, On, Works, Unbound
  <2> QED
    BY <1>0, <1>3, <2>1, StageKept DEF IInv
<1>8. AddressInv' /\ NearInv'
  BY <1>0, <1>1, <1>5 DEF IInv, AddressInv, NearInv
<1>9. LedsInv'
  <2>1. SUFFICES ASSUME tablet.kind \in HasLeds
                 PROVE  \A j \in Ifaces \ {i} : Idle(j)
    BY <1>0, <1>3, <1>4 DEF LedsInv, Idle
  <2>2. CASE tablet.kind = "PRO"
    <3>1. Users = {}
      BY <1>1, <2>2, UsersFinite, FS_EmptySet DEF IInv, RefsInv
    <3> QED
      BY <2>2, <3>1 DEF IInv, StageInv, Users, Sharing
  <2>3. CASE tablet.kind # "PRO"
    BY <1>1, <2>1, <2>3 DEF IInv, StageInv, HasLeds, Interfaces, TouchWaits
  <2> QED
    BY <2>2, <2>3
<1>10. Works' = Works /\ ~At(i, "bound")' /\ ~node'[i].open /\ (~failed' => ~failed)
  BY <1>0, <1>1, <1>4 DEF Works, On, At
<1>11. ListenInv' /\ ModeInv'
  BY <1>0, <1>3, <1>10 DEF IInv, ListenInv, ModeInv, At
<1>12. FingerInv'
  BY <1>0, <1>3, <1>4 DEF IInv, FingerInv, Fingers, TouchWaits, Idle, Ifaces
<1>13. SelectInv'
  <2>1. CASE i = "pen"
    BY <1>0, <1>4, <2>1 DEF SelectInv
  <2>2. CASE i # "pen"
    <3>1. tablet.kind \in HasLeds => Idle("pen")'
      BY <1>0, <1>4, <1>9, <2>2 DEF LedsInv, Idle, Unbound, Ifaces
    <3> QED
      BY <1>0, <3>1 DEF SelectInv, Idle, Unbound
  <2> QED
    BY <2>1, <2>2
<1> QED
  BY <1>5, <1>6, <1>7, <1>8, <1>9, <1>11, <1>12, <1>13 DEF IInv

\* wacom_probe up to its registration of the input device
LEMMA ProbeInv ==
    ASSUME IInv, NEW i \in Ifaces, Probe(i)
    PROVE  IInv'
<1>1. CASE Refused(i)
  <2>1. \/ data' = data
        \/ tablet.kind = "PRO" /\ data.refs < MaxRefs /\ data' = TakeShared
    BY <1>1 DEF Probe, Refused
  <2> QED
    BY <1>1, <2>1, RefusedInv DEF Probe, IInv, SysTypeOK
<1>2. CASE ~Refused(i) /\ node[i].group
  BY <1>2, RefusedInv DEF Probe, IInv, SysTypeOK
<1>3. CASE ~Refused(i) /\ ~node[i].group
  <2>1. PICK sent \in (IF tablet.kind \in HasLeds THEN Sent({"leds"}) ELSE {{}}),
             read \in (IF MayFail THEN BOOLEAN ELSE {TRUE}) :
              /\ data' = IF tablet.kind \in Sharing THEN TakeShared ELSE data
              /\ node' = Set(i, [stage |-> "made", shared |-> tablet.kind \in Sharing,
                                 group |-> tablet.kind \in HasLeds, select |-> 0,
                                 finger |-> Fingers(i, read)])
              /\ tablet' = IF sent = {} THEN tablet ELSE [tablet EXCEPT !.leds = 0]
              /\ failed' = (failed \/ ~read \/ (tablet.kind \in HasLeds /\ sent = {}))
    BY <1>3 DEF Probe
  <2>2. PICK lit \in BOOLEAN : lit = (sent # {})
    OBVIOUS
  <2>3. read \in BOOLEAN
    OBVIOUS
  <2> QED
    BY <1>3, <2>1, <2>2, <2>3, MadeInv DEF Probe
<1> QED
  BY <1>1, <1>2, <1>3

-----------------------------------------------------------------------------
(* The hardware and its user.                                              *)

\* A tablet that is plugged in starts with records of its own.
LEMMA PlugInv ==
    ASSUME IInv, Plug
    PROVE  IInv'
<1>1. PICK kind \in Kinds, pen \in BOOLEAN, leds \in Selects :
        tablet' = [kind |-> kind, plugged |-> TRUE, pen |-> pen, power |-> "on", mode |-> {},
                   leds |-> leds]
  BY DEF Plug
<1>2. /\ data = NoData /\ data' = data /\ node' = node
      /\ \A i \in Ifaces : node[i] = Fresh
      /\ failed' = FALSE
  BY DEF Plug, IInv, AddressInv
<1>3. /\ tablet'.kind = kind /\ tablet'.plugged = TRUE /\ tablet'.power = "on"
      /\ kind \in DOMAIN Interfaces /\ kind # Unplugged
  BY <1>1, SysAssumption DEF Interfaces, Unplugged
<1>4. SysTypeOK'
  BY <1>1, <1>2, <1>3 DEF IInv, SysTypeOK
<1>5. \A i \in Ifaces : /\ node'[i].stage = "new" /\ node'[i].open = FALSE
                        /\ node'[i].urb = FALSE /\ node'[i].lock = FALSE
                        /\ node'[i].shared = FALSE /\ node'[i].group = FALSE
  BY <1>2 DEF Fresh
<1>6. AddressInv' /\ NearInv' /\ \A i \in Ifaces : StageInv(i)'
  BY <1>2, <1>3, <1>5 DEF AddressInv, NearInv, NoData, StageInv, Idle, Unbound
<1>7. RefsInv'
  <2>1. Users' = {}
    BY <1>5 DEF Users
  <2> QED
    BY <1>2, <2>1, FS_EmptySet DEF RefsInv, NoData
<1>8. LedsInv' /\ ListenInv' /\ FingerInv' /\ ModeInv' /\ SelectInv'
  BY <1>5 DEF LedsInv, ListenInv, FingerInv, ModeInv, SelectInv, Idle, Unbound, At, Ifaces
<1> QED
  BY <1>4, <1>6, <1>7, <1>8 DEF IInv

\* A tablet that is unplugged does nothing.
LEMMA UnplugInv ==
    ASSUME IInv, Unplug, CarefulUser
    PROVE  IInv'
<1>1. /\ tablet'.kind = tablet.kind /\ tablet'.plugged = FALSE /\ tablet'.power = "on"
      /\ tablet.kind # Unplugged /\ tablet.kind # "PRO"
      /\ node' = node /\ data' = data /\ failed' = failed
  BY DEF Unplug, CarefulUser, IInv, SysTypeOK
<1>2. SysTypeOK'
  BY <1>1 DEF Unplug, IInv, SysTypeOK
<1>3. AddressInv' /\ NearInv'
  BY <1>1 DEF IInv, AddressInv, NearInv
<1>4. \A i \in Ifaces : StageInv(i)'
  BY <1>1 DEF IInv, StageInv, Idle, At, On
<1>5. RefsInv'
  BY <1>1 DEF IInv, RefsInv, Users
<1>6. LedsInv' /\ FingerInv'
  BY <1>1 DEF IInv, LedsInv, FingerInv, Idle
<1>7. ListenInv' /\ ModeInv' /\ SelectInv'
  BY <1>1 DEF ListenInv, ModeInv, SelectInv, Works
<1> QED
  BY <1>2, <1>3, <1>4, <1>5, <1>6, <1>7 DEF IInv

\* The address of a tablet without a bound interface is as good as new: its
\* record went with the last interface.
LEMMA ForgetInv ==
    ASSUME IInv, Forget
    PROVE  IInv'
<1>1. /\ tablet'.kind = Unplugged /\ tablet'.plugged = FALSE /\ tablet.kind # "PRO"
      /\ data' = data /\ failed' = failed /\ node' = [i \in Ifaces |-> Fresh]
      /\ \A i \in Ifaces : Idle(i)
  BY DEF Forget, IInv, SysTypeOK, AddressInv, Idle
<1>2. data' = NoData
  <2>1. Users = {}
    BY <1>1 DEF IInv, StageInv, Users
  <2>2. data.refs = 0 /\ data.near = FALSE
    BY <1>1, <2>1, FS_EmptySet DEF IInv, SysTypeOK, RefsInv
  <2> QED
    BY <1>1, <2>2 DEF IInv, SysTypeOK, NoData
<1>3. \A i \in Ifaces : /\ node'[i].stage = "new" /\ node'[i].open = FALSE
                        /\ node'[i].urb = FALSE /\ node'[i].lock = FALSE
                        /\ node'[i].shared = FALSE /\ node'[i].group = FALSE
  BY <1>1 DEF Fresh
<1>4. SysTypeOK'
  <2>1. Fresh \in NodeState
    BY DEF Fresh, NodeState, Stages, Selects
  <2>2. tablet' \in [kind: DOMAIN Interfaces \cup {Unplugged}, plugged: BOOLEAN, pen: BOOLEAN,
                     power: {"on", "system", "auto"}, mode: SUBSET Ifaces, leds: Selects]
    BY DEF Forget, IInv, SysTypeOK
  <2> QED
    BY <1>1, <2>1, <2>2 DEF IInv, SysTypeOK, NodeState
<1>5. AddressInv' /\ NearInv' /\ \A i \in Ifaces : StageInv(i)'
  BY <1>1, <1>2, <1>3 DEF AddressInv, NearInv, NoData, StageInv, Idle, Unbound, Unplugged
<1>6. RefsInv'
  <2>1. Users' = {}
    BY <1>3 DEF Users
  <2> QED
    BY <1>2, <2>1, FS_EmptySet DEF RefsInv, NoData
<1>7. LedsInv' /\ ListenInv' /\ FingerInv' /\ ModeInv' /\ SelectInv'
  BY <1>3 DEF LedsInv, ListenInv, FingerInv, ModeInv, SelectInv, Idle, Unbound, At, Ifaces
<1> QED
  BY <1>4, <1>5, <1>6, <1>7 DEF IInv

\* The pen's nearness is that of the tablet's pen, for it leaves only while
\* the pen's interface listens.
LEMMA PenMovesInv ==
    ASSUME IInv, NEW near \in BOOLEAN, PenMoves(near), CarefulUser
    PROVE  IInv'
<1>1. /\ Works /\ tablet' = [tablet EXCEPT !.pen = near]
      /\ node' = node /\ failed' = failed
  BY DEF PenMoves
<1>0. PICK ranged \in BOOLEAN :
        data' = IF node["pen"].urb /\ tablet.kind \in Sharing
                THEN [data EXCEPT !.near = IF tablet.kind \in TouchWaits THEN near ELSE @ \/ ranged]
                ELSE data
  BY DEF PenMoves
<1>2. /\ tablet'.kind = tablet.kind /\ tablet'.plugged = tablet.plugged
      /\ tablet'.power = tablet.power /\ tablet'.pen = near
      /\ tablet'.mode = tablet.mode /\ tablet'.leds = tablet.leds
      /\ tablet' \in [kind: DOMAIN Interfaces \cup {Unplugged}, plugged: BOOLEAN, pen: BOOLEAN,
                      power: {"on", "system", "auto"}, mode: SUBSET Ifaces, leds: Selects]
  BY <1>1 DEF IInv, SysTypeOK
<1>3. /\ data \in [refs: 0 .. MaxRefs, near: BOOLEAN] /\ MaxRefs \in Nat
      /\ data' \in [refs: 0 .. MaxRefs, near: BOOLEAN]
      /\ data'.refs = data.refs
      /\ node["pen"].urb /\ tablet.kind \in TouchWaits => data'.near = near
      /\ ~ (node["pen"].urb /\ tablet.kind \in Sharing) => data'.near = data.near
  BY <1>0, SysAssumption DEF IInv, SysTypeOK, Sharing, TouchWaits
<1>4. SysTypeOK'
  BY <1>1, <1>2, <1>3 DEF IInv, SysTypeOK
<1>5. AddressInv'
  BY <1>1, <1>2 DEF IInv, AddressInv, Works
<1>6. \A i \in Ifaces : StageInv(i)'
  BY <1>1, <1>2 DEF IInv, StageInv, Idle, At, On
<1>7. RefsInv'
  <2>1. Users' = Users /\ Cardinality(Users) \in Nat
    BY <1>1, UsersFinite DEF Users
  <2>2. node["pen"].urb /\ tablet.kind \in Sharing => data.refs # 0
    <3>1. SUFFICES ASSUME node["pen"].urb, tablet.kind \in Sharing
                   PROVE  data.refs # 0
      OBVIOUS
    <3>2. node["pen"].shared
      BY <3>1 DEF IInv, StageInv, Idle, Unbound, Ifaces, Sharing
    <3>3. Users # {}
      BY <3>2 DEF Users, Ifaces
    <3> QED
      BY <1>3, <2>1, <3>3, UsersFinite, FS_EmptySet DEF IInv, RefsInv
  <2> QED
    BY <1>2, <1>3, <2>1, <2>2 DEF IInv, RefsInv
<1>8. NearInv'
  BY <1>1, <1>2, <1>3 DEF IInv, NearInv, Works, CarefulUser, SysTypeOK, Sharing, TouchWaits
<1>9. LedsInv' /\ FingerInv'
  BY <1>1, <1>2 DEF IInv, LedsInv, FingerInv, Idle
<1>10. ListenInv' /\ ModeInv' /\ SelectInv'
  BY <1>1, <1>2 DEF IInv, ListenInv, ModeInv, SelectInv, Works, On, At
<1> QED
  BY <1>4, <1>5, <1>6, <1>7, <1>8, <1>9, <1>10 DEF IInv

-----------------------------------------------------------------------------
(* Sleeping and waking.                                                    *)

\* wacom_suspend stops the URBs of a tablet whose interfaces are all bound or
\* unbound.
LEMMA SleepInv ==
    ASSUME IInv, NEW power \in {"system", "auto"}, Works, Quiet, Sleep(power)
    PROVE  IInv'
<1>1. /\ tablet' = [tablet EXCEPT !.power = power]
      /\ node' = [i \in Ifaces |-> [node[i] EXCEPT !.urb = @ /\ i \notin Bound]]
      /\ data' = data /\ failed' = failed
  BY DEF Sleep
<1>2. /\ tablet'.kind = tablet.kind /\ tablet'.plugged = tablet.plugged
      /\ tablet'.power = power /\ tablet'.pen = tablet.pen
      /\ tablet.kind # Unplugged
      /\ tablet' \in [kind: DOMAIN Interfaces \cup {Unplugged}, plugged: BOOLEAN, pen: BOOLEAN,
                      power: {"on", "system", "auto"}, mode: SUBSET Ifaces, leds: Selects]
  BY <1>1 DEF IInv, SysTypeOK, AddressInv, Works
<1>3. node \in [Ifaces -> NodeState]
  BY DEF IInv, SysTypeOK, NodeState
<1>4. \A i \in Ifaces :
        /\ node'[i].stage = node[i].stage /\ node'[i].open = node[i].open
        /\ node'[i].urb = (node[i].urb /\ i \notin Bound) /\ node'[i].lock = node[i].lock
        /\ node'[i].finger = node[i].finger /\ node'[i].shared = node[i].shared
        /\ node'[i].group = node[i].group /\ node'[i].select = node[i].select
        /\ node'[i] \in NodeState
  <2> TAKE i \in Ifaces
  <2>1. node'[i] = [node[i] EXCEPT !.urb = @ /\ i \notin Bound]
    BY <1>1
  <2>2. node[i] \in NodeState
    BY <1>3
  <2> QED
    BY <2>1, <2>2 DEF NodeState
<1>5. SysTypeOK'
  <2>1. node' \in [Ifaces -> NodeState]
    BY <1>1, <1>4
  <2> QED
    BY <1>1, <1>2, <2>1 DEF IInv, SysTypeOK, NodeState
<1>6. \A i \in Ifaces : StageInv(i)'
  <2> TAKE i \in Ifaces
  <2>1. Idle(i) \/ At(i, "bound")
    BY DEF Quiet, Idle, At
  <2>2. ~node'[i].urb
    BY <1>4, <2>1 DEF IInv, StageInv, Idle, Unbound, Bound, At
  <2> QED
    BY <1>2, <1>4, <2>1, <2>2 DEF IInv, StageInv, Idle, At
<1>7. AddressInv' /\ RefsInv' /\ NearInv' /\ LedsInv'
  BY <1>1, <1>2, <1>4, RecordKept DEF Idle
<1>8. FingerInv'
  BY <1>1, <1>2, <1>4 DEF IInv, FingerInv, Idle, Ifaces
<1>9. ListenInv' /\ ModeInv' /\ SelectInv'
  BY <1>2 DEF ListenInv, ModeInv, SelectInv, Works, On
<1> QED
  BY <1>5, <1>6, <1>7, <1>8, <1>9 DEF IInv

\* wacom_resume and wacom_reset_resume make the open devices listen again and
\* restore the mode and the LEDs, whether the tablet kept them or not.
LEMMA ResumeInv ==
    ASSUME IInv, Resume
    PROVE  IInv'
<1>1. /\ tablet.plugged /\ ~On /\ data' = data
      /\ \A i \in Ifaces : Idle(i) \/ At(i, "bound")
  BY DEF Resume, On, IInv, StageInv
<1>2. PICK reset \in BOOLEAN, submitted \in (IF MayFail THEN BOOLEAN ELSE {TRUE}),
           sent \in [Bound -> SUBSET {"leds", "mode"}] :
        LET kept == IF reset THEN {} ELSE tablet.mode
            leds == IF reset THEN 0 ELSE tablet.leds
        IN  /\ tablet' = [tablet EXCEPT !.power = "on",
                            !.mode = kept \cup {i \in Bound : "mode" \in sent[i]},
                            !.leds = IF tablet.kind \in HasLeds /\ "pen" \in Bound
                                        /\ "leds" \in sent["pen"]
                                     THEN node["pen"].select ELSE leds]
            /\ node' = [i \in Ifaces |->
                 IF i \in Bound THEN [node[i] EXCEPT !.urb = ListensAgain(i) /\ submitted] ELSE node[i]]
            /\ failed' = (failed \/ ~submitted \/ \E i \in Bound : sent[i] # Restored(i))
  BY DEF Resume
<1> DEFINE mode == (IF reset THEN {} ELSE tablet.mode) \cup {i \in Bound : "mode" \in sent[i]}
           leds == IF tablet.kind \in HasLeds /\ "pen" \in Bound /\ "leds" \in sent["pen"]
                   THEN node["pen"].select ELSE (IF reset THEN 0 ELSE tablet.leds)
<1>3. /\ tablet' = [tablet EXCEPT !.power = "on", !.mode = mode, !.leds = leds]
      /\ submitted \in BOOLEAN
      /\ failed' \in BOOLEAN
      /\ ~failed' => ~failed /\ submitted /\ \A i \in Bound : sent[i] = Restored(i)
  BY <1>2 DEF IInv, SysTypeOK
<1>4. mode \in SUBSET Ifaces /\ leds \in Selects
  BY DEF IInv, SysTypeOK, Bound, Ifaces, Selects
<1>5. /\ tablet'.kind = tablet.kind /\ tablet'.plugged = tablet.plugged
      /\ tablet'.power = "on" /\ tablet'.pen = tablet.pen
      /\ tablet'.mode = mode /\ tablet'.leds = leds
      /\ tablet.kind # Unplugged
      /\ tablet' \in [kind: DOMAIN Interfaces \cup {Unplugged}, plugged: BOOLEAN, pen: BOOLEAN,
                      power: {"on", "system", "auto"}, mode: SUBSET Ifaces, leds: Selects]
  <2> HIDE DEF mode, leds
  <2> QED
    BY <1>1, <1>3, <1>4 DEF IInv, SysTypeOK, AddressInv
<1>6. node \in [Ifaces -> NodeState]
  BY DEF IInv, SysTypeOK, NodeState
<1>7. \A i \in Ifaces :
        /\ node'[i].stage = node[i].stage /\ node'[i].open = node[i].open
        /\ node'[i].urb = IF At(i, "bound") THEN node[i].open /\ submitted ELSE node[i].urb
        /\ node'[i].lock = node[i].lock /\ node'[i].finger = node[i].finger
        /\ node'[i].shared = node[i].shared /\ node'[i].group = node[i].group
        /\ node'[i].select = node[i].select
        /\ node'[i] \in NodeState
  <2> TAKE i \in Ifaces
  <2>1. node[i] \in NodeState
    BY <1>6
  <2>2. CASE At(i, "bound")
    <3>1. node'[i] = [node[i] EXCEPT !.urb = node[i].open /\ submitted]
      BY <1>2, <2>2 DEF Bound, ListensAgain
    <3> QED
      BY <2>1, <2>2, <3>1 DEF NodeState
  <2>3. CASE ~At(i, "bound")
    <3>1. node'[i] = node[i]
      BY <1>2, <2>3 DEF Bound
    <3> QED
      BY <2>1, <2>3, <3>1 DEF NodeState
  <2> QED
    BY <2>2, <2>3
<1>8. SysTypeOK'
  <2>1. node' \in [Ifaces -> NodeState]
    BY <1>2, <1>7
  <2> QED
    BY <1>1, <1>3, <1>5, <2>1 DEF IInv, SysTypeOK, NodeState
<1> HIDE DEF mode, leds
<1>9. \A i \in Ifaces : StageInv(i)'
  <2> TAKE i \in Ifaces
  <2>1. StageInv(i) /\ On' /\ ~node[i].urb
    BY <1>1, <1>5 DEF IInv, StageInv, On
  <2>2. node'[i].urb => node'[i].open /\ At(i, "bound")
    BY <1>7, <2>1
  <2> QED
    BY <1>5, <1>7, <2>1, <2>2 DEF StageInv, Idle, At
<1>10. AddressInv' /\ RefsInv' /\ NearInv' /\ LedsInv'
  BY <1>1, <1>5, <1>7, RecordKept DEF Idle
<1>11. FingerInv'
  BY <1>3, <1>5, <1>7 DEF IInv, FingerInv, Idle, Ifaces
<1>12. ListenInv'
  <2>1. SUFFICES ASSUME ~failed', NEW i \in Ifaces, node'[i].open,
                        node'[i].stage \in {"registered", "bound"}
                 PROVE  node'[i].urb
    BY DEF ListenInv
  <2>2. At(i, "bound")
    BY <1>1, <1>7, <2>1 DEF Idle, Unbound, At
  <2> QED
    BY <1>3, <1>7, <2>1, <2>2
<1>13. ModeInv'
  <2>1. SUFFICES ASSUME ~failed', NEW i \in Ifaces, At(i, "bound")',
                        tablet'.kind # "TPC2" \/ i = "touch"
                 PROVE  i \in tablet'.mode
    BY DEF ModeInv
  <2>2. i \in Bound
    BY <1>7, <2>1 DEF Bound, At
  <2>3. Queried(i)
    BY <1>3, <1>5, <2>1, <2>2 DEF IInv, FingerInv, Queried, Idle, Unbound, Bound, At
  <2>4. "mode" \in sent[i]
    BY <1>3, <2>1, <2>2, <2>3 DEF Restored
  <2> QED
    BY <1>5, <2>2, <2>4 DEF mode
<1>14. SelectInv'
  <2>1. SUFFICES ASSUME ~failed', tablet'.kind \in HasLeds,
                        node'["pen"].stage \in {"made", "registered", "bound"}
                 PROVE  tablet'.leds = node'["pen"].select
    BY DEF SelectInv
  <2>2. "pen" \in Bound
    BY <1>1, <1>7, <2>1 DEF Idle, Unbound, Bound, At, Ifaces
  <2>3. "leds" \in sent["pen"]
    BY <1>3, <2>1, <2>2 DEF Restored
  <2> QED
    BY <1>5, <1>7, <2>1, <2>2, <2>3 DEF leds, Ifaces
<1> QED
  BY <1>8, <1>9, <1>10, <1>11, <1>12, <1>13, <1>14 DEF IInv

-----------------------------------------------------------------------------
(* The theorems.                                                           *)

\* With nothing plugged in the invariant holds.
LEMMA InitInv == SysInit => IInv
<1> SUFFICES ASSUME SysInit
             PROVE  IInv
  OBVIOUS
<1>1. /\ tablet = [kind |-> Unplugged, plugged |-> FALSE, pen |-> FALSE, power |-> "on",
                   mode |-> {}, leds |-> 0]
      /\ node = [i \in Ifaces |-> Fresh] /\ data = NoData /\ failed = FALSE
  BY DEF SysInit
<1>2. /\ tablet.kind = Unplugged /\ tablet.plugged = FALSE /\ tablet.power = "on"
      /\ Fresh \in NodeState
      /\ data.refs = 0 /\ data.near = FALSE
  BY <1>1 DEF Fresh, NodeState, Stages, Selects, NoData
<1>3. SysTypeOK
  <2>1. tablet \in [kind: DOMAIN Interfaces \cup {Unplugged}, plugged: BOOLEAN, pen: BOOLEAN,
                    power: {"on", "system", "auto"}, mode: SUBSET Ifaces, leds: Selects]
    BY <1>1 DEF Selects
  <2>2. data \in [refs: 0 .. MaxRefs, near: BOOLEAN]
    BY <1>1, SysAssumption DEF NoData
  <2> QED
    BY <1>1, <1>2, <2>1, <2>2 DEF SysTypeOK, NodeState
<1>4. \A i \in Ifaces : /\ node[i].stage = "new" /\ node[i].open = FALSE
                        /\ node[i].urb = FALSE /\ node[i].lock = FALSE
                        /\ node[i].shared = FALSE /\ node[i].group = FALSE
  BY <1>1 DEF Fresh
<1>5. AddressInv /\ NearInv /\ \A i \in Ifaces : StageInv(i)
  BY <1>1, <1>2, <1>4 DEF AddressInv, NearInv, StageInv, Idle, Unbound, Unplugged, On
<1>6. RefsInv
  <2>1. Users = {}
    BY <1>4 DEF Users
  <2> QED
    BY <1>2, <2>1, FS_EmptySet DEF RefsInv
<1>7. LedsInv /\ ListenInv /\ FingerInv /\ ModeInv /\ SelectInv
  BY <1>4 DEF LedsInv, ListenInv, FingerInv, ModeInv, SelectInv, Idle, Unbound, At, Ifaces
<1> QED
  BY <1>3, <1>5, <1>6, <1>7 DEF IInv

\* Every step keeps the invariant.
LEMMA StepInv ==
    ASSUME IInv, SysNext, CarefulUser
    PROVE  IInv'
<1>1. CASE Plug
  BY <1>1, PlugInv
<1>2. CASE Unplug
  BY <1>2, UnplugInv
<1>3. CASE Forget
  BY <1>3, ForgetInv
<1>4. CASE \E near \in BOOLEAN : PenMoves(near)
  BY <1>4, PenMovesInv
<1>5. ASSUME NEW i \in Ifaces,
             \/ Probe(i) \/ ProbeFails(i) \/ Register(i) \/ Bind(i)
             \/ Disconnect(i) \/ Unregister(i) \/ Remove(i)
             \/ OpenLocks(i) \/ Open(i) \/ Close(i) \/ IrqFails(i)
             \/ \E v \in Selects : LedStore(i, v)
      PROVE  IInv'
  BY <1>5, ProbeInv, ProbeFailsInv, RegisterInv, BindInv, DisconnectInv, UnregisterInv, RemoveInv,
     OpenLocksInv, OpenInv, CloseInv, IrqFailsInv, LedStoreInv
<1>6. CASE Suspend
  BY <1>6, SleepInv DEF Suspend
<1>7. CASE Autosuspend
  BY <1>7, SleepInv DEF Autosuspend
<1>8. CASE Resume
  BY <1>8, ResumeInv
<1> QED
  BY <1>1, <1>2, <1>3, <1>4, <1>5, <1>6, <1>7, <1>8 DEF SysNext, Driver

\* A step of another program changes nothing.
LEMMA StutterInv ==
    ASSUME IInv, UNCHANGED sysVars
    PROVE  IInv'
BY DEF sysVars, IInv, SysTypeOK, AddressInv, StageInv, RefsInv, NearInv, LedsInv, ListenInv,
       FingerInv, ModeInv, SelectInv, Idle, Users, At, On, Works

\* Whatever order the handlers of wacom_sys.c run in, an interface's record
\* fits its stage, the shared record is counted, and the tablet is set up.
THEOREM SysInvariant == CarefulSpec => []IInv
<1>1. IInv /\ [SysNext /\ CarefulUser]_sysVars => IInv'
  BY StepInv, StutterInv
<1> QED
  BY InitInv, <1>1, PTL DEF CarefulSpec

\* The kernel driver's variables keep to their types.
THEOREM SysTyped == CarefulSpec => []SysTypeOK
<1>1. IInv => SysTypeOK
  BY DEF IInv
<1> QED
  BY <1>1, SysInvariant, PTL

\* wacom_remove_shared_data frees the record a tablet shares only after every
\* interface that uses it has been disconnected: a handler finds it.
THEOREM RecordInUse == CarefulSpec => []SharedInUse
<1>1. IInv => SharedInUse
  BY DEF IInv, SharedInUse, StageInv, RefsInv, Users, Idle, Unbound
<1> QED
  BY <1>1, SysInvariant, PTL

\* Where stylus_in_proximity holds touch back it is about the tablet that is
\* plugged in now: its own pen is near.  No other tablet's pen is inherited.
THEOREM NoPenOfAnother == CarefulSpec => []NoGhostPen
<1>1. IInv => NoGhostPen
  BY DEF IInv, NoGhostPen, NearInv, Works
<1> QED
  BY <1>1, SysInvariant, PTL

\* The devices whose URB is submitted are those that are open, whichever of
\* wacom_open, wacom_close, wacom_suspend, wacom_resume and wacom_disconnect
\* came last.
THEOREM OpenListens == CarefulSpec => []ListensWhenOpen
<1>1. IInv => ListensWhenOpen
  BY DEF IInv, ListensWhenOpen, StageInv, ListenInv
<1> QED
  BY <1>1, SysInvariant, PTL

\* A tablet that is awake is in the mode and shows the LED it was given,
\* though wacom_reset_resume found it reset.
THEOREM AwakeIsSetUp == CarefulSpec => []SetUpWhenAwake
<1>1. IInv => SetUpWhenAwake
  BY DEF IInv, SetUpWhenAwake, ModeInv, SelectInv, Bound, At
<1> QED
  BY <1>1, SysInvariant, PTL

=============================================================================
