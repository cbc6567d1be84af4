------------------------- MODULE WacomLifecycleProof -------------------------
(***************************************************************************)
(* Proofs about the devices of one tablet, for any number of devices and   *)
(* server generations: the shared descriptor is open exactly while it is   *)
(* referred to, and the tablet is read only while all its devices are      *)
(* enabled.                                                                *)
(***************************************************************************)
EXTENDS WacomLifecycle, FiniteSetTheorems, TLAPS

\* What one device and the port agree on when n other devices hold the port.
Agree(v, n) ==
    /\ v \in [l: LocalState, c: CommonState, p: PortState]
    /\ v.c.fd_refs = n + (1 + v.l.fd)
    /\ v.p.open = IF v.c.fd_refs = 0 THEN 0 ELSE 1

\* A device holds the port, and says so, from its initialisation until it is
\* disabled, and remembers its key class until it is closed.
LocalInv(d) ==
    /\ local[d].fd >= 0 <=> server[d] \in {"inited", "on"}
    /\ local[d].wcmDevOpenCount # 0 <=> server[d] \in {"inited", "on"}
    /\ server[d] \in {"inited", "on", "off"} => local[d].wcmInitKeyClassCount # 0
    /\ local[d].keyClasses <= 1

Begun == {d \in Devices : ~Absent(d)}
Enabled == {d \in Devices : server[d] = "on"}

\* The counters err on the safe side.
CounterInv ==
    /\ common.wcmInitedTools >= Cardinality(Begun)
    /\ common.wcmEnabledTools <= Cardinality(Enabled)

IInv ==
    /\ LifecycleTypeOK
    /\ DescriptorShared
    /\ \A d \in Devices : LocalInv(d)
    /\ CounterInv

-----------------------------------------------------------------------------
(* What the helpers of xf86WcmDevProc do to a view.                        *)

\* Opening the port, or joining the others on it, keeps the agreement.
LEMMA AttachedAgrees ==
    ASSUME NEW n \in Nat, NEW v, Agree(v, n), v.l.fd < 0
    PROVE  /\ Agree(Attached(v), n)
           /\ Attached(v).l = [v.l EXCEPT !.fd = 0]
           /\ Attached(v).c.wcmInitedTools = v.c.wcmInitedTools
           /\ Attached(v).c.wcmEnabledTools = v.c.wcmEnabledTools
<1> USE DEF Agree, LocalState, CommonState, PortState
<1>1. v.c.fd_refs = n
  OBVIOUS
<1>2. CASE n = 0
  BY <1>1, <1>2 DEF Attached
<1>3. CASE n # 0
  BY <1>1, <1>3 DEF Attached
<1> QED
  BY <1>2, <1>3

\* Letting go of the port keeps it: the last one to let go closes the port.
LEMMA DetachedAgrees ==
    ASSUME NEW n \in Nat, NEW v, Agree(v, n), v.l.fd >= 0
    PROVE  /\ Agree(Detached(v), n)
           /\ Detached(v).l = [v.l EXCEPT !.fd = -1]
           /\ Detached(v).c.wcmInitedTools = v.c.wcmInitedTools
           /\ Detached(v).c.wcmEnabledTools = v.c.wcmEnabledTools
<1> DEFINE l == [v.l EXCEPT !.fd = -1]
           c == [v.c EXCEPT !.fd_refs = @ - 1]
           s == [c EXCEPT !.fd_sysfs = -1]
           p == [open |-> v.p.open - 1, data |-> FALSE]
           w == [l |-> l, c |-> c, p |-> v.p]
<1>1. /\ v.c.fd_refs = n + 1 /\ v.p \in PortState /\ v.p.open = 1
      /\ l \in LocalState /\ l.fd = -1
      /\ c \in CommonState /\ c.fd_refs = n
      /\ c.wcmInitedTools = v.c.wcmInitedTools
      /\ c.wcmEnabledTools = v.c.wcmEnabledTools
  BY DEF Agree, LocalState, CommonState, PortState
<1>2. /\ s \in CommonState /\ s.fd_refs = c.fd_refs
      /\ s.wcmInitedTools = c.wcmInitedTools
      /\ s.wcmEnabledTools = c.wcmEnabledTools
      /\ p \in PortState /\ p.open = 0
  <2> HIDE DEF c
  <2>1. p \in PortState /\ p.open = 0
    BY <1>1 DEF PortState
  <2> HIDE DEF p
  <2> QED
    BY <1>1, <2>1 DEF CommonState
<1>3. Detached(v) = IF c.fd_refs # 0 THEN w ELSE [l |-> l, c |-> s, p |-> p]
  <2>1. Detached(v) = PortClosed(w)
    BY DEF Detached
  <2> HIDE DEF l, c
  <2> QED
    BY <2>1 DEF PortClosed
<1>4. Detached(v).l = [v.l EXCEPT !.fd = -1]
  BY <1>3
<1> HIDE DEF l, c, s, p
<1>5. CASE n = 0
  <2>1. Detached(v) = [l |-> l, c |-> s, p |-> p]
    BY <1>1, <1>3, <1>5
  <2> QED
    BY <1>1, <1>2, <1>4, <1>5, <2>1 DEF Agree
<1>6. CASE n # 0
  <2>1. Detached(v) = w
    BY <1>1, <1>3, <1>6
  <2> QED
    BY <1>1, <1>4, <1>6, <2>1 DEF Agree
<1> QED
  BY <1>5, <1>6

\* Registering touches nothing but the key class.
LEMMA KeyClassAgrees ==
    ASSUME NEW n \in Nat, NEW v, Agree(v, n)
    PROVE  /\ Agree(KeyClass(v), n)
           /\ KeyClass(v).c = v.c
           /\ KeyClass(v).l = [v.l EXCEPT !.keyClasses =
                IF v.l.wcmInitKeyClassCount = 0 THEN @ + 1 ELSE @]
BY DEF Agree, KeyClass, LocalState, CommonState, PortState

\* A failed open leaves the port as it was.
LEMMA OpenFailureAgrees ==
    ASSUME NEW n \in Nat, NEW v, Agree(v, n), NEW w \in OpenFailures(v)
    PROVE  /\ Agree(w, n)
           /\ w.l = v.l
           /\ w.c.wcmInitedTools = v.c.wcmInitedTools
           /\ w.c.wcmEnabledTools = v.c.wcmEnabledTools
<1> DEFINE c == [v.c EXCEPT !.fd_sysfs = -1]
<1>1. /\ v.l \in LocalState /\ v.c \in CommonState /\ v.p \in PortState
  BY DEF Agree
<1>2. /\ c \in CommonState /\ c.fd_refs = v.c.fd_refs
      /\ c.wcmInitedTools = v.c.wcmInitedTools
      /\ c.wcmEnabledTools = v.c.wcmEnabledTools
  BY <1>1 DEF CommonState
<1>3. w = v \/ w = [l |-> v.l, c |-> c, p |-> v.p]
  BY DEF OpenFailures
<1> HIDE DEF c
<1>4. CASE w = v
  BY <1>4
<1>5. CASE w = [l |-> v.l, c |-> c, p |-> v.p]
  BY <1>1, <1>2, <1>5 DEF Agree
<1> QED
  BY <1>3, <1>4, <1>5

\* What opening leaves alone, but for the key class
Kept(v, w) ==
    /\ w.c.wcmInitedTools = v.c.wcmInitedTools
    /\ w.c.wcmEnabledTools = v.c.wcmEnabledTools
    /\ w.l.wcmDevOpenCount = v.l.wcmDevOpenCount
    /\ w.l.wcmInitKeyClassCount = v.l.wcmInitKeyClassCount
    /\ w.l.keyClasses <= IF v.l.wcmInitKeyClassCount = 0
                            THEN v.l.keyClasses + 1 ELSE v.l.keyClasses

\* xf86WcmDevOpen, whether the device was open or not and whether it fails or
\* not: it leaves a device that holds the port, or as it was.
LEMMA DevOpenAgrees ==
    ASSUME NEW n \in Nat, NEW v, Agree(v, n),
           v.l.wcmDevOpenCount # 0 <=> v.l.fd >= 0
    PROVE  /\ \A w \in DevOpens(v) : Agree(w, n) /\ Kept(v, w) /\ w.l.fd = 0
           /\ \A w \in DevOpenFails(v) :
                Agree(w, n) /\ Kept(v, w) /\ v.l.fd = -1 /\ w.l.fd = -1
<1>1. v.l \in LocalState
  BY DEF Agree
<1>2. CASE v.l.wcmDevOpenCount # 0
  BY <1>1, <1>2 DEF DevOpens, DevOpenFails, Kept, LocalState
<1>3. CASE v.l.wcmDevOpenCount = 0
  <2> DEFINE a == Attached(v)
             k == KeyClass(a)
  <2>1. v.l.fd = -1
    BY <1>1, <1>3 DEF LocalState
  <2>2. /\ Agree(a, n) /\ a.l \in LocalState
        /\ a.l = [v.l EXCEPT !.fd = 0] /\ a.l.fd = 0
        /\ Kept(v, a)
    <3>1. /\ Agree(a, n) /\ a.l = [v.l EXCEPT !.fd = 0]
          /\ a.c.wcmInitedTools = v.c.wcmInitedTools
          /\ a.c.wcmEnabledTools = v.c.wcmEnabledTools
      BY <2>1, AttachedAgrees
    <3> HIDE DEF a
    <3> QED
      BY <1>1, <3>1 DEF Kept, LocalState, Agree
  <2> HIDE DEF a
  <2>3. /\ Agree(k, n) /\ k.l \in LocalState /\ k.l.fd = 0
        /\ Kept(v, k)
    <3>1. /\ Agree(k, n) /\ k.c = a.c
          /\ k.l = [a.l EXCEPT !.keyClasses =
               IF a.l.wcmInitKeyClassCount = 0 THEN @ + 1 ELSE @]
      BY <2>2, KeyClassAgrees
    <3> HIDE DEF k
    <3> QED
      BY <1>1, <2>2, <3>1 DEF Kept, LocalState, Agree
  <2> HIDE DEF k
  <2>4. ASSUME NEW u \in {a, k}
        PROVE  Agree(Detached(u), n) /\ Detached(u).l.fd = -1 /\ Kept(v, Detached(u))
    <3> DEFINE w == Detached(u)
    <3>1. Agree(u, n) /\ u.l \in LocalState /\ u.l.fd = 0 /\ Kept(v, u)
      BY <2>2, <2>3
    <3>2. /\ Agree(w, n) /\ w.l = [u.l EXCEPT !.fd = -1]
          /\ w.c.wcmInitedTools = u.c.wcmInitedTools
          /\ w.c.wcmEnabledTools = u.c.wcmEnabledTools
      BY <3>1, DetachedAgrees
    <3> HIDE DEF w
    <3>3. Agree(w, n) /\ w.l.fd = -1 /\ Kept(v, w)
      BY <3>1, <3>2 DEF Kept, LocalState
    <3> QED
      BY <3>3 DEF w
  <2>5. ASSUME NEW w \in OpenFailures(v)
        PROVE  Agree(w, n) /\ w.l.fd = -1 /\ Kept(v, w)
    BY <1>1, <2>1, OpenFailureAgrees DEF Kept, LocalState
  <2>6. /\ DevOpens(v) = {k}
        /\ DevOpenFails(v) = OpenFailures(v) \cup {Detached(a), Detached(k)}
    BY <1>3 DEF DevOpens, DevOpenFails, a, k
  <2> QED
    BY <2>1, <2>3, <2>4, <2>5, <2>6
<1> QED
  BY <1>2, <1>3

\* DEVICE_OFF and DEVICE_CLOSE, of a device that holds the port or does not.
LEMMA StopAgrees ==
    ASSUME NEW n \in Nat, NEW v, Agree(v, n)
    PROVE  LET w == Stop(v)
           IN  /\ Agree(w, n)
               /\ w.l.fd = -1 /\ w.l.wcmDevOpenCount = 0
               /\ w.l.wcmInitKeyClassCount = v.l.wcmInitKeyClassCount
               /\ w.l.keyClasses = v.l.keyClasses
               /\ w.c.wcmInitedTools = v.c.wcmInitedTools
               /\ w.c.wcmEnabledTools = v.c.wcmEnabledTools - 1
<1> DEFINE u == DevClose(v)
           l == [u.l EXCEPT !.wcmDevOpenCount = 0]
           c == [u.c EXCEPT !.wcmEnabledTools = @ - 1]
           w == Stop(v)
<1>1. v.l \in LocalState /\ v.c \in CommonState
  BY DEF Agree
<1>2. /\ Agree(u, n) /\ u.l.fd = -1
      /\ u.l.wcmInitKeyClassCount = v.l.wcmInitKeyClassCount
      /\ u.l.keyClasses = v.l.keyClasses
      /\ u.c.wcmInitedTools = v.c.wcmInitedTools
      /\ u.c.wcmEnabledTools = v.c.wcmEnabledTools
  <2>1. CASE v.l.fd >= 0
    <3>1. /\ Agree(Detached(v), n)
          /\ Detached(v).l = [v.l EXCEPT !.fd = -1]
          /\ Detached(v).c.wcmInitedTools = v.c.wcmInitedTools
          /\ Detached(v).c.wcmEnabledTools = v.c.wcmEnabledTools
      BY <2>1, DetachedAgrees
    <3>2. u = Detached(v)
      BY <2>1 DEF DevClose
    <3> HIDE DEF u
    <3> QED
      BY <1>1, <3>1, <3>2 DEF LocalState
  <2>2. CASE ~(v.l.fd >= 0)
    BY <1>1, <2>2 DEF DevClose, LocalState
  <2> QED
    BY <2>1, <2>2
<1>3. w = [l |-> l, c |-> c, p |-> u.p]
  BY DEF Stop
<1> HIDE DEF u
<1>4. /\ l \in LocalState /\ l.fd = -1 /\ l.wcmDevOpenCount = 0
      /\ l.wcmInitKeyClassCount = v.l.wcmInitKeyClassCount
      /\ l.keyClasses = v.l.keyClasses
      /\ c \in CommonState /\ c.fd_refs = u.c.fd_refs
      /\ c.wcmInitedTools = v.c.wcmInitedTools
      /\ c.wcmEnabledTools = v.c.wcmEnabledTools - 1
  BY <1>1, <1>2 DEF Agree, LocalState, CommonState
<1> HIDE DEF l, c, w
<1>5. /\ Agree(w, n) /\ w.l = l /\ w.c = c
  BY <1>2, <1>3, <1>4 DEF Agree
<1> QED
  BY <1>4, <1>5 DEF w

-----------------------------------------------------------------------------
(* From one device to all of them.                                         *)

\* The other devices that hold the port
OthersHold(d) == Cardinality(Holders \ {d})

\* The devices that hold the port are counted with and without one of them.
LEMMA HoldersFinite ==
    ASSUME NEW d \in Devices
    PROVE  /\ IsFiniteSet(Holders) /\ IsFiniteSet(Holders \ {d})
           /\ OthersHold(d) \in Nat
           /\ Cardinality(Holders) =
                OthersHold(d) + (IF local[d].fd >= 0 THEN 1 ELSE 0)
<1>1. IsFiniteSet(Holders)
  BY LifecycleAssumption, FS_Subset DEF LifecycleAssumption, Holders
<1>2. IsFiniteSet(Holders \ {d}) /\ OthersHold(d) \in Nat
  BY <1>1, FS_Subset, FS_CardinalityType DEF OthersHold
<1>3. CASE local[d].fd >= 0
  <2>1. d \in Holders
    BY <1>3 DEF Holders
  <2>2. Cardinality(Holders \ {d}) = Cardinality(Holders) - 1
    BY <1>1, <2>1, FS_RemoveElement
  <2> QED
    BY <1>1, <1>2, <1>3, <2>2, FS_CardinalityType DEF OthersHold
<1>4. CASE ~(local[d].fd >= 0)
  <2>1. Holders \ {d} = Holders
    BY <1>4 DEF Holders
  <2> QED
    BY <1>1, <1>2, <1>4, <2>1 DEF OthersHold
<1> QED
  BY <1>1, <1>2, <1>3, <1>4

\* If the descriptor is shared rightly, each device agrees with the others.
LEMMA ViewAgrees ==
    ASSUME LifecycleTypeOK, DescriptorShared, NEW d \in Devices
    PROVE  Agree(View(d), OthersHold(d))
<1>1. /\ local[d] \in LocalState /\ common \in CommonState /\ port \in PortState
  BY DEF LifecycleTypeOK
<1>2. local[d].fd \in {-1, 0}
  BY <1>1 DEF LocalState
<1>3. /\ OthersHold(d) \in Nat
      /\ common.fd_refs = OthersHold(d) + (1 + local[d].fd)
  <2>1. /\ OthersHold(d) \in Nat
        /\ Cardinality(Holders) =
             OthersHold(d) + (IF local[d].fd >= 0 THEN 1 ELSE 0)
    BY HoldersFinite
  <2>2. common.fd_refs = Cardinality(Holders)
    BY DEF DescriptorShared
  <2> QED
    BY <1>2, <2>1, <2>2
<1>4. Holders = {} <=> common.fd_refs = 0
  BY HoldersFinite, FS_EmptySet DEF DescriptorShared
<1>5. port.open = IF common.fd_refs = 0 THEN 0 ELSE 1
  BY <1>4 DEF DescriptorShared
<1> QED
  BY <1>1, <1>3, <1>5 DEF Agree, View

\* If one device changes and still agrees, the descriptor is shared rightly.
LEMMA BecomesAgrees ==
    ASSUME LifecycleTypeOK, NEW d \in Devices, NEW w,
           Agree(w, OthersHold(d)), Becomes(d, w)
    PROVE  /\ local' \in [Devices -> LocalState]
           /\ common' \in CommonState /\ port' \in PortState
           /\ DescriptorShared'
           /\ local'[d] = w.l /\ common' = w.c
           /\ \A e \in Devices \ {d} : local'[e] = local[e]
<1>1. /\ w.l \in LocalState /\ common' \in CommonState /\ port' \in PortState
      /\ common' = w.c /\ port' = w.p
  BY DEF Agree, Becomes
<1>2. /\ local' \in [Devices -> LocalState]
      /\ local'[d] = w.l
      /\ \A e \in Devices \ {d} : local'[e] = local[e]
  BY <1>1 DEF Becomes, LifecycleTypeOK
<1>3. Holders' \ {d} = Holders \ {d}
  BY <1>2 DEF Holders
<1>4. w.l.fd \in {-1, 0}
  BY <1>1 DEF LocalState
<1>5. /\ IsFiniteSet(Holders') /\ OthersHold(d) \in Nat
      /\ Cardinality(Holders') = OthersHold(d) + (1 + w.l.fd)
  <2>1. CASE w.l.fd = 0
    <3>1. Holders' = (Holders \ {d}) \cup {d} /\ d \notin Holders \ {d}
      BY <1>2, <1>3, <2>1 DEF Holders
    <3> QED
      BY <2>1, <3>1, HoldersFinite, FS_AddElement DEF OthersHold
  <2>2. CASE w.l.fd = -1
    <3>1. Holders' = Holders \ {d}
      BY <1>2, <1>3, <2>2 DEF Holders
    <3> QED
      BY <2>2, <3>1, HoldersFinite DEF OthersHold
  <2> QED
    BY <1>4, <2>1, <2>2
<1>6. Holders' = {} <=> Cardinality(Holders') = 0
  BY <1>5, FS_EmptySet
<1>7. DescriptorShared'
  BY <1>1, <1>5, <1>6 DEF Agree, DescriptorShared
<1> QED
  BY <1>1, <1>2, <1>7

\* The counted sets have cardinalities.
LEMMA StagesFinite ==
    /\ IsFiniteSet(Begun) /\ Cardinality(Begun) \in Nat
    /\ IsFiniteSet(Enabled) /\ Cardinality(Enabled) \in Nat
BY LifecycleAssumption, FS_Subset, FS_CardinalityType
   DEF LifecycleAssumption, Begun, Enabled

\* What remains to be shown of an action of one device
Stage(s, d) == server' = [server EXCEPT ![d] = s] /\ UNCHANGED generation

\* An action of one device need only be looked at for that device and the
\* counters.
LEMMA DeviceStep ==
    ASSUME IInv, NEW d \in Devices, NEW w, NEW s \in Stages,
           Agree(w, OthersHold(d)), Becomes(d, w), Stage(s, d),
           LocalInv(d)', CounterInv'
    PROVE  IInv'
<1>1. LifecycleTypeOK /\ DescriptorShared /\ \A e \in Devices : LocalInv(e)
  BY DEF IInv
<1>2. /\ local' \in [Devices -> LocalState]
      /\ common' \in CommonState /\ port' \in PortState
      /\ DescriptorShared'
      /\ \A e \in Devices \ {d} : local'[e] = local[e]
  BY <1>1, BecomesAgrees
<1>3. LifecycleTypeOK'
  BY <1>1, <1>2 DEF LifecycleTypeOK, Stage
<1>4. ASSUME NEW e \in Devices PROVE LocalInv(e)'
  <2>1. CASE e # d
    <3>1. server'[e] = server[e] /\ local'[e] = local[e] /\ LocalInv(e)
      BY <1>1, <1>2, <2>1 DEF LifecycleTypeOK, Stage
    <3> QED
      BY <3>1 DEF LocalInv
  <2> QED
    BY <2>1
<1> QED
  BY <1>2, <1>3, <1>4 DEF IInv

\* The invariant, as the actions of one device use it.
LEMMA ViewFacts ==
    ASSUME IInv, NEW d \in Devices
    PROVE  /\ OthersHold(d) \in Nat /\ Agree(View(d), OthersHold(d))
           /\ View(d).l = local[d] /\ local[d] \in LocalState
           /\ View(d).c = common /\ common \in CommonState
           /\ server \in [Devices -> Stages] /\ generation \in Nat \ {0}
           /\ LocalInv(d)
BY ViewAgrees, HoldersFinite DEF IInv, View, LifecycleTypeOK

\* How the devices the counters count change with one device's stage
LEMMA StageCounts ==
    ASSUME IInv, NEW d \in Devices, NEW s \in Stages \ {"new"}, Stage(s, d)
    PROVE  /\ Cardinality(Begun') =
                Cardinality(Begun) + (IF Absent(d) THEN 1 ELSE 0)
           /\ Cardinality(Enabled') = Cardinality(Enabled)
                + (IF s = "on" /\ server[d] # "on" THEN 1 ELSE 0)
                - (IF s # "on" /\ server[d] = "on" THEN 1 ELSE 0)
<1>1. /\ server \in [Devices -> Stages]
      /\ server'[d] = s /\ generation' = generation
      /\ \A e \in Devices \ {d} : server'[e] = server[e]
  BY DEF IInv, LifecycleTypeOK, Stage
<1>2. /\ IsFiniteSet(Begun) /\ Cardinality(Begun) \in Nat
      /\ IsFiniteSet(Enabled) /\ Cardinality(Enabled) \in Nat
  BY StagesFinite
<1>3. Cardinality(Begun') = Cardinality(Begun) + (IF Absent(d) THEN 1 ELSE 0)
  <2>1. Begun' = Begun \cup {d} /\ (d \in Begun <=> ~Absent(d))
    BY <1>1 DEF Begun, Absent
  <2>2. Cardinality(Begun \cup {d}) =
          IF d \in Begun THEN Cardinality(Begun) ELSE Cardinality(Begun) + 1
    BY <1>2, FS_AddElement
  <2> QED
    BY <1>2, <2>1, <2>2
<1>4. CASE s = "on"
  <2>1. Enabled' = Enabled \cup {d} /\ (d \in Enabled <=> server[d] = "on")
    BY <1>1, <1>4 DEF Enabled
  <2>2. Cardinality(Enabled \cup {d}) =
          IF d \in Enabled THEN Cardinality(Enabled) ELSE Cardinality(Enabled) + 1
    BY <1>2, FS_AddElement
  <2> QED
    BY <1>2, <1>3, <1>4, <2>1, <2>2
<1>5. CASE s # "on"
  <2>1. Enabled' = Enabled \ {d} /\ (d \in Enabled <=> server[d] = "on")
    BY <1>1, <1>5 DEF Enabled
  <2>2. Cardinality(Enabled \ {d}) =
          IF d \in Enabled THEN Cardinality(Enabled) - 1 ELSE Cardinality(Enabled)
    BY <1>2, FS_RemoveElement
  <2> QED
    BY <1>2, <1>3, <1>5, <2>1, <2>2
<1> QED
  BY <1>4, <1>5

\* DEVICE_INIT, successful or failed, keeps the invariant.
LEMMA InitStep ==
    ASSUME IInv, NEW d \in Devices, DeviceInit(d)
    PROVE  IInv'
<1> DEFINE n == OthersHold(d)
           v == StartInit(View(d))
<1>1. /\ n \in Nat /\ Agree(View(d), n)
      /\ View(d).l = local[d] /\ local[d] \in LocalState
      /\ View(d).c = common /\ common \in CommonState
      /\ server \in [Devices -> Stages] /\ LocalInv(d)
  BY ViewFacts
<1>2. server[d] = "new" /\ local[d].fd = -1
  BY <1>1 DEF DeviceInit, LocalInv, LocalState
<1>3. /\ Agree(v, n) /\ v.l.fd = -1 /\ v.l.wcmDevOpenCount = 0
      /\ v.l.wcmInitKeyClassCount = 0 /\ v.l.keyClasses = 0
      /\ v.c.wcmInitedTools = common.wcmInitedTools + 1
      /\ v.c.wcmEnabledTools = common.wcmEnabledTools
  <2> DEFINE l == [fd |-> View(d).l.fd, wcmDevOpenCount |-> 0,
                   wcmInitKeyClassCount |-> 0, keyClasses |-> 0]
             c == [View(d).c EXCEPT !.wcmInitedTools = @ + 1]
  <2>1. v = [l |-> l, c |-> c, p |-> View(d).p]
    BY DEF StartInit
  <2>2. /\ l \in LocalState /\ l.fd = -1 /\ l.wcmDevOpenCount = 0
        /\ l.wcmInitKeyClassCount = 0 /\ l.keyClasses = 0
    BY <1>1, <1>2 DEF LocalState
  <2>3. /\ c \in CommonState /\ c.fd_refs = View(d).c.fd_refs
        /\ c.wcmInitedTools = common.wcmInitedTools + 1
        /\ c.wcmEnabledTools = common.wcmEnabledTools
    BY <1>1 DEF CommonState
  <2> HIDE DEF l, c, v
  <2> QED
    BY <1>1, <1>2, <2>1, <2>2, <2>3 DEF Agree
<1> HIDE DEF n, v
<1>4. /\ \A w \in DevOpens(v) : Agree(w, n) /\ Kept(v, w) /\ w.l.fd = 0
      /\ \A w \in DevOpenFails(v) : Agree(w, n) /\ Kept(v, w) /\ w.l.fd = -1
  BY <1>1, <1>3, DevOpenAgrees
<1>5. ASSUME NEW w, NEW s \in Stages \ {"new", "on"}, Stage(s, d),
             w.c.wcmInitedTools = common.wcmInitedTools + 1,
             w.c.wcmEnabledTools = common.wcmEnabledTools,
             Becomes(d, w)
      PROVE  CounterInv'
  <2>1. common' = w.c
    BY <1>5 DEF Becomes
  <2>2. /\ Cardinality(Begun) \in Nat /\ Cardinality(Enabled) \in Nat
        /\ Cardinality(Begun') \in {Cardinality(Begun), Cardinality(Begun) + 1}
        /\ Cardinality(Enabled') = Cardinality(Enabled)
    BY <1>2, <1>5, StagesFinite, StageCounts
  <2>3. /\ common.wcmInitedTools \in Nat
        /\ common.wcmInitedTools >= Cardinality(Begun)
        /\ common.wcmEnabledTools <= Cardinality(Enabled)
    BY <1>1 DEF IInv, CounterInv, CommonState
  <2>4. common'.wcmInitedTools >= Cardinality(Begun')
    BY <1>5, <2>1, <2>2, <2>3
  <2>5. common'.wcmEnabledTools <= Cardinality(Enabled')
    BY <1>5, <2>1, <2>2, <2>3
  <2> QED
    BY <2>4, <2>5 DEF CounterInv
<1>6. ASSUME NEW u \in DevOpens(v), Becomes(d, Initialised(u)), Stage("inited", d)
      PROVE  IInv'
  <2> DEFINE w == Initialised(u)
             l == [u.l EXCEPT !.wcmInitKeyClassCount = @ + 1,
                              !.wcmDevOpenCount = @ + 1]
  <2>1. Agree(u, n) /\ Kept(v, u) /\ u.l.fd = 0 /\ u.l \in LocalState
    BY <1>4 DEF Agree
  <2>2. w = [l |-> l, c |-> u.c, p |-> u.p]
    BY DEF Initialised
  <2>3. /\ l \in LocalState /\ l.fd = 0 /\ l.wcmDevOpenCount # 0
        /\ l.wcmInitKeyClassCount # 0 /\ l.keyClasses = u.l.keyClasses
    <3> DEFINE k == [u.l EXCEPT !.wcmInitKeyClassCount = @ + 1]
    <3>2. /\ k \in LocalState /\ k.fd = u.l.fd /\ k.keyClasses = u.l.keyClasses
          /\ k.wcmInitKeyClassCount = u.l.wcmInitKeyClassCount + 1
          /\ k.wcmDevOpenCount = u.l.wcmDevOpenCount
      BY <2>1 DEF LocalState
    <3>3. l = [k EXCEPT !.wcmDevOpenCount = u.l.wcmDevOpenCount + 1]
      OBVIOUS
    <3> HIDE DEF k, l
    <3>1. /\ l.fd = u.l.fd /\ l.keyClasses = u.l.keyClasses
          /\ l.wcmInitKeyClassCount = u.l.wcmInitKeyClassCount + 1
          /\ l.wcmDevOpenCount = u.l.wcmDevOpenCount + 1
          /\ l \in LocalState
      BY <2>1, <3>2, <3>3 DEF LocalState
    <3> QED
      BY <2>1, <3>1 DEF LocalState
  <2>8. u.l.keyClasses <= 1
    BY <1>3, <2>1 DEF Kept
  <2> HIDE DEF w, l
  <2>4. Agree(w, n) /\ w.l = l /\ w.c = u.c
    BY <2>1, <2>2, <2>3 DEF Agree
  <2>5. CounterInv'
    BY <1>3, <1>5, <1>6, <2>1, <2>4 DEF Kept, Stages, w
  <2>6. local'[d] = l /\ server'[d] = "inited"
    BY <1>1, <1>6, <2>4, BecomesAgrees DEF IInv, Stage, n, w
  <2>7. LocalInv(d)'
    BY <2>3, <2>6, <2>8 DEF LocalInv
  <2> QED
    BY <1>6, <2>4, <2>5, <2>7, DeviceStep DEF n, w, Stages
<1>7. ASSUME NEW w \in DevOpenFails(v), Becomes(d, w), Stage("failed", d)
      PROVE  IInv'
  <2>1. Agree(w, n) /\ Kept(v, w) /\ w.l.fd = -1 /\ w.l \in LocalState
    BY <1>4 DEF Agree
  <2>2. CounterInv'
    BY <1>3, <1>5, <1>7, <2>1 DEF Kept, Stages
  <2>3. local'[d] = w.l /\ server'[d] = "failed"
    BY <1>1, <1>7, <2>1, BecomesAgrees DEF IInv, Stage, n
  <2>4. LocalInv(d)'
    BY <1>3, <2>1, <2>3 DEF LocalInv, Kept, LocalState
  <2> QED
    BY <1>7, <2>1, <2>2, <2>4, DeviceStep DEF n, Stages
<1> QED
  BY <1>6, <1>7 DEF DeviceInit, Stage, v

\* DEVICE_ON, successful or failed, keeps it.
LEMMA OnStep ==
    ASSUME IInv, NEW d \in Devices, DeviceOn(d)
    PROVE  IInv'
<1> DEFINE n == OthersHold(d)
           v == View(d)
<1>1. /\ n \in Nat /\ Agree(v, n)
      /\ v.l = local[d] /\ local[d] \in LocalState
      /\ v.c = common /\ common \in CommonState
      /\ server \in [Devices -> Stages] /\ LocalInv(d)
  BY ViewFacts
<1>2. server[d] \in {"inited", "off"}
  BY DEF DeviceOn
<1>3. /\ v.l.wcmDevOpenCount # 0 <=> v.l.fd >= 0
      /\ v.l.wcmInitKeyClassCount # 0 /\ v.l.keyClasses <= 1
      /\ v.l.fd >= 0 <=> server[d] = "inited"
  BY <1>1, <1>2 DEF LocalInv
<1> HIDE DEF n, v
<1>4. /\ \A w \in DevOpens(v) : Agree(w, n) /\ Kept(v, w) /\ w.l.fd = 0
      /\ \A w \in DevOpenFails(v) :
           Agree(w, n) /\ Kept(v, w) /\ v.l.fd = -1 /\ w.l.fd = -1
  BY <1>1, <1>3, DevOpenAgrees
<1>5. /\ Cardinality(Begun) \in Nat /\ Cardinality(Enabled) \in Nat
      /\ common.wcmInitedTools \in Nat /\ common.wcmEnabledTools \in Int
      /\ common.wcmInitedTools >= Cardinality(Begun)
      /\ common.wcmEnabledTools <= Cardinality(Enabled)
  BY <1>1, StagesFinite DEF IInv, CounterInv, CommonState
<1>6. ASSUME NEW u \in DevOpens(v), Becomes(d, TurnedOn(u)), Stage("on", d)
      PROVE  IInv'
  <2> DEFINE w == TurnedOn(u)
             l == [u.l EXCEPT !.wcmDevOpenCount = @ + 1]
             c == [u.c EXCEPT !.wcmEnabledTools = @ + 1]
  <2>1. /\ Agree(u, n) /\ Kept(v, u) /\ u.l.fd = 0
        /\ u.l \in LocalState /\ u.c \in CommonState
    BY <1>4 DEF Agree
  <2>2. w = [l |-> l, c |-> c, p |-> u.p]
    BY DEF TurnedOn
  <2>3. /\ l \in LocalState /\ l.fd = u.l.fd /\ l.wcmDevOpenCount # 0
        /\ l.wcmInitKeyClassCount = u.l.wcmInitKeyClassCount
        /\ l.keyClasses = u.l.keyClasses
    BY <2>1 DEF LocalState
  <2>4. /\ c \in CommonState /\ c.fd_refs = u.c.fd_refs
        /\ c.wcmInitedTools = u.c.wcmInitedTools
        /\ c.wcmEnabledTools = u.c.wcmEnabledTools + 1
    BY <2>1 DEF CommonState
  <2> HIDE DEF w, l, c
  <2>5. Agree(w, n) /\ w.l = l /\ w.c = c
    BY <2>1, <2>2, <2>3, <2>4 DEF Agree
  <2>6. common' = c
    BY <1>6, <2>5 DEF Becomes, w
  <2>7. CounterInv'
    <3>1. /\ Cardinality(Begun') = Cardinality(Begun)
          /\ Cardinality(Enabled') = Cardinality(Enabled) + 1
      BY <1>2, <1>5, <1>6, StageCounts DEF Absent, Stages
    <3>2. /\ c.wcmInitedTools = common.wcmInitedTools
          /\ c.wcmEnabledTools = common.wcmEnabledTools + 1
      BY <1>1, <2>1, <2>4 DEF Kept
    <3> QED
      BY <1>5, <2>6, <3>1, <3>2 DEF CounterInv
  <2>8. local'[d] = l /\ server'[d] = "on"
    BY <1>1, <1>6, <2>5, BecomesAgrees DEF IInv, Stage, n, w
  <2>9. l.fd = 0 /\ l.wcmInitKeyClassCount # 0 /\ l.keyClasses <= 1
    BY <1>1, <1>3, <2>1, <2>3 DEF Kept, LocalState
  <2>10. LocalInv(d)'
    BY <2>3, <2>8, <2>9 DEF LocalInv
  <2> QED
    BY <1>6, <2>5, <2>7, <2>10, DeviceStep DEF n, w, Stages
<1>7. ASSUME NEW w \in DevOpenFails(v), Becomes(d, w),
             UNCHANGED <<server, generation>>
      PROVE  IInv'
  <2>1. /\ Agree(w, n) /\ Kept(v, w) /\ w.l.fd = -1 /\ w.l \in LocalState
        /\ server[d] = "off"
    BY <1>2, <1>3, <1>4 DEF Agree
  <2>2. common' = w.c
    BY <1>7 DEF Becomes
  <2>3. CounterInv'
    <3>1. Begun' = Begun /\ Enabled' = Enabled
      BY <1>7 DEF Begun, Enabled, Absent
    <3>2. /\ w.c.wcmInitedTools = common.wcmInitedTools
          /\ w.c.wcmEnabledTools = common.wcmEnabledTools
      BY <1>1, <2>1 DEF Kept
    <3> QED
      BY <1>5, <2>2, <3>1, <3>2 DEF CounterInv
  <2>4. Stage("off", d)
    BY <1>1, <1>7, <2>1 DEF Stage
  <2>5. local'[d] = w.l /\ server'[d] = "off"
    BY <1>1, <1>7, <2>1, BecomesAgrees DEF IInv, n
  <2>6. w.l.wcmDevOpenCount = 0 /\ w.l.wcmInitKeyClassCount # 0 /\ w.l.keyClasses <= 1
    BY <1>1, <1>3, <1>4, <2>1 DEF Kept, LocalState
  <2>7. LocalInv(d)'
    BY <2>1, <2>5, <2>6 DEF LocalInv
  <2> QED
    BY <1>7, <2>1, <2>3, <2>4, <2>7, DeviceStep DEF n, Stages
<1> QED
  BY <1>6, <1>7 DEF DeviceOn, Stage, v

\* DEVICE_OFF and DEVICE_CLOSE keep it.
LEMMA StopStep ==
    ASSUME IInv, NEW d \in Devices, NEW s \in {"off", "closed"},
           server[d] \in {"inited", "on", "off"}, s = "off" => server[d] = "on",
           Becomes(d, Stop(View(d))), Stage(s, d)
    PROVE  IInv'
<1> DEFINE n == OthersHold(d)
           w == Stop(View(d))
<1>1. /\ n \in Nat /\ Agree(View(d), n)
      /\ View(d).l = local[d] /\ local[d] \in LocalState
      /\ View(d).c = common /\ common \in CommonState
      /\ server \in [Devices -> Stages] /\ LocalInv(d)
  BY ViewFacts
<1>2. /\ Agree(w, n) /\ w.l.fd = -1 /\ w.l.wcmDevOpenCount = 0
      /\ w.l.wcmInitKeyClassCount = local[d].wcmInitKeyClassCount
      /\ w.l.keyClasses = local[d].keyClasses
      /\ w.c.wcmInitedTools = common.wcmInitedTools
      /\ w.c.wcmEnabledTools = common.wcmEnabledTools - 1
  BY <1>1, StopAgrees
<1> HIDE DEF w
<1>3. local'[d] = w.l /\ common' = w.c /\ server'[d] = s
  BY <1>1, <1>2, BecomesAgrees DEF IInv, Stage, w
<1>4. CounterInv'
  <2>1. /\ Cardinality(Begun) \in Nat /\ Cardinality(Enabled) \in Nat
        /\ common.wcmInitedTools \in Nat /\ common.wcmEnabledTools \in Int
        /\ common.wcmInitedTools >= Cardinality(Begun)
        /\ common.wcmEnabledTools <= Cardinality(Enabled)
    BY <1>1, StagesFinite DEF IInv, CounterInv, CommonState
  <2>2. /\ Cardinality(Begun') = Cardinality(Begun)
        /\ Cardinality(Enabled') \in {Cardinality(Enabled), Cardinality(Enabled) - 1}
    BY <2>1, StageCounts DEF Absent, Stages
  <2>3. common'.wcmInitedTools >= Cardinality(Begun')
    BY <1>2, <1>3, <2>1, <2>2
  <2>4. common'.wcmEnabledTools <= Cardinality(Enabled')
    BY <1>2, <1>3, <2>1, <2>2
  <2> QED
    BY <2>3, <2>4 DEF CounterInv
<1>5. LocalInv(d)'
  BY <1>1, <1>2, <1>3 DEF LocalInv
<1> QED
  BY <1>2, <1>4, <1>5, DeviceStep DEF w, Stages

\* A new server generation finds every device closed and the counters as they
\* were left.
LEMMA RegenerateStep ==
    ASSUME IInv, Regenerate
    PROVE  IInv'
<1>1. LifecycleTypeOK'
  BY DEF IInv, LifecycleTypeOK, Regenerate, Stages
<1>2. DescriptorShared'
  BY DEF IInv, DescriptorShared, Holders, Regenerate
<1>3. ASSUME NEW d \in Devices PROVE LocalInv(d)'
  BY <1>3 DEF IInv, LocalInv, Regenerate
<1>4. CounterInv'
  <2>1. Begun' = Begun
    BY DEF IInv, LifecycleTypeOK, Regenerate, Begun, Absent
  <2>2. Enabled' = Enabled
    BY DEF Regenerate, Enabled
  <2> QED
    BY <2>1, <2>2 DEF IInv, CounterInv, Regenerate
<1> QED
  BY <1>1, <1>2, <1>3, <1>4 DEF IInv

\* Data that arrive or are read change nothing that is counted.
LEMMA PortStep ==
    ASSUME IInv, UNCHANGED <<server, generation, local, common>>,
           NEW b \in BOOLEAN, port' = [port EXCEPT !.data = b]
    PROVE  IInv'
<1>1. port' \in PortState /\ port'.open = port.open
  BY DEF IInv, LifecycleTypeOK, PortState
<1>2. LifecycleTypeOK' /\ DescriptorShared'
  BY <1>1 DEF IInv, LifecycleTypeOK, DescriptorShared, Holders
<1>3. (\A d \in Devices : LocalInv(d))' /\ CounterInv'
  BY DEF IInv, LocalInv, CounterInv, Begun, Enabled, Absent
<1> QED
  BY <1>2, <1>3 DEF IInv

-----------------------------------------------------------------------------
\* The devices are new, and nobody holds the port.
LEMMA InitInv == Init => IInv
<1> SUFFICES ASSUME Init PROVE IInv
  OBVIOUS
<1>1. LifecycleTypeOK
  BY LifecycleAssumption
     DEF Init, LifecycleTypeOK, LifecycleAssumption, Stages, LocalState,
         CommonState, PortState
<1>2. Holders = {} /\ Begun = {} /\ Enabled = {}
  BY DEF Init, Holders, Begun, Enabled, Absent
<1>3. Cardinality({}) = 0
  BY FS_EmptySet
<1>4. DescriptorShared
  BY <1>2, <1>3 DEF Init, DescriptorShared
<1>5. CounterInv
  BY <1>2, <1>3 DEF Init, CounterInv
<1>6. \A d \in Devices : LocalInv(d)
  BY DEF Init, LocalInv
<1> QED
  BY <1>1, <1>4, <1>5, <1>6 DEF IInv

\* Every step keeps the invariant.
LEMMA NextInv == IInv /\ [Next]_vars => IInv'
<1> SUFFICES ASSUME IInv, [Next]_vars PROVE IInv'
  OBVIOUS
<1>1. ASSUME NEW d \in Devices, DeviceInit(d) PROVE IInv'
  BY <1>1, InitStep
<1>2. ASSUME NEW d \in Devices, DeviceOn(d) PROVE IInv'
  BY <1>2, OnStep
<1>3. ASSUME NEW d \in Devices, DeviceOff(d) PROVE IInv'
  BY <1>3, StopStep DEF DeviceOff, Stage
<1>4. ASSUME NEW d \in Devices, DeviceClose(d) PROVE IInv'
  BY <1>4, StopStep DEF DeviceClose, Stage
<1>5. ASSUME NEW d \in Devices, ReadInput(d) PROVE IInv'
  BY <1>5, PortStep DEF ReadInput
<1>6. CASE Regenerate
  BY <1>6, RegenerateStep
<1>7. CASE Arrive
  BY <1>7, PortStep DEF Arrive
<1>8. CASE UNCHANGED vars
  <2>1. /\ server' = server /\ generation' = generation /\ local' = local
        /\ common' = common /\ port' = port
    BY <1>8 DEF vars
  <2>2. LifecycleTypeOK' /\ DescriptorShared'
    BY <2>1 DEF IInv, LifecycleTypeOK, DescriptorShared, Holders
  <2>3. (\A d \in Devices : LocalInv(d))' /\ CounterInv'
    BY <2>1 DEF IInv, LocalInv, CounterInv, Begun, Enabled, Absent
  <2> QED
    BY <2>2, <2>3 DEF IInv
<1> QED
  BY <1>1, <1>2, <1>3, <1>4, <1>5, <1>6, <1>7, <1>8 DEF Next

\* The inductive invariant holds however the server adds, enables, disables
\* and removes the devices, and whatever fails.
THEOREM InductiveInv == Spec => []IInv
BY InitInv, NextInv, PTL DEF Spec

\* The counters and descriptors of xf86WcmDevProc stay within their types.
THEOREM TypeCorrect == Spec => []LifecycleTypeOK
<1>1. IInv => LifecycleTypeOK
  BY DEF IInv
<1> QED
  BY <1>1, InductiveInv, PTL

\* The descriptor the devices share is open exactly while one of them refers
\* to it.
THEOREM DescriptorIsShared == Spec => []DescriptorShared
<1>1. IInv => DescriptorShared
  BY DEF IInv
<1> QED
  BY <1>1, InductiveInv, PTL

\* Every enabled device has the descriptor.
THEOREM EnabledHasDescriptor == Spec => []OnHasDescriptor
<1>1. IInv => OnHasDescriptor
  BY DEF IInv, LocalInv, OnHasDescriptor
<1> QED
  BY <1>1, InductiveInv, PTL

\* No device's key class is initialised twice in a server generation.
THEOREM KeyClassInitialisedOnce == Spec => []KeyClassOnce
<1>1. IInv => KeyClassOnce
  BY DEF IInv, LocalInv, KeyClassOnce
<1> QED
  BY <1>1, InductiveInv, PTL

\* When the two counters agree, every device that was begun is enabled.
LEMMA CountersAgree ==
    ASSUME IInv, common.wcmInitedTools = common.wcmEnabledTools
    PROVE  \A d \in Devices : Absent(d) \/ server[d] = "on"
<1>1. Enabled \subseteq Begun
  BY DEF Enabled, Begun, Absent
<1>2. /\ IsFiniteSet(Begun) /\ Cardinality(Begun) \in Nat
      /\ Cardinality(Enabled) \in Nat
  BY StagesFinite
<1>3. Cardinality(Begun) <= Cardinality(Enabled)
  <2>1. /\ common.wcmInitedTools \in Nat
        /\ common.wcmInitedTools >= Cardinality(Begun)
        /\ common.wcmEnabledTools <= Cardinality(Enabled)
    BY DEF IInv, LifecycleTypeOK, CounterInv, CommonState
  <2> QED
    BY <1>2, <2>1
<1>4. Cardinality(Enabled) <= Cardinality(Begun)
  BY <1>1, <1>2, FS_Subset
<1>5. Enabled = Begun
  BY <1>1, <1>2, <1>3, <1>4, FS_Subset
<1> QED
  BY <1>5 DEF Enabled, Begun

\* The tablet is read only while every device the server has begun to add is
\* enabled.
THEOREM ReadOnlyWhenComplete == Spec => ReadWhenComplete
<1>1. IInv /\ [Next]_vars =>
        [(\E d \in Devices : ReadInput(d)) =>
           \A e \in Devices : Absent(e) \/ server[e] = "on"]_vars
  BY CountersAgree DEF ReadInput
<1> QED
  BY <1>1, InductiveInv, PTL DEF Spec, ReadWhenComplete
=============================================================================
