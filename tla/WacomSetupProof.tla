--------------------------- MODULE WacomSetupProof ---------------------------
(***************************************************************************)
(* Proofs about WacomSetup, for any sections, options, screens and sizes:  *)
(* that no device, tablet, tool or area is used after it was freed, that a *)
(* client that turns the tablet turns every device of it alike, that the   *)
(* copies of a device's rectangle agree, and that the working devices come *)
(* from one source.                                                        *)
(***************************************************************************)
EXTENDS WacomSetup, SequenceTheorems, TLAPS

-----------------------------------------------------------------------------
(* The shape of the records.  Only the fields' names are given: what the   *)
(* fields hold is said where it matters.                                   *)

\* The fields of a device, a tablet, a tool and an area
DeviceFields ==
    {"live", "listed", "stage", "type", "source", "core", "absolute", "common", "tool",
     "toolarea", "shape", "rect", "maxX", "maxY", "twinview", "screen_no", "currentScreen",
     "numScreen", "wcmMMonitor", "tvoffset", "tvResolution", "screens", "desktop", "size",
     "mapped", "axes"}
CommonFields ==
    {"live", "devices", "tools", "min_maj", "rotate", "device", "keys", "touchDefault", "touch"}
ToolFields == {"live", "typeid", "serial", "areas"}
AreaFields == {"live", "rect"}

\* v is a record with these fields.
HasFields(v, fields) == v = [f \in fields |-> v[f]]
IsDevice(v) == HasFields(v, DeviceFields)

\* f has a value for every section.
OnSections(f) == f = [s \in Sections |-> f[s]]

\* The four arrays of records
IsHeap(h) ==
    /\ h = [devs |-> h.devs, commons |-> h.commons, tools |-> h.tools, areas |-> h.areas]
    /\ OnSections(h.devs) /\ OnSections(h.commons) /\ OnSections(h.tools) /\ OnSections(h.areas)

\* What is not live is gone.
Shapes(h) ==
    \A s \in Sections :
      /\ h.devs[s] = Gone \/ (IsDevice(h.devs[s]) /\ h.devs[s].live = TRUE)
      /\ h.commons[s] = Gone \/ (HasFields(h.commons[s], CommonFields) /\ h.commons[s].live = TRUE)
      /\ h.tools[s] = Gone \/ (HasFields(h.tools[s], ToolFields) /\ h.tools[s].live = TRUE)
      /\ h.areas[s] = Gone \/ (HasFields(h.areas[s], AreaFields) /\ h.areas[s].live = TRUE)

-----------------------------------------------------------------------------
(* Lists.                                                                  *)

\* Nothing is in the list twice.
Distinct(q) == \A i, j \in DOMAIN q : q[i] = q[j] => i = j

\* A list of sections, each in it once.
List(q) == q \in Seq(Sections) /\ Distinct(q)

\* A list of one.
LEMMA Single ==
    ASSUME NEW s \in Sections
    PROVE  List(<<s>>) /\ Elements(<<s>>) = {s} /\ <<s>> # <<>>
  BY DEF List, Distinct, Elements

\* What is added behind is added once.
LEMMA AddedBehind ==
    ASSUME NEW q, List(q), NEW s \in Sections, s \notin Elements(q)
    PROVE  /\ List(Append(q, s)) /\ Elements(Append(q, s)) = Elements(q) \cup {s}
           /\ Append(q, s) # <<>>
<1>1. Append(q, s) \in Seq(Sections) /\ Len(Append(q, s)) = Len(q) + 1 /\ Len(q) \in Nat
      /\ DOMAIN q = 1 .. Len(q) /\ DOMAIN Append(q, s) = 1 .. Len(q) + 1
  BY DEF List
<1>2. \A i \in 1 .. Len(q) : Append(q, s)[i] = q[i] /\ q[i] # s
  BY <1>1 DEF List, Elements
<1>3. Append(q, s)[Len(q) + 1] = s
  BY <1>1 DEF List
<1>4. Distinct(Append(q, s))
  <2> SUFFICES ASSUME NEW i \in 1 .. Len(q) + 1, NEW j \in 1 .. Len(q) + 1,
                      Append(q, s)[i] = Append(q, s)[j]
               PROVE  i = j
    BY <1>1 DEF Distinct
  <2>1. CASE i \in 1 .. Len(q) /\ j \in 1 .. Len(q)
    BY <1>1, <1>2, <2>1 DEF List, Distinct
  <2>2. CASE i = Len(q) + 1 \/ j = Len(q) + 1
    BY <1>1, <1>2, <1>3, <2>2
  <2> QED
    BY <1>1, <2>1, <2>2
<1>5. Elements(Append(q, s)) = Elements(q) \cup {s}
  <2>1. \A e \in Elements(Append(q, s)) : e \in Elements(q) \cup {s}
    BY <1>1, <1>2, <1>3 DEF Elements
  <2>2. \A e \in Elements(q) : e \in Elements(Append(q, s))
    BY <1>1, <1>2 DEF Elements
  <2>3. s \in Elements(Append(q, s))
    BY <1>1, <1>3 DEF Elements
  <2> QED
    BY <2>1, <2>2, <2>3
<1> QED
  BY <1>1, <1>4, <1>5 DEF List

\* What is added in front is added once.
LEMMA AddedInFront ==
    ASSUME NEW q, List(q), NEW s \in Sections, s \notin Elements(q)
    PROVE  List(<<s>> \o q) /\ Elements(<<s>> \o q) = Elements(q) \cup {s}
<1> DEFINE r == <<s>> \o q
<1>1. r \in Seq(Sections) /\ Len(r) = Len(q) + 1 /\ Len(q) \in Nat
      /\ DOMAIN q = 1 .. Len(q) /\ DOMAIN r = 1 .. Len(q) + 1
  BY DEF List
<1>2. \A i \in 1 .. Len(q) : r[i + 1] = q[i] /\ q[i] # s
  BY <1>1 DEF List, Elements
<1>3. r[1] = s
  BY <1>1 DEF List
<1> HIDE DEF r
<1>4. \A i \in 2 .. Len(q) + 1 : r[i] = q[i - 1] /\ r[i] # s
  <2> SUFFICES ASSUME NEW i \in 2 .. Len(q) + 1 PROVE r[i] = q[i - 1] /\ r[i] # s
    OBVIOUS
  <2>1. i - 1 \in 1 .. Len(q) /\ (i - 1) + 1 = i
    BY <1>1
  <2> QED
    BY <1>2, <2>1
<1>5. Distinct(r)
  <2> SUFFICES ASSUME NEW i \in 1 .. Len(q) + 1, NEW j \in 1 .. Len(q) + 1, r[i] = r[j]
               PROVE  i = j
    BY <1>1 DEF Distinct
  <2>1. CASE i = 1 \/ j = 1
    BY <1>1, <1>3, <1>4, <2>1
  <2>2. CASE i # 1 /\ j # 1
    <3>1. q[i - 1] = q[j - 1] /\ i - 1 \in 1 .. Len(q) /\ j - 1 \in 1 .. Len(q)
      BY <1>1, <1>4, <2>2
    <3>2. i - 1 = j - 1
      BY <1>1, <3>1 DEF List, Distinct
    <3> QED
      BY <1>1, <3>2
  <2> QED
    BY <2>1, <2>2
<1>6. Elements(r) = Elements(q) \cup {s}
  <2>1. \A e \in Elements(r) : e \in Elements(q) \cup {s}
    BY <1>1, <1>3, <1>4 DEF Elements
  <2>2. \A e \in Elements(q) : e \in Elements(r)
    <3> SUFFICES ASSUME NEW i \in 1 .. Len(q) PROVE q[i] \in Elements(r)
      BY <1>1 DEF Elements
    <3>1. i + 1 \in DOMAIN r /\ r[i + 1] = q[i]
      BY <1>1, <1>2 DEF r
    <3> QED
      BY <3>1 DEF Elements
  <2>3. s \in Elements(r)
    BY <1>1, <1>3 DEF Elements
  <2> QED
    BY <2>1, <2>2, <2>3
<1> QED
  BY <1>1, <1>5, <1>6 DEF List, r

\* What is unlinked is gone, and nothing else.
LEMMA Unlinked ==
    ASSUME NEW q, List(q), NEW s
    PROVE  List(Without(q, s)) /\ Elements(Without(q, s)) = Elements(q) \ {s}
<1>1. CASE s \notin Elements(q)
  BY <1>1 DEF Without
<1>2. CASE s \in Elements(q)
  <2> DEFINE n == CHOOSE i \in DOMAIN q : q[i] = s
             r == SubSeq(q, 1, n - 1) \o SubSeq(q, n + 1, Len(q))
  <2>1. n \in DOMAIN q /\ q[n] = s
    BY <1>2 DEF Elements
  <2>2. Without(q, s) = r
    BY <1>2 DEF Without
  <2> HIDE DEF n
  <2>3. /\ q \in Seq(Sections) /\ Len(q) \in Nat /\ DOMAIN q = 1 .. Len(q) /\ n \in 1 .. Len(q)
        /\ \A i \in 1 .. Len(q) : q[i] \in Sections
    BY <2>1 DEF List
  <2> DEFINE u == SubSeq(q, 1, n - 1)
             v == SubSeq(q, n + 1, Len(q))
  <2>4. u \in Seq(Sections) /\ Len(u) = n - 1 /\ \A i \in 1 .. n - 1 : u[i] = q[i]
    <3>1. 1 \in Int /\ n - 1 \in Int /\ \A i \in 1 .. n - 1 : q[i] \in Sections
      BY <2>3
    <3>2. /\ u \in Seq(Sections) /\ Len(u) = IF 1 <= n - 1 THEN n - 1 - 1 + 1 ELSE 0
          /\ \A i \in 1 .. n - 1 - 1 + 1 : u[i] = q[1 + i - 1]
      BY <3>1, SubSeqProperties
    <3> QED
      BY <3>2, <2>3
  <2>5. /\ v \in Seq(Sections) /\ Len(v) = Len(q) - n
        /\ \A i \in 1 .. Len(q) - n : v[i] = q[n + i]
    <3>1. n + 1 \in Int /\ Len(q) \in Int /\ \A i \in n + 1 .. Len(q) : q[i] \in Sections
      BY <2>3
    <3>2. /\ v \in Seq(Sections)
          /\ Len(v) = IF n + 1 <= Len(q) THEN Len(q) - (n + 1) + 1 ELSE 0
          /\ \A i \in 1 .. Len(q) - (n + 1) + 1 : v[i] = q[(n + 1) + i - 1]
      BY <3>1, SubSeqProperties
    <3>3. \A i \in 1 .. Len(q) - n : i \in 1 .. Len(q) - (n + 1) + 1 /\ (n + 1) + i - 1 = n + i
      BY <2>3
    <3> HIDE DEF v
    <3>4. Len(v) = Len(q) - n
      <4>1. CASE n + 1 <= Len(q)
        BY <4>1, <3>2, <2>3
      <4>2. CASE ~(n + 1 <= Len(q))
        <5>1. Len(v) = 0
          BY <4>2, <3>2
        <5>2. Len(q) \in Nat /\ n \in 1 .. Len(q)
          BY <2>3
        <5>3. n = Len(q)
          BY <4>2, <5>2
        <5> QED
          BY <5>1, <5>2, <5>3
      <4> QED
        BY <4>1, <4>2
    <3>5. \A i \in 1 .. Len(q) - n : v[i] = q[n + i]
      BY <3>2, <3>3
    <3> QED
      BY <3>2, <3>4, <3>5
  <2> HIDE DEF u, v
  <2>6. /\ r \in Seq(Sections) /\ Len(r) = Len(q) - 1 /\ DOMAIN r = 1 .. Len(q) - 1
        /\ \A i \in 1 .. Len(q) - 1 : r[i] = IF i <= n - 1 THEN u[i] ELSE v[i - (n - 1)]
    <3>1. r = u \o v
      BY DEF u, v
    <3>2. /\ r \in Seq(Sections) /\ Len(r) = Len(u) + Len(v)
          /\ \A i \in 1 .. Len(u) + Len(v) : r[i] = IF i <= Len(u) THEN u[i] ELSE v[i - Len(u)]
      <4>1. r = u \o v
        BY <3>1
      <4> HIDE DEF r
      <4>2. /\ u \o v \in Seq(Sections) /\ Len(u \o v) = Len(u) + Len(v)
            /\ \A i \in 1 .. Len(u) + Len(v) :
                 (u \o v)[i] = IF i <= Len(u) THEN u[i] ELSE v[i - Len(u)]
        BY <2>4, <2>5, ConcatProperties
      <4> QED
        BY <4>1, <4>2
    <3> HIDE DEF r
    <3>3. Len(u) + Len(v) = Len(q) - 1
      BY <2>3, <2>4, <2>5
    <3> QED
      BY <3>2, <3>3, <2>4
  <2> HIDE DEF r
  <2>7. \A i \in 1 .. Len(q) - 1 : r[i] = IF i < n THEN q[i] ELSE q[i + 1]
    <3> SUFFICES ASSUME NEW i \in 1 .. Len(q) - 1
                 PROVE  r[i] = IF i < n THEN q[i] ELSE q[i + 1]
      OBVIOUS
    <3>1. CASE i < n
      BY <3>1, <2>3, <2>4, <2>6
    <3>2. CASE ~(i < n)
      <4>1. ~(i <= n - 1) /\ i - (n - 1) \in 1 .. Len(q) - n /\ n + (i - (n - 1)) = i + 1
        BY <3>2, <2>3
      <4> QED
        BY <3>2, <4>1, <2>5, <2>6
    <3> QED
      BY <3>1, <3>2
  <2> HIDE DEF r
  <2>8. Distinct(r)
    <3> SUFFICES ASSUME NEW i \in 1 .. Len(q) - 1, NEW j \in 1 .. Len(q) - 1, r[i] = r[j]
                 PROVE  i = j
      BY <2>6 DEF Distinct
    <3> DEFINE Old(k) == IF k < n THEN k ELSE k + 1
    <3>1. /\ Old(i) \in 1 .. Len(q) /\ Old(j) \in 1 .. Len(q)
          /\ r[i] = q[Old(i)] /\ r[j] = q[Old(j)]
      BY <2>3, <2>7
    <3>2. Old(i) = Old(j)
      <4> HIDE DEF Old
      <4> QED
        BY <3>1, <2>3 DEF Distinct, List
    <3> QED
      BY <3>2, <2>3
  <2>9. Elements(r) = Elements(q) \ {s}
    <3>1. \A e \in Elements(r) : e \in Elements(q) /\ e # s
      <4> SUFFICES ASSUME NEW i \in 1 .. Len(q) - 1 PROVE r[i] \in Elements(q) /\ r[i] # s
        BY <2>6 DEF Elements
      <4> QED
        BY <2>1, <2>3, <2>7 DEF Elements, Distinct, List
    <3>2. \A e \in Elements(q) : e # s => e \in Elements(r)
      <4> SUFFICES ASSUME NEW i \in 1 .. Len(q), q[i] # s PROVE q[i] \in Elements(r)
        BY <2>3 DEF Elements
      <4>1. CASE i < n
        <5>1. i \in 1 .. Len(q) - 1
          BY <4>1, <2>3
        <5> QED
          BY <4>1, <5>1, <2>6, <2>7 DEF Elements
      <4>2. CASE i > n
        <5>1. i - 1 \in 1 .. Len(q) - 1 /\ ~(i - 1 < n) /\ (i - 1) + 1 = i
          BY <4>2, <2>3
        <5> QED
          BY <5>1, <2>6, <2>7 DEF Elements
      <4> QED
        BY <4>1, <4>2, <2>1, <2>3
    <3> QED
      BY <3>1, <3>2
  <2> QED
    BY <2>2, <2>6, <2>8, <2>9 DEF List
<1> QED
  BY <1>1, <1>2


-----------------------------------------------------------------------------
(* What the operators on a device change of it.                            *)

\* w is the device v but for these fields.
Only(v, w, fields) ==
    IsDevice(w) /\ \A f \in DeviceFields \ fields : w[f] = v[f]

\* What wcmMappingFactor writes
ViewFields == {"size", "currentScreen", "mapped"}

\* A change of some fields is a change of more.
LEMMA OnlyMore ==
    ASSUME NEW v, NEW w, NEW F, NEW G, Only(v, w, F), F \subseteq G
    PROVE  Only(v, w, G)
  BY DEF Only

\* Two changes, one after the other
LEMMA OnlyThen ==
    ASSUME NEW u, NEW v, NEW w, NEW F, NEW G, Only(u, v, F), Only(v, w, G)
    PROVE  Only(u, w, F \cup G)
  BY DEF Only

\* wcmMappingFactor changes how a device is mapped, and nothing else.
LEMMA MapsOnly ==
    ASSUME NEW v, IsDevice(v), NEW p
    PROVE  /\ Only(v, MappingFactor(v, p), ViewFields)
           /\ MappingFactor(v, p).size = VirtualTabletSize(v)
  BY ZenonT(30) DEF Only, MappingFactor, ViewFields, IsDevice, HasFields, DeviceFields

\* What InitialCoordinates writes
AxisFields == ViewFields \cup {"axes"}

\* A device's axes are records of x and y.
HasAxes(v) == v.axes = [x |-> v.axes.x, y |-> v.axes.y]

\* InitialCoordinates gives one axis its range, and leaves the other as it was.
LEMMA CoordinatesOnly ==
    ASSUME NEW v, IsDevice(v), HasAxes(v), NEW a, NEW p
    PROVE  /\ Only(v, InitialCoordinates(v, a, p), AxisFields)
           /\ HasAxes(InitialCoordinates(v, a, p))
           /\ LET w == MappingFactor(v, p) IN
              InitialCoordinates(v, a, p).axes =
                IF a = "x" THEN [x |-> RangeX(w), y |-> v.axes.y]
                           ELSE [x |-> v.axes.x, y |-> RangeY(w)]
<1> DEFINE w == MappingFactor(v, p)
<1>1. Only(v, w, ViewFields) /\ IsDevice(w)
  BY MapsOnly DEF Only
<1>2. w.axes = v.axes
  BY <1>1 DEF Only, ViewFields, DeviceFields
<1>3. InitialCoordinates(v, a, p) =
        IF a = "x" THEN [w EXCEPT !.axes.x = RangeX(w)] ELSE [w EXCEPT !.axes.y = RangeY(w)]
  BY DEF InitialCoordinates
<1> HIDE DEF w
<1>4. HasAxes(w)
  BY <1>2 DEF HasAxes
<1> DEFINE wx == [w EXCEPT !.axes.x = RangeX(w)]
           wy == [w EXCEPT !.axes.y = RangeY(w)]
<1>5. Only(w, wx, {"axes"}) /\ Only(w, wy, {"axes"})
  BY <1>1 DEF Only, IsDevice, HasFields, DeviceFields
<1>6. wx.axes = [x |-> RangeX(w), y |-> v.axes.y] /\ wy.axes = [x |-> v.axes.x, y |-> RangeY(w)]
  BY <1>1, <1>2, <1>4 DEF HasAxes, IsDevice, HasFields, DeviceFields
<1> HIDE DEF wx, wy
<1>7. Only(v, wx, AxisFields) /\ Only(v, wy, AxisFields)
  BY <1>1, <1>5, OnlyThen DEF AxisFields
<1>8. HasAxes(wx) /\ HasAxes(wy)
  BY <1>6 DEF HasAxes
<1>9. CASE a = "x"
  <2>1. InitialCoordinates(v, a, p) = wx
    BY <1>3, <1>9 DEF wx
  <2> QED
    BY <2>1, <1>6, <1>7, <1>8, <1>9 DEF w
<1>10. CASE a # "x"
  <2>1. InitialCoordinates(v, a, p) = wy
    BY <1>3, <1>10 DEF wy
  <2> QED
    BY <2>1, <1>6, <1>7, <1>8, <1>10 DEF w
<1> QED
  BY <1>9, <1>10

-----------------------------------------------------------------------------
(* A device's values.                                                      *)

\* Rectangles of any sides, and halves that do not overlap
Rects == [Sides -> Int]
NoOffset == [x |-> 0, y |-> 0]

\* A resolution of the two halves of a screen, once given, has a height.
Resolution(r) ==
    /\ r \in Nat \X Nat \X Nat \X Nat
    /\ r[1] # 0 => r[2] + r[4] > 0

\* What every step may expect of a device's values
Decent(v) ==
    /\ IsDevice(v) /\ HasAxes(v)
    /\ v.rect \in Rects /\ v.maxX \in Int /\ v.maxY \in Int
    /\ v.absolute \in BOOLEAN
    /\ v.twinview \in TwinViews
    /\ Resolution(v.tvResolution)

\* Only the halves of a screen overlap.
GoodDevice(v) == Decent(v) /\ (Twin(v) \/ v.tvoffset = NoOffset)

\* The axes a device should have
AxisX(v) == IF v.absolute THEN <<v.rect.topX, v.rect.bottomX>> ELSE <<0, v.maxX>>
AxisY(v) == IF v.absolute THEN <<v.rect.topY, v.rect.bottomY>> ELSE <<0, v.maxY>>

\* The fields that a good device and its axes depend on
ValueFields ==
    {"rect", "maxX", "maxY", "absolute", "twinview", "tvResolution", "tvoffset", "axes"}

\* The values stay when others change.
LEMMA ValuesStay ==
    ASSUME NEW v, NEW w, NEW F, Only(v, w, F), F \cap (ValueFields \ {"axes"}) = {}
    PROVE  /\ w.rect = v.rect /\ w.maxX = v.maxX /\ w.maxY = v.maxY /\ w.absolute = v.absolute
           /\ w.twinview = v.twinview /\ w.tvResolution = v.tvResolution
           /\ w.tvoffset = v.tvoffset
<1>1. \A f \in ValueFields \ {"axes"} : f \in DeviceFields \ F
  BY DEF ValueFields, DeviceFields
<1>2. \A f \in ValueFields \ {"axes"} : w[f] = v[f]
  BY <1>1 DEF Only
<1> QED
  BY <1>2 DEF ValueFields

\* A decent device stays so when others of its fields change,
LEMMA DecentStays ==
    ASSUME NEW v, NEW w, NEW F, Decent(v), Only(v, w, F), HasAxes(w),
           F \cap (ValueFields \ {"axes"}) = {}
    PROVE  Decent(w)
  BY ValuesStay DEF Decent, Only

\* and a good one stays good.
LEMMA GoodStays ==
    ASSUME NEW v, NEW w, NEW F, GoodDevice(v), Only(v, w, F), HasAxes(w),
           F \cap (ValueFields \ {"axes"}) = {}
    PROVE  GoodDevice(w)
  BY DecentStays, ValuesStay DEF GoodDevice, Twin

\* The sides of a rectangle are numbers, and there are no others.
LEMMA RectSides ==
    ASSUME NEW r \in Rects
    PROVE  /\ r.topX \in Int /\ r.topY \in Int /\ r.bottomX \in Int /\ r.bottomY \in Int
           /\ r = Area(r.topX, r.topY, r.bottomX, r.bottomY)
  BY DEF Rects, Sides, Area

\* An area's sides are what it was made from.
LEMMA RectArea ==
    ASSUME NEW a \in Int, NEW b \in Int, NEW c \in Int, NEW d \in Int
    PROVE  /\ Area(a, b, c, d) \in Rects
           /\ Area(a, b, c, d).topX = a /\ Area(a, b, c, d).topY = b
           /\ Area(a, b, c, d).bottomX = c /\ Area(a, b, c, d).bottomY = d
  BY DEF Rects, Sides, Area

\* The range of the axes of a device that is not on a divided screen
LEMMA AxisRanges ==
    ASSUME NEW v, GoodDevice(v), ~Twin(v), NEW p
    PROVE  LET w == MappingFactor(v, p)
           IN  RangeX(w) = AxisX(v) /\ RangeY(w) = AxisY(v)
<1> DEFINE w == MappingFactor(v, p)
<1>1. Only(v, w, ViewFields) /\ w.size = VirtualTabletSize(v)
  BY MapsOnly DEF GoodDevice, Decent
<1> HIDE DEF w
<1>2. /\ w.rect = v.rect /\ w.maxX = v.maxX /\ w.maxY = v.maxY /\ w.absolute = v.absolute
      /\ w.twinview = v.twinview /\ w.tvoffset = v.tvoffset
  BY <1>1 DEF Only, ViewFields, DeviceFields
<1>3. v.tvoffset.x = 0 /\ v.tvoffset.y = 0
  BY DEF GoodDevice, Decent, NoOffset
<1>4. /\ v.rect.topX \in Int /\ v.rect.topY \in Int
      /\ v.rect.bottomX \in Int /\ v.rect.bottomY \in Int
  BY RectSides DEF GoodDevice, Decent
<1>5. w.size.x = v.rect.bottomX - v.rect.topX /\ w.size.y = v.rect.bottomY - v.rect.topY
  BY <1>1, <1>3, <1>4 DEF VirtualTabletSize, Width, Height
<1>6. ~Twin(w)
  BY <1>2 DEF Twin
<1>7. RangeX(w) = IF v.absolute THEN <<v.rect.topX + 0, v.rect.topX + w.size.x - 0>>
                                ELSE <<0, v.maxX>>
  BY <1>2, <1>6 DEF RangeX, AxisRange
<1>8. RangeY(w) = IF v.absolute THEN <<v.rect.topY + 0, v.rect.topY + w.size.y - 0>>
                                ELSE <<0, v.maxY>>
  BY <1>2, <1>6 DEF RangeY, AxisRange
<1>9. /\ v.rect.topX + 0 = v.rect.topX /\ v.rect.topY + 0 = v.rect.topY
      /\ v.rect.topX + w.size.x - 0 = v.rect.bottomX
      /\ v.rect.topY + w.size.y - 0 = v.rect.bottomY
  BY <1>4, <1>5
<1> QED
  BY <1>7, <1>8, <1>9 DEF AxisX, AxisY, w

\* The axes are right, or nobody asks.
Right(v) == ~Twin(v) /\ v.type # "pad" => v.axes = [x |-> AxisX(v), y |-> AxisY(v)]

\* With both coordinates set, a device without TwinView has the axes its rectangle and mode
\* call for.
LEMMA BothRight ==
    ASSUME NEW v, GoodDevice(v), NEW p
    PROVE  /\ Only(v, BothCoordinates(v, p), AxisFields)
           /\ GoodDevice(BothCoordinates(v, p))
           /\ ~Twin(v) => BothCoordinates(v, p).axes = [x |-> AxisX(v), y |-> AxisY(v)]
<1> DEFINE u == InitialCoordinates(v, "x", p)
           w == InitialCoordinates(u, "y", p)
<1>1. /\ Only(v, u, AxisFields) /\ HasAxes(u)
      /\ u.axes = [x |-> RangeX(MappingFactor(v, p)), y |-> v.axes.y]
  BY CoordinatesOnly DEF GoodDevice, Decent
<1>2. AxisFields \cap (ValueFields \ {"axes"}) = {}
  BY DEF AxisFields, ViewFields, ValueFields
<1> HIDE DEF u
<1>3. GoodDevice(u)
  BY <1>1, <1>2, GoodStays
<1>4. /\ Only(u, w, AxisFields) /\ HasAxes(w)
      /\ w.axes = [x |-> u.axes.x, y |-> RangeY(MappingFactor(u, p))]
  BY <1>3, CoordinatesOnly DEF GoodDevice, Decent
<1> HIDE DEF w
<1>5. GoodDevice(w)
  BY <1>2, <1>3, <1>4, GoodStays
<1>6. Only(v, w, AxisFields)
  BY <1>1, <1>4, OnlyThen
<1>7. ~Twin(v) => w.axes = [x |-> AxisX(v), y |-> AxisY(v)]
  <2> SUFFICES ASSUME ~Twin(v) PROVE w.axes = [x |-> AxisX(v), y |-> AxisY(v)]
    OBVIOUS
  <2>1. u.rect = v.rect /\ u.maxY = v.maxY /\ u.absolute = v.absolute /\ u.twinview = v.twinview
    BY <1>1 DEF Only, AxisFields, ViewFields, DeviceFields
  <2>2. ~Twin(u) /\ AxisY(u) = AxisY(v)
    BY <2>1 DEF Twin, AxisY
  <2>3. RangeX(MappingFactor(v, p)) = AxisX(v)
    BY AxisRanges
  <2>4. RangeY(MappingFactor(u, p)) = AxisY(v)
    BY <1>3, <2>2, AxisRanges
  <2> QED
    BY <1>1, <1>4, <2>3, <2>4
<1>8. BothCoordinates(v, p) = w
  BY DEF BothCoordinates, u, w
<1> QED
  BY <1>5, <1>6, <1>7, <1>8

-----------------------------------------------------------------------------
(* Screens.                                                                *)

\* A server's screens.
IsServer(server) ==
    /\ server \in Seq([Sides -> Nat]) /\ Len(server) \in {1, 2}
    /\ \A n \in DOMAIN server : Width(server[n]) > 1 /\ Height(server[n]) > 1

\* What wcmInitialScreens writes
ScreenFields == {"numScreen", "tvoffset", "tvResolution", "screens"}

\* A screen of the server has a size.
LEMMA ScreenOf ==
    ASSUME NEW server, IsServer(server), NEW n \in 1 .. Len(server)
    PROVE  /\ server[n] \in Rects
           /\ server[n].topX \in Nat /\ server[n].topY \in Nat
           /\ server[n].bottomX \in Nat /\ server[n].bottomY \in Nat
           /\ server[n].bottomX - server[n].topX > 1
           /\ server[n].bottomY - server[n].topY > 1
<1>1. server[n] \in [Sides -> Nat] /\ n \in DOMAIN server
  BY DEF IsServer
<1> DEFINE s == server[n]
<1>2. Width(s) > 1 /\ Height(s) > 1
  BY <1>1 DEF IsServer
<1> HIDE DEF s
<1>3. s \in [Sides -> Nat]
  BY <1>1 DEF s
<1>4. s.topX \in Nat /\ s.topY \in Nat /\ s.bottomX \in Nat /\ s.bottomY \in Nat /\ s \in Rects
  BY <1>3 DEF Sides, Rects
<1> QED
  BY <1>2, <1>4 DEF Width, Height, s

\* The resolution a device has when its screens were determined
LEMMA ResolutionsGood ==
    ASSUME NEW v, Decent(v), Twin(v), NEW server, IsServer(server)
    PROVE  Resolution(Resolutions(v, server)) /\ Resolutions(v, server)[1] # 0
<1> DEFINE s == server[1]
           w == IF v.twinview \in SideBySide THEN Width(s) \div 2 ELSE Width(s)
           h == IF v.twinview \in OneAbove THEN Height(s) \div 2 ELSE Height(s)
<1>1. Width(s) \in Nat /\ Height(s) \in Nat /\ Width(s) > 1 /\ Height(s) > 1
  BY SMTT(15), ScreenOf DEF Width, Height, IsServer
<1>2. w \in Nat /\ h \in Nat /\ w > 0 /\ h > 0
  <2> HIDE DEF s
  <2>1. \A n \in Nat : n > 1 => n \div 2 \in Nat /\ n \div 2 > 0
    OBVIOUS
  <2> QED
    BY <1>1, <2>1
<1>3. Resolutions(v, server) = IF v.tvResolution[1] = 0 THEN <<w, h, w, h>> ELSE v.tvResolution
  BY DEF Resolutions
<1> HIDE DEF w, h
<1>4. Resolution(<<w, h, w, h>>) /\ <<w, h, w, h>>[1] # 0
  BY <1>2 DEF Resolution
<1> QED
  BY <1>3, <1>4 DEF GoodDevice, Decent

\* The two halves of a screen
LEMMA Halved ==
    ASSUME NEW t \in SideBySide \cup OneAbove, NEW r, Resolution(r), r[1] # 0
    PROVE  LET s == TVScreens(t, r)
           IN  /\ s[1] \in Rects /\ s[2] \in Rects
               /\ \E n \in {1, 2} : s[n].bottomX > 0 /\ s[n].topX = 0
               /\ \E n \in {1, 2} : s[n].topY = 0
               /\ \E n \in {1, 2} : s[n].bottomY > 0
<1> DEFINE a == r[1]  b == r[2]  c == r[3]  d == r[4]
<1>1. a \in Nat /\ b \in Nat /\ c \in Nat /\ d \in Nat /\ a > 0 /\ b + d > 0
  BY DEF Resolution
<1> DEFINE one == Area(0, 0, 0 + a, 0 + b)
           below == Area(0, b, c, b + d)
           beside == Area(a, 0, a + c, d)
<1>2. TVScreens(t, r) = IF t = "above_below" THEN <<one, below>>
                        ELSE IF t = "left_right" THEN <<one, beside>>
                        ELSE IF t = "below_above" THEN <<below, one>> ELSE <<beside, one>>
  BY DEF TVScreens, SideBySide, OneAbove, At
<1> HIDE DEF a, b, c, d
<1>3. /\ one \in Rects /\ one.topX = 0 /\ one.topY = 0 /\ one.bottomX > 0 /\ one.bottomY = b
      /\ below \in Rects /\ below.bottomY = b + d
      /\ beside \in Rects /\ beside.topY = 0 /\ beside.bottomY = d
  <2>1. 0 + a = a /\ 0 + b = b /\ a \in Int /\ b \in Int /\ c \in Int /\ d \in Int
        /\ b + d \in Int /\ a + c \in Int /\ 0 \in Int
    BY <1>1
  <2>2. one = Area(0, 0, a, b)
    BY <2>1
  <2> HIDE DEF one
  <2>3. one \in Rects /\ one.topX = 0 /\ one.topY = 0 /\ one.bottomX = a /\ one.bottomY = b
    BY SMTT(20), <2>1, <2>2, RectArea
  <2>4. below \in Rects /\ below.bottomY = b + d
    <3>1. 0 \in Int /\ b \in Int /\ c \in Int /\ b + d \in Int
      BY <2>1
    <3>2. below.bottomY = b + d
      BY <3>1 DEF Area
    <3> QED
      BY <3>1, <3>2, RectArea
  <2>5. beside \in Rects /\ beside.topY = 0 /\ beside.bottomY = d
    BY <2>1, RectArea
  <2> QED
    BY <1>1, <2>3, <2>4, <2>5
<1> HIDE DEF one, below, beside
<1>4. CASE t \in OneAbove
  BY <1>1, <1>2, <1>3, <1>4 DEF OneAbove
<1>5. CASE t \in SideBySide
  BY <1>1, <1>2, <1>3, <1>5 DEF SideBySide
<1> QED
  BY <1>4, <1>5

\* wcmInitialScreens keeps a device good, whatever its TwinView.
LEMMA ScreensOnly ==
    ASSUME NEW v, Decent(v), NEW server, IsServer(server)
    PROVE  /\ Only(v, InitialScreens(v, server), ScreenFields)
           /\ GoodDevice(InitialScreens(v, server))
<1>1. CASE Twin(v)
  <2> DEFINE r == Resolutions(v, server)
             s == TVScreens(v.twinview, r)
             o == TVOffset(v)
             g == [n \in {0, 1} |-> s[n + 1]]
             w == [v EXCEPT !.numScreen = 2, !.tvoffset = o, !.tvResolution = r, !.screens = g]
  <2>1. InitialScreens(v, server) = w
    BY <1>1 DEF InitialScreens, InitialTVScreens
  <2>2. Resolution(r)
    BY <1>1, ResolutionsGood
  <2> HIDE DEF r, s, o, g
  <2>3. Only(v, w, ScreenFields) /\ w.tvResolution = r
    BY ZenonT(30) DEF GoodDevice, Decent, Only, IsDevice, HasFields, DeviceFields, ScreenFields
  <2> HIDE DEF w
  <2>4. /\ w.rect = v.rect /\ w.maxX = v.maxX /\ w.maxY = v.maxY /\ w.absolute = v.absolute
        /\ w.twinview = v.twinview /\ w.axes = v.axes
    BY <2>3 DEF Only, ScreenFields, DeviceFields
  <2> QED
    BY <1>1, <2>1, <2>2, <2>3, <2>4 DEF GoodDevice, Decent, Only, HasAxes, Twin
<1>2. CASE ~Twin(v)
  <2> DEFINE g == [n \in {0, 1} |-> IF n < Len(server) THEN server[n + 1] ELSE v.screens[n]]
             w == [v EXCEPT !.numScreen = Len(server), !.tvoffset = NoOffset, !.screens = g]
  <2>1. InitialScreens(v, server) = w
    BY <1>2 DEF InitialScreens, NoOffset, GoodDevice, Decent, IsDevice, HasFields, DeviceFields
  <2> HIDE DEF g
  <2>2. Only(v, w, ScreenFields) /\ w.tvoffset = NoOffset /\ w.tvResolution = v.tvResolution
    BY DEF GoodDevice, Decent, Only, IsDevice, HasFields, DeviceFields, ScreenFields
  <2> HIDE DEF w
  <2>3. /\ w.rect = v.rect /\ w.maxX = v.maxX /\ w.maxY = v.maxY /\ w.absolute = v.absolute
        /\ w.twinview = v.twinview /\ w.axes = v.axes
    BY <2>2 DEF Only, ScreenFields, DeviceFields
  <2> QED
    BY <1>2, <2>1, <2>2, <2>3 DEF GoodDevice, Decent, Only, HasAxes, Twin
<1> QED
  BY <1>1, <1>2

\* The least and the most of two numbers
LEMMA LeastMost ==
    ASSUME NEW a \in Int, NEW b \in Int
    PROVE  /\ Least({a, b}) \in Int /\ Most({a, b}) \in Int
           /\ Least({a, b}) <= a /\ Least({a, b}) <= b
           /\ a <= Most({a, b}) /\ b <= Most({a, b})
<1>1. \E m \in {a, b} : \A n \in {a, b} : m <= n
  <2>1. CASE a <= b
    BY <2>1
  <2>2. CASE ~(a <= b)
    BY <2>2
  <2> QED
    BY <2>1, <2>2
<1>2. \E m \in {a, b} : \A n \in {a, b} : n <= m
  <2>1. CASE a <= b
    BY <2>1
  <2>2. CASE ~(a <= b)
    BY <2>2
  <2> QED
    BY <2>1, <2>2
<1>3. Least({a, b}) \in {a, b} /\ \A n \in {a, b} : Least({a, b}) <= n
  BY <1>1 DEF Least
<1>4. Most({a, b}) \in {a, b} /\ \A n \in {a, b} : n <= Most({a, b})
  BY <1>2 DEF Most
<1> QED
  BY <1>3, <1>4

\* A desktop has a size.
HasSize(d) == d = [x |-> d.x, y |-> d.y] /\ d.x \in Nat \ {0} /\ d.y \in Nat \ {0}

\* Two screens that do not lie in each other's way span a desktop with a size.
LEMMA DesktopOf ==
    ASSUME NEW s \in Rects, NEW t \in Rects,
           s.bottomX > s.topX \/ t.bottomX > t.topX \/ (s.bottomX > t.topX /\ t.bottomX > s.topX),
           s.bottomY > s.topY \/ t.bottomY > t.topY
             \/ s.bottomY > t.topY \/ t.bottomY > s.topY,
           NEW shown, shown = {s, t}
    PROVE  HasSize([x |-> Most({r.bottomX : r \in shown}) - Least({r.topX : r \in shown}),
                   y |-> Most({r.bottomY : r \in shown}) - Least({r.topY : r \in shown})])
<1>1. /\ {r.bottomX : r \in shown} = {s.bottomX, t.bottomX}
      /\ {r.topX : r \in shown} = {s.topX, t.topX}
      /\ {r.bottomY : r \in shown} = {s.bottomY, t.bottomY}
      /\ {r.topY : r \in shown} = {s.topY, t.topY}
  OBVIOUS
<1>2. /\ s.topX \in Int /\ s.topY \in Int /\ s.bottomX \in Int /\ s.bottomY \in Int
      /\ t.topX \in Int /\ t.topY \in Int /\ t.bottomX \in Int /\ t.bottomY \in Int
  BY RectSides
<1> DEFINE x == Most({s.bottomX, t.bottomX}) - Least({s.topX, t.topX})
           y == Most({s.bottomY, t.bottomY}) - Least({s.topY, t.topY})
<1>3. x \in Nat \ {0}
  <2>1. Most({s.bottomX, t.bottomX}) \in Int /\ s.bottomX <= Most({s.bottomX, t.bottomX})
        /\ t.bottomX <= Most({s.bottomX, t.bottomX})
    BY <1>2, LeastMost
  <2>2. Least({s.topX, t.topX}) \in Int /\ Least({s.topX, t.topX}) <= s.topX
        /\ Least({s.topX, t.topX}) <= t.topX
    BY <1>2, LeastMost
  <2> QED
    BY <1>2, <2>1, <2>2
<1>4. y \in Nat \ {0}
  <2>1. Most({s.bottomY, t.bottomY}) \in Int /\ s.bottomY <= Most({s.bottomY, t.bottomY})
        /\ t.bottomY <= Most({s.bottomY, t.bottomY})
    BY <1>2, LeastMost
  <2>2. Least({s.topY, t.topY}) \in Int /\ Least({s.topY, t.topY}) <= s.topY
        /\ Least({s.topY, t.topY}) <= t.topY
    BY <1>2, LeastMost
  <2> QED
    BY <1>2, <2>1, <2>2
<1> QED
  BY <1>1, <1>3, <1>4 DEF HasSize

\* wcmDesktopSize finds a desktop with a size, so that what divides by it can.
LEMMA DesktopGood ==
    ASSUME NEW v, GoodDevice(v), NEW server, IsServer(server)
    PROVE  /\ Only(v, DesktopSize(v, server), ScreenFields \cup {"desktop"})
           /\ GoodDevice(DesktopSize(v, server))
           /\ HasSize(DesktopSize(v, server).desktop)
<1> DEFINE w == InitialScreens(v, server)
           shown == {w.screens[n] : n \in 0 .. w.numScreen - 1}
           desktop == [x |-> Most({s.bottomX : s \in shown}) - Least({s.topX : s \in shown}),
                       y |-> Most({s.bottomY : s \in shown}) - Least({s.topY : s \in shown})]
           u == [w EXCEPT !.desktop = desktop]
<1>0. Decent(v)
  BY DEF GoodDevice
<1>1. Only(v, w, ScreenFields) /\ GoodDevice(w)
  BY <1>0, ScreensOnly
<1>2. DesktopSize(v, server) = u
  BY DEF DesktopSize
<1>3. \E s, t \in Rects :
        /\ shown = {s, t}
        /\ s.bottomX > s.topX \/ t.bottomX > t.topX
             \/ (s.bottomX > t.topX /\ t.bottomX > s.topX)
        /\ s.bottomY > s.topY \/ t.bottomY > t.topY \/ s.bottomY > t.topY \/ t.bottomY > s.topY
  <2>1. CASE Twin(v)
    <3> DEFINE r == Resolutions(v, server)
               s == TVScreens(v.twinview, r)
    <3>1. Resolution(r) /\ r[1] # 0
      BY <1>0, <2>1, ResolutionsGood
    <3>2. v.twinview \in SideBySide \cup OneAbove
      BY <2>1 DEF Twin
    <3> HIDE DEF r
    <3>3. /\ s[1] \in Rects /\ s[2] \in Rects
          /\ \E n \in {1, 2} : s[n].bottomX > 0 /\ s[n].topX = 0
          /\ \E n \in {1, 2} : s[n].topY = 0
          /\ \E n \in {1, 2} : s[n].bottomY > 0
      BY <3>1, <3>2, Halved
    <3>4. w.numScreen = 2 /\ w.screens = [n \in {0, 1} |-> s[n + 1]]
      BY <2>1 DEF InitialScreens, InitialTVScreens, GoodDevice, Decent, IsDevice, HasFields,
                  DeviceFields, r
    <3> HIDE DEF s, w
    <3>5. 0 .. w.numScreen - 1 = {0, 1} /\ w.screens[0] = s[1] /\ w.screens[1] = s[2]
      BY <3>4
    <3>6. shown = {s[1], s[2]}
      BY <3>5
    <3> HIDE DEF shown
    <3>7. /\ s[1].topX \in Int /\ s[1].topY \in Int /\ s[2].topX \in Int /\ s[2].topY \in Int
          /\ s[1].bottomX \in Int /\ s[1].bottomY \in Int
          /\ s[2].bottomX \in Int /\ s[2].bottomY \in Int
      BY <3>3, RectSides
    <3>8. s[1].bottomX > s[1].topX \/ s[2].bottomX > s[2].topX
      BY <3>3, <3>7
    <3>9. \/ s[1].bottomY > s[1].topY \/ s[2].bottomY > s[2].topY
          \/ s[1].bottomY > s[2].topY \/ s[2].bottomY > s[1].topY
      BY <3>3, <3>7
    <3> QED
      BY <3>3, <3>6, <3>8, <3>9
  <2>2. CASE ~Twin(v)
    <3>1. /\ w.numScreen = Len(server)
          /\ \A n \in {0, 1} : n < Len(server) => w.screens[n] = server[n + 1]
      BY <2>2 DEF InitialScreens, GoodDevice, Decent, IsDevice, HasFields, DeviceFields
    <3>2. Len(server) \in {1, 2}
      BY DEF IsServer
    <3> HIDE DEF w
    <3>3. shown = {server[1], server[Len(server)]}
      <4>1. CASE Len(server) = 1
        <5>1. 0 .. w.numScreen - 1 = {0} /\ w.screens[0] = server[1]
          BY <3>1, <4>1
        <5> QED
          BY <4>1, <5>1
      <4>2. CASE Len(server) = 2
        <5>1. /\ 0 .. w.numScreen - 1 = {0, 1}
              /\ w.screens[0] = server[1] /\ w.screens[1] = server[2]
          BY <3>1, <4>2
        <5> QED
          BY <4>2, <5>1
      <4> QED
        BY <3>2, <4>1, <4>2
    <3>4. /\ server[1] \in Rects /\ server[Len(server)] \in Rects
          /\ server[1].bottomX > server[1].topX /\ server[1].bottomY > server[1].topY
      <4>1. 1 \in 1 .. Len(server) /\ Len(server) \in 1 .. Len(server)
        BY <3>2
      <4>2. \A n \in 1 .. Len(server) :
              server[n] \in Rects /\ server[n].bottomX > server[n].topX
              /\ server[n].bottomY > server[n].topY
        BY ScreenOf
      <4> QED
        BY <4>1, <4>2
    <3> QED
      BY <3>3, <3>4
  <2> QED
    BY <2>1, <2>2
<1> HIDE DEF shown
<1>4. HasSize(desktop)
  BY <1>3, DesktopOf
<1> HIDE DEF desktop, w
<1>5. Only(w, u, {"desktop"}) /\ u.desktop = desktop
  BY <1>1 DEF Only, GoodDevice, Decent, IsDevice, HasFields, DeviceFields
<1> HIDE DEF u
<1>6. u.axes = w.axes
  BY <1>5 DEF Only, DeviceFields
<1>7. GoodDevice(u)
  <2>1. HasAxes(u)
    BY <1>1, <1>6 DEF HasAxes, GoodDevice, Decent
  <2>2. {"desktop"} \cap (ValueFields \ {"axes"}) = {}
    BY DEF ValueFields
  <2> QED
    BY <1>1, <1>5, <2>1, <2>2, GoodStays
<1>8. Only(v, u, ScreenFields \cup {"desktop"})
  BY <1>1, <1>5, OnlyThen
<1> QED
  BY <1>2, <1>4, <1>5, <1>7, <1>8

\* A screen is changed.
LEMMA ScreenChanged ==
    ASSUME NEW v, Decent(v), NEW n, NEW server, IsServer(server), NEW p
    PROVE  /\ Only(v, ChangeScreen(v, n, server, p),
                   ScreenFields \cup AxisFields \cup {"screen_no", "currentScreen"})
           /\ GoodDevice(ChangeScreen(v, n, server, p))
           /\ Right(ChangeScreen(v, n, server, p))
<1> DEFINE k == IF n # -1 THEN n ELSE v.currentScreen
           w == [v EXCEPT !.screen_no = n, !.currentScreen = k]
           x == InitialScreens(w, server)
           y == BothCoordinates(x, p)
<1>1. ChangeScreen(v, n, server, p) = y
  BY DEF ChangeScreen
<1> HIDE DEF k
<1>2. Only(v, w, {"screen_no", "currentScreen"})
  BY DEF Only, GoodDevice, Decent, IsDevice, HasFields, DeviceFields
<1> HIDE DEF w
<1>3. Decent(w)
  <2>1. w.axes = v.axes
    BY <1>2 DEF Only, DeviceFields
  <2>2. HasAxes(w)
    BY <2>1 DEF GoodDevice, Decent, HasAxes
  <2>3. {"screen_no", "currentScreen"} \cap (ValueFields \ {"axes"}) = {}
    BY DEF ValueFields
  <2> QED
    BY <1>2, <2>2, <2>3, DecentStays
<1>4. Only(w, x, ScreenFields) /\ GoodDevice(x)
  BY <1>3, ScreensOnly
<1> HIDE DEF x
<1>5. /\ Only(x, y, AxisFields) /\ GoodDevice(y)
      /\ ~Twin(x) => y.axes = [x |-> AxisX(x), y |-> AxisY(x)]
  BY <1>4, BothRight
<1> HIDE DEF y
<1>6. Right(y)
  <2>1. /\ y.rect = x.rect /\ y.maxX = x.maxX /\ y.maxY = x.maxY /\ y.absolute = x.absolute
        /\ y.twinview = x.twinview
    BY <1>5 DEF Only, AxisFields, ViewFields, DeviceFields
  <2> QED
    BY <1>5, <2>1 DEF Right, Twin, AxisX, AxisY
<1>7. Only(v, x, {"screen_no", "currentScreen"} \cup ScreenFields)
  BY <1>2, <1>4, OnlyThen
<1>8. Only(v, y, ({"screen_no", "currentScreen"} \cup ScreenFields) \cup AxisFields)
  BY <1>5, <1>7, OnlyThen
<1>9. Only(v, y, ScreenFields \cup AxisFields \cup {"screen_no", "currentScreen"})
  BY <1>8, OnlyMore
<1> QED
  BY <1>1, <1>5, <1>6, <1>9

\* The rectangle is verified.
LEMMA VerifiedGood ==
    ASSUME NEW v, GoodDevice(v)
    PROVE  Verified(v) \in Rects
<1>1. /\ v.rect.topX \in Int /\ v.rect.topY \in Int
      /\ v.rect.bottomX \in Int /\ v.rect.bottomY \in Int /\ v.maxX \in Int /\ v.maxY \in Int
  BY RectSides DEF GoodDevice, Decent
<1> DEFINE r == v.rect
           left == IF r.topX > v.maxX THEN 0 ELSE r.topX
           top  == IF r.topY > v.maxY THEN 0 ELSE r.topY
           right == IF r.bottomX < left \/ r.bottomX = 0 THEN v.maxX ELSE r.bottomX
           bottom == IF r.bottomY < top \/ r.bottomY = 0 THEN v.maxY ELSE r.bottomY
<1>2. left \in Int /\ top \in Int /\ right \in Int /\ bottom \in Int
  BY <1>1
<1>3. Verified(v) = Area(left, top, right, bottom)
  BY DEF Verified
<1> HIDE DEF left, top, right, bottom
<1> QED
  BY <1>2, <1>3, RectArea

\* It keeps the desktop's shape.
LEMMA ShapedGood ==
    ASSUME NEW v, GoodDevice(v), NEW r \in Rects, NEW x \in Nat \ {0}, NEW y \in Nat \ {0}
    PROVE  Shaped(v, r, x, y) \in Rects
<1> DEFINE w == v.maxX - r.topX
           h == v.maxY - r.topY
           bottom == r.topY + (w * y) \div x
           right == r.topX + (h * x) \div y
<1>1. r.topX \in Int /\ r.topY \in Int /\ v.maxX \in Int /\ v.maxY \in Int
  BY RectSides DEF GoodDevice, Decent
<1>2. w \in Int /\ h \in Int
  BY <1>1
<1>3. Shaped(v, r, x, y) =
        IF x * h > w * y THEN Area(r.topX, r.topY, v.maxX, bottom)
                         ELSE Area(r.topX, r.topY, right, v.maxY)
  BY DEF Shaped
<1> HIDE DEF w, h
<1>4. w * y \in Int /\ h * x \in Int
  BY <1>2
<1>5. \A a \in Int, b \in Nat \ {0} : a \div b \in Int
  OBVIOUS
<1>6. bottom \in Int /\ right \in Int
  BY <1>1, <1>4, <1>5
<1> HIDE DEF bottom, right
<1>7. Area(r.topX, r.topY, v.maxX, bottom) \in Rects
  BY <1>1, <1>6, RectArea
<1>8. Area(r.topX, r.topY, right, v.maxY) \in Rects
  BY <1>1, <1>6, RectArea
<1> QED
  BY <1>3, <1>7, <1>8

\* What fitting a device to its screens writes
FitFields == ScreenFields \cup {"desktop", "screen_no", "rect"}

\* A device that was shown its screens is good.
LEMMA ScreenedGood ==
    ASSUME NEW v, GoodDevice(v), IsServer(screens)
    PROVE  /\ Only(v, Screened(v), ScreenFields \cup {"desktop", "screen_no"})
           /\ GoodDevice(Screened(v)) /\ HasSize(Screened(v).desktop)
<1> DEFINE n == IF Twin(v) THEN 2 ELSE v.numScreen
           none == v.screen_no # -1 /\ v.screen_no \notin 0 .. n - 1
                   /\ (~Twin(v) \/ v.screen_no > 1)
           k == IF none THEN -1 ELSE v.screen_no
           w == [v EXCEPT !.numScreen = n, !.screen_no = k]
<1>1. Screened(v) = DesktopSize(w, screens)
  BY DEF Screened, GoodDevice, Decent, IsDevice, HasFields, DeviceFields
<1> HIDE DEF n, k
<1>2. Only(v, w, {"numScreen", "screen_no"})
  BY DEF Only, GoodDevice, Decent, IsDevice, HasFields, DeviceFields
<1> HIDE DEF w
<1>3. GoodDevice(w)
  <2>1. w.axes = v.axes
    BY <1>2 DEF Only, DeviceFields
  <2>2. HasAxes(w)
    BY <2>1 DEF GoodDevice, Decent, HasAxes
  <2>3. {"numScreen", "screen_no"} \cap (ValueFields \ {"axes"}) = {}
    BY DEF ValueFields
  <2> QED
    BY <1>2, <2>2, <2>3, GoodStays
<1>4. /\ Only(w, DesktopSize(w, screens), ScreenFields \cup {"desktop"})
      /\ GoodDevice(DesktopSize(w, screens)) /\ HasSize(DesktopSize(w, screens).desktop)
  BY <1>3, DesktopGood
<1>5. Only(v, DesktopSize(w, screens),
           {"numScreen", "screen_no"} \cup (ScreenFields \cup {"desktop"}))
  BY <1>2, <1>4, OnlyThen
<1>6. {"numScreen", "screen_no"} \cup (ScreenFields \cup {"desktop"})
        \subseteq ScreenFields \cup {"desktop", "screen_no"}
  BY DEF ScreenFields
<1> QED
  BY <1>1, <1>4, <1>5, <1>6, OnlyMore

\* A rectangle is given to a device.
LEMMA RectGiven ==
    ASSUME NEW v, GoodDevice(v), NEW r \in Rects
    PROVE  LET w == [v EXCEPT !.rect = r]
           IN  Only(v, w, {"rect"}) /\ GoodDevice(w) /\ w.rect = r
<1> DEFINE w == [v EXCEPT !.rect = r]
<1>1. Only(v, w, {"rect"}) /\ w.rect = r
  BY DEF Only, GoodDevice, Decent, IsDevice, HasFields, DeviceFields
<1> HIDE DEF w
<1>2. /\ w.maxX = v.maxX /\ w.maxY = v.maxY /\ w.absolute = v.absolute /\ w.axes = v.axes
      /\ w.twinview = v.twinview /\ w.tvResolution = v.tvResolution /\ w.tvoffset = v.tvoffset
  BY <1>1 DEF Only, DeviceFields
<1>3. GoodDevice(w)
  BY <1>1, <1>2 DEF GoodDevice, Decent, Only, HasAxes, Twin
<1> QED
  BY <1>1, <1>3 DEF w

\* The rectangle is fitted to the screens without touching what the links depend on.
LEMMA FittedGood ==
    ASSUME NEW v, GoodDevice(v), IsServer(screens)
    PROVE  Only(v, Fitted(v), FitFields) /\ GoodDevice(Fitted(v))
<1> DEFINE r == Verified(v)
           w == [v EXCEPT !.rect = r]
           e == Screened(w)
           q == IF v.shape THEN Shaped(v, r, e.desktop.x, e.desktop.y) ELSE r
<1>1. Fitted(v) = [e EXCEPT !.rect = q]
  BY DEF Fitted
<1>2. r \in Rects
  BY VerifiedGood
<1> HIDE DEF r
<1>3. Only(v, w, {"rect"}) /\ GoodDevice(w)
  BY <1>2, RectGiven
<1> HIDE DEF w
<1>4. /\ Only(w, e, ScreenFields \cup {"desktop", "screen_no"})
      /\ GoodDevice(e) /\ HasSize(e.desktop)
  BY <1>3, ScreenedGood
<1> HIDE DEF e
<1>5. q \in Rects
  <2>1. e.desktop.x \in Nat \ {0} /\ e.desktop.y \in Nat \ {0}
    BY <1>4 DEF HasSize
  <2>2. Shaped(v, r, e.desktop.x, e.desktop.y) \in Rects
    BY <1>2, <2>1, ShapedGood
  <2> QED
    BY <1>2, <2>2
<1> HIDE DEF q
<1>6. Only(e, [e EXCEPT !.rect = q], {"rect"}) /\ GoodDevice([e EXCEPT !.rect = q])
  BY <1>4, <1>5, RectGiven
<1>7. Only(v, e, {"rect"} \cup (ScreenFields \cup {"desktop", "screen_no"}))
  BY <1>3, <1>4, OnlyThen
<1>8. Only(v, [e EXCEPT !.rect = q],
           ({"rect"} \cup (ScreenFields \cup {"desktop", "screen_no"})) \cup {"rect"})
  BY <1>6, <1>7, OnlyThen
<1>9. ({"rect"} \cup (ScreenFields \cup {"desktop", "screen_no"})) \cup {"rect"} \subseteq FitFields
  BY DEF FitFields
<1>10. Only(v, [e EXCEPT !.rect = q], FitFields)
  BY <1>8, <1>9, OnlyMore
<1> QED
  BY <1>1, <1>6, <1>10

-----------------------------------------------------------------------------
(* Rotation.                                                               *)

\* wcmRotateOne: the new rectangle, looked at from the new rotation, is the old one from
\* none.
LEMMA RotatedGood ==
    ASSUME NEW v, GoodDevice(v), NEW to \in Rotations, NEW p
    PROVE  LET r == Rotated(v.rect, v.maxX, v.maxY, to)
               z == Turned(v, to)
               w == BothCoordinates([v EXCEPT !.rect = r, !.maxX = z.x, !.maxY = z.y], p)
           IN  /\ Only(v, w, {"rect", "maxX", "maxY"} \cup AxisFields)
               /\ GoodDevice(w) /\ Right(w) /\ w.rect = r
               /\ to = "none" => r = v.rect
               /\ SurfaceOf(w, to) = [rect |-> v.rect, size |-> [x |-> v.maxX, y |-> v.maxY]]
<1> DEFINE r == Rotated(v.rect, v.maxX, v.maxY, to)
           z == Turned(v, to)
           u == [v EXCEPT !.rect = r, !.maxX = z.x, !.maxY = z.y]
           w == BothCoordinates(u, p)
           a == v.rect.topX  b == v.rect.topY  c == v.rect.bottomX  d == v.rect.bottomY
           x == v.maxX  y == v.maxY
<1>1. /\ a \in Int /\ b \in Int /\ c \in Int /\ d \in Int /\ x \in Int /\ y \in Int
      /\ v.rect = Area(a, b, c, d)
  BY RectSides DEF GoodDevice, Decent
<1>2. /\ z.x = IF to \in {"cw", "ccw"} THEN y ELSE x
      /\ z.y = IF to \in {"cw", "ccw"} THEN x ELSE y
  BY DEF Turned, Turns
<1>3. r = IF to = "cw" THEN Area(b, x - c, d, x - a)
          ELSE IF to = "ccw" THEN Area(y - d, a, y - b, c)
          ELSE IF to = "half" THEN Area(x - c, y - d, x - a, y - b) ELSE v.rect
  BY DEF Rotated, Rotations
<1> DEFINE o(f, k, m) == IF to = "cw" THEN Area(m - f.bottomY, f.topX, m - f.topY, f.bottomX)
                 ELSE IF to = "ccw" THEN Area(f.topY, k - f.bottomX, f.bottomY, k - f.topX)
                 ELSE IF to = "half" THEN Area(k - f.bottomX, m - f.bottomY, k - f.topX, m - f.topY)
                 ELSE f
<1>4. \A f, k, m : Unrotated(f, k, m, to) = o(f, k, m)
  BY DEF Unrotated, Rotations
<1> HIDE DEF r, z, a, b, c, d, x, y
<1>5. r \in Rects
  <2>1. CASE to = "cw"
    <3>1. x - c \in Int /\ x - a \in Int
      BY <1>1
    <3> QED
      BY <1>1, <1>3, <2>1, <3>1, RectArea
  <2>2. CASE to = "ccw"
    <3>1. y - d \in Int /\ y - b \in Int
      BY <1>1
    <3> QED
      BY <1>1, <1>3, <2>2, <3>1, RectArea
  <2>3. CASE to = "half"
    <3>1. x - c \in Int /\ x - a \in Int /\ y - d \in Int /\ y - b \in Int
      BY <1>1
    <3> QED
      BY <1>1, <1>3, <2>3, <3>1, RectArea
  <2>4. CASE to = "none"
    BY <1>3, <2>4 DEF GoodDevice, Decent
  <2> QED
    BY <2>1, <2>2, <2>3, <2>4 DEF Rotations
<1>6. o(r, z.x, z.y) = v.rect
  <2> USE DEF Area
  <2>1. CASE to = "cw"
    <3>1. x - (x - a) = a /\ x - (x - c) = c
      BY <1>1
    <3> QED
      BY <1>1, <1>2, <1>3, <2>1, <3>1
  <2>2. CASE to = "ccw"
    <3>1. y - (y - b) = b /\ y - (y - d) = d
      BY <1>1
    <3> QED
      BY <1>1, <1>2, <1>3, <2>2, <3>1
  <2>3. CASE to = "half"
    <3>1. x - (x - a) = a /\ x - (x - c) = c /\ y - (y - b) = b /\ y - (y - d) = d
      BY <1>1
    <3> QED
      BY <1>1, <1>2, <1>3, <2>3, <3>1
  <2>4. CASE to = "none"
    BY <1>3, <2>4
  <2> QED
    BY <2>1, <2>2, <2>3, <2>4 DEF Rotations
<1> HIDE DEF o
<1>7. Unrotated(r, z.x, z.y, to) = v.rect
  BY <1>4, <1>6
<1>8. Only(v, u, {"rect", "maxX", "maxY"}) /\ u.rect = r /\ u.maxX = z.x /\ u.maxY = z.y
  BY ZenonT(30) DEF Only, GoodDevice, Decent, IsDevice, HasFields, DeviceFields
<1> HIDE DEF u
<1>9. GoodDevice(u)
  <2>1. /\ u.absolute = v.absolute /\ u.axes = v.axes /\ u.twinview = v.twinview
        /\ u.tvResolution = v.tvResolution /\ u.tvoffset = v.tvoffset
    BY <1>8 DEF Only, DeviceFields
  <2>2. z.x \in Int /\ z.y \in Int
    BY <1>1, <1>2
  <2> QED
    BY <1>5, <1>8, <2>1, <2>2 DEF GoodDevice, Decent, Only, HasAxes, Twin
<1>10. /\ Only(u, w, AxisFields) /\ GoodDevice(w)
       /\ ~Twin(u) => w.axes = [x |-> AxisX(u), y |-> AxisY(u)]
  BY <1>9, BothRight
<1> HIDE DEF w
<1>11. /\ w.rect = u.rect /\ w.maxX = u.maxX /\ w.maxY = u.maxY /\ w.absolute = u.absolute
       /\ w.twinview = u.twinview
  BY <1>10 DEF Only, AxisFields, ViewFields, DeviceFields
<1>12. Right(w)
  BY <1>10, <1>11 DEF Right, Twin, AxisX, AxisY
<1>13. Only(v, w, {"rect", "maxX", "maxY"} \cup AxisFields)
  BY <1>8, <1>10, OnlyThen
<1>14. SurfaceOf(w, to) = [rect |-> v.rect, size |-> [x |-> x, y |-> y]]
  <2>1. SurfaceOf(w, to).rect = v.rect
    BY <1>7, <1>8, <1>11 DEF SurfaceOf
  <2>2. Turned(w, to) = [x |-> x, y |-> y]
    BY <1>2, <1>8, <1>11 DEF Turned, Turns
  <2> QED
    BY <2>1, <2>2 DEF SurfaceOf
<1>15. to = "none" => r = v.rect
  BY <1>3
<1> QED
  BY <1>8, <1>10, <1>11, <1>12, <1>13, <1>14, <1>15 DEF r, z, u, w, x, y

\* As the rectangle was before the tablet was turned.
LEMMA UnrotatedGood ==
    ASSUME NEW v, GoodDevice(v), NEW from \in Rotations
    PROVE  LET z == Turned(v, from)
               w == [v EXCEPT !.maxX = z.x, !.maxY = z.y,
                              !.rect = Unrotated(v.rect, v.maxX, v.maxY, from)]
           IN  /\ Only(v, w, {"rect", "maxX", "maxY"}) /\ GoodDevice(w)
               /\ [rect |-> w.rect, size |-> [x |-> w.maxX, y |-> w.maxY]] = SurfaceOf(v, from)
<1> DEFINE z == Turned(v, from)
           r == Unrotated(v.rect, v.maxX, v.maxY, from)
           w == [v EXCEPT !.maxX = z.x, !.maxY = z.y, !.rect = r]
           a == v.rect.topX  b == v.rect.topY  c == v.rect.bottomX  d == v.rect.bottomY
           x == v.maxX  y == v.maxY
<1>1. a \in Int /\ b \in Int /\ c \in Int /\ d \in Int /\ x \in Int /\ y \in Int
  BY RectSides DEF GoodDevice, Decent
<1>2. z = IF from \in {"cw", "ccw"} THEN [x |-> y, y |-> x] ELSE [x |-> x, y |-> y]
  BY DEF Turned, Turns
<1>3. r = IF from = "cw" THEN Area(y - d, a, y - b, c)
          ELSE IF from = "ccw" THEN Area(b, x - c, d, x - a)
          ELSE IF from = "half" THEN Area(x - c, y - d, x - a, y - b) ELSE v.rect
  BY DEF Unrotated, Rotations
<1>4. SurfaceOf(v, from) = [rect |-> r, size |-> z]
  BY DEF SurfaceOf
<1> HIDE DEF r, z, a, b, c, d, x, y
<1>5. z = [x |-> z.x, y |-> z.y] /\ z.x \in Int /\ z.y \in Int
  BY <1>1, <1>2
<1>6. r \in Rects
  <2>1. /\ y - d \in Int /\ y - b \in Int /\ x - c \in Int /\ x - a \in Int
    BY <1>1
  <2>2. Area(y - d, a, y - b, c) \in Rects
    BY <1>1, <2>1, RectArea
  <2>3. Area(b, x - c, d, x - a) \in Rects
    BY <1>1, <2>1, RectArea
  <2>4. Area(x - c, y - d, x - a, y - b) \in Rects
    BY <2>1, RectArea
  <2> QED
    BY <1>3, <2>2, <2>3, <2>4 DEF GoodDevice, Decent
<1>7. Only(v, w, {"rect", "maxX", "maxY"}) /\ w.rect = r /\ w.maxX = z.x /\ w.maxY = z.y
  BY ZenonT(30) DEF Only, GoodDevice, Decent, IsDevice, HasFields, DeviceFields
<1> HIDE DEF w
<1>8. GoodDevice(w)
  <2>1. /\ w.absolute = v.absolute /\ w.axes = v.axes /\ w.twinview = v.twinview
        /\ w.tvResolution = v.tvResolution /\ w.tvoffset = v.tvoffset
    BY <1>7 DEF Only, DeviceFields
  <2> QED
    BY <1>5, <1>6, <1>7, <2>1 DEF GoodDevice, Decent, Only, HasAxes, Twin
<1> QED
  BY <1>4, <1>5, <1>7, <1>8 DEF w, r, z

-----------------------------------------------------------------------------
(* Settings.                                                               *)

\* What a setting other than the rectangle changes of a device.
SettingFields ==
    ScreenFields \cup AxisFields
      \cup {"screen_no", "absolute", "wcmMMonitor", "twinview", "core"}

\* w is device v after a setting.
Setted(v, w) ==
    Only(v, w, SettingFields) /\ GoodDevice(w) /\ (Right(v) => Right(w))

\* The axes stay right when none of what they depend on changes.
LEMMA RightStays ==
    ASSUME NEW v, NEW w, NEW F, Only(v, w, F), F \cap ValueFields = {}, "type" \notin F
    PROVE  Right(v) => Right(w)
<1>1. "axes" \in DeviceFields \ F /\ "type" \in DeviceFields \ F
  BY DEF ValueFields, DeviceFields
<1>2. w.axes = v.axes /\ w.type = v.type
  BY <1>1 DEF Only
<1> QED
  BY <1>2, ValuesStay DEF Right, Twin, AxisX, AxisY

\* The mode is switched, and the axes with it.
LEMMA ModeSwitched ==
    ASSUME NEW v, GoodDevice(v), NEW b \in BOOLEAN, NEW p
    PROVE  LET w == BothCoordinates(MappingFactor([v EXCEPT !.absolute = b], p), p)
           IN  Setted(v, w) /\ w.rect = v.rect
<1> DEFINE u == [v EXCEPT !.absolute = b]
           m == MappingFactor(u, p)
           w == BothCoordinates(m, p)
<1>1. Only(v, u, {"absolute"}) /\ u.absolute = b
  BY DEF Only, GoodDevice, Decent, IsDevice, HasFields, DeviceFields
<1> HIDE DEF u
<1>2. GoodDevice(u)
  <2>1. /\ u.rect = v.rect /\ u.maxX = v.maxX /\ u.maxY = v.maxY /\ u.axes = v.axes
        /\ u.twinview = v.twinview /\ u.tvResolution = v.tvResolution /\ u.tvoffset = v.tvoffset
    BY <1>1 DEF Only, DeviceFields
  <2> QED
    BY <1>1, <2>1 DEF GoodDevice, Decent, Only, HasAxes, Twin
<1>3. Only(u, m, ViewFields)
  BY <1>2, MapsOnly DEF GoodDevice, Decent
<1> HIDE DEF m
<1>4. GoodDevice(m)
  <2>1. m.axes = u.axes
    BY <1>3 DEF Only, ViewFields, DeviceFields
  <2>2. HasAxes(m) /\ ViewFields \cap (ValueFields \ {"axes"}) = {}
    BY <1>2, <2>1 DEF HasAxes, GoodDevice, Decent, ViewFields, ValueFields
  <2> QED
    BY <1>2, <1>3, <2>2, GoodStays
<1>5. /\ Only(m, w, AxisFields) /\ GoodDevice(w)
      /\ ~Twin(m) => w.axes = [x |-> AxisX(m), y |-> AxisY(m)]
  BY <1>4, BothRight
<1> HIDE DEF w
<1>6. /\ w.rect = m.rect /\ w.maxX = m.maxX /\ w.maxY = m.maxY /\ w.absolute = m.absolute
      /\ w.twinview = m.twinview
  BY <1>5 DEF Only, AxisFields, ViewFields, DeviceFields
<1>7. Right(w)
  BY <1>5, <1>6 DEF Right, Twin, AxisX, AxisY
<1>8. Only(v, m, {"absolute"} \cup ViewFields)
  BY <1>1, <1>3, OnlyThen
<1>9. Only(v, w, ({"absolute"} \cup ViewFields) \cup AxisFields)
  BY <1>5, <1>8, OnlyThen
<1>10. ({"absolute"} \cup ViewFields) \cup AxisFields \subseteq SettingFields
  BY DEF SettingFields, AxisFields
<1>11. w.rect = v.rect
  BY <1>9 DEF Only, AxisFields, ViewFields, DeviceFields
<1> QED
  BY <1>5, <1>7, <1>9, <1>10, <1>11, OnlyMore DEF Setted, w, m, u

\* A pad that is told a mode takes the one its core flag calls for.
LEMMA PadSwitched ==
    ASSUME NEW v, GoodDevice(v), v.type = "pad"
    PROVE  LET w == [v EXCEPT !.absolute = PadMode(v)]
           IN  Setted(v, w) /\ w.rect = v.rect
<1> DEFINE b == PadMode(v)
           w == [v EXCEPT !.absolute = b]
<1>1. b \in BOOLEAN
  BY DEF PadMode
<1> HIDE DEF b
<1>2. Only(v, w, {"absolute"}) /\ w.absolute = b
  BY DEF Only, GoodDevice, Decent, IsDevice, HasFields, DeviceFields
<1> HIDE DEF w
<1>3. /\ w.rect = v.rect /\ w.maxX = v.maxX /\ w.maxY = v.maxY /\ w.axes = v.axes
      /\ w.twinview = v.twinview /\ w.tvResolution = v.tvResolution /\ w.tvoffset = v.tvoffset
      /\ w.type = v.type
  BY <1>2 DEF Only, DeviceFields
<1>4. GoodDevice(w) /\ Right(w)
  BY <1>1, <1>2, <1>3 DEF GoodDevice, Decent, Only, HasAxes, Twin, Right
<1>5. {"absolute"} \subseteq SettingFields
  BY DEF SettingFields
<1> QED
  BY <1>2, <1>3, <1>4, <1>5, OnlyMore DEF Setted, w, b

\* A field is set that neither values nor axes depend on.
LEMMA OtherSet ==
    ASSUME NEW v, GoodDevice(v), NEW w, NEW F, Only(v, w, F), F \cap ValueFields = {},
           "type" \notin F, F \subseteq SettingFields
    PROVE  Setted(v, w) /\ w.rect = v.rect
<1>1. F \cap (ValueFields \ {"axes"}) = {} /\ "axes" \in DeviceFields \ F
  BY DEF ValueFields, DeviceFields
<1>2. w.axes = v.axes
  BY <1>1 DEF Only
<1>3. GoodDevice(w) /\ w.rect = v.rect
  BY <1>1, <1>2, GoodStays, ValuesStay DEF GoodDevice, Decent, HasAxes
<1> QED
  BY <1>3, RightStays, OnlyMore DEF Setted

\* The option that binds a device to one monitor
LEMMA MonitorSet ==
    ASSUME NEW v, GoodDevice(v), NEW b, NEW p
    PROVE  LET w == MappingFactor([v EXCEPT !.wcmMMonitor = b], p)
           IN  Setted(v, w) /\ w.rect = v.rect
<1> DEFINE u == [v EXCEPT !.wcmMMonitor = b]
           w == MappingFactor(u, p)
<1>1. Only(v, u, {"wcmMMonitor"})
  BY DEF Only, GoodDevice, Decent, IsDevice, HasFields, DeviceFields
<1> HIDE DEF u
<1>2. Only(u, w, ViewFields)
  BY <1>1, MapsOnly DEF Only
<1> HIDE DEF w
<1>3. Only(v, w, {"wcmMMonitor"} \cup ViewFields)
  BY <1>1, <1>2, OnlyThen
<1>4. /\ ({"wcmMMonitor"} \cup ViewFields) \cap ValueFields = {}
      /\ "type" \notin {"wcmMMonitor"} \cup ViewFields
      /\ {"wcmMMonitor"} \cup ViewFields \subseteq SettingFields
  BY DEF ViewFields, ValueFields, SettingFields, AxisFields
<1> HIDE DEF u, w
<1>5. Setted(v, w) /\ w.rect = v.rect
  BY <1>3, <1>4, OtherSet
<1> QED
  BY <1>5 DEF u, w

\* The option that makes a device move the pointer
LEMMA CoreSet ==
    ASSUME NEW v, GoodDevice(v), NEW b
    PROVE  LET w == [v EXCEPT !.core = b] IN Setted(v, w) /\ w.rect = v.rect
<1> DEFINE w == [v EXCEPT !.core = b]
<1>1. Only(v, w, {"core"})
  BY DEF Only, GoodDevice, Decent, IsDevice, HasFields, DeviceFields
<1>2. {"core"} \cap ValueFields = {} /\ "type" \notin {"core"} /\ {"core"} \subseteq SettingFields
  BY DEF ValueFields, SettingFields
<1> HIDE DEF w
<1>3. Setted(v, w) /\ w.rect = v.rect
  BY <1>1, <1>2, OtherSet
<1> QED
  BY <1>3 DEF w

\* A screen, and what else may be given with it
LEMMA ScreenSet ==
    ASSUME NEW v, NEW u, Only(v, u, {"twinview", "currentScreen", "tvResolution"}), Decent(u),
           IsServer(screens), NEW n, NEW p
    PROVE  LET w == ChangeScreen(u, n, screens, p) IN Setted(v, w) /\ w.rect = v.rect
<1> DEFINE w == ChangeScreen(u, n, screens, p)
           F == ScreenFields \cup AxisFields \cup {"screen_no", "currentScreen"}
<1>1. Only(u, w, F) /\ GoodDevice(w) /\ Right(w)
  BY ScreenChanged
<1> HIDE DEF w
<1>2. Only(v, w, {"twinview", "currentScreen", "tvResolution"} \cup F)
  BY <1>1, OnlyThen
<1>3. {"twinview", "currentScreen", "tvResolution"} \cup F \subseteq SettingFields
  BY DEF SettingFields, ScreenFields, AxisFields, ViewFields
<1>4. Only(v, w, SettingFields)
  BY <1>2, <1>3, OnlyMore
<1>5. w.rect = v.rect
  BY <1>4 DEF Only, SettingFields, ScreenFields, AxisFields, ViewFields, DeviceFields
<1> QED
  BY <1>1, <1>4, <1>5 DEF Setted, w

\* The option that binds a device to a screen
LEMMA ScreenNoSet ==
    ASSUME NEW v, GoodDevice(v), IsServer(screens), NEW n, NEW p
    PROVE  LET w == ChangeScreen(v, n, screens, p) IN Setted(v, w) /\ w.rect = v.rect
<1>1. Only(v, v, {"twinview", "currentScreen", "tvResolution"}) /\ Decent(v)
  BY DEF Only, GoodDevice, Decent
<1> QED
  BY <1>1, ScreenSet

\* The option that says how the halves of a screen lie
LEMMA TwinViewSetGood ==
    ASSUME NEW v, GoodDevice(v), IsServer(screens), NEW t \in TwinViews
    PROVE  Setted(v, TwinViewSet(v, t)) /\ TwinViewSet(v, t).rect = v.rect
<1> DEFINE one == [v EXCEPT !.twinview = t, !.currentScreen = 0]
           any == [v EXCEPT !.twinview = t]
<1>1. /\ TwinViewSet(v, t) = ChangeScreen(one, -1, screens, pointer)
         \/ TwinViewSet(v, t) = ChangeScreen(any, v.screen_no, screens, pointer)
  BY DEF TwinViewSet
<1>2. /\ Only(v, one, {"twinview", "currentScreen"}) /\ one.twinview = t
      /\ Only(v, any, {"twinview", "currentScreen"}) /\ any.twinview = t
  BY DEF Only, GoodDevice, Decent, IsDevice, HasFields, DeviceFields
<1> HIDE DEF one, any
<1>3. ASSUME NEW u, Only(v, u, {"twinview", "currentScreen"}), u.twinview = t
      PROVE  Decent(u) /\ Only(v, u, {"twinview", "currentScreen", "tvResolution"})
  <2>1. /\ u.rect = v.rect /\ u.maxX = v.maxX /\ u.maxY = v.maxY /\ u.axes = v.axes
        /\ u.tvResolution = v.tvResolution /\ u.absolute = v.absolute
    BY <1>3 DEF Only, DeviceFields
  <2>2. Decent(u)
    BY <1>3, <2>1 DEF GoodDevice, Decent, Only, HasAxes
  <2>3. {"twinview", "currentScreen"} \subseteq {"twinview", "currentScreen", "tvResolution"}
    OBVIOUS
  <2> QED
    BY <1>3, <2>2, <2>3, OnlyMore
<1>4. CASE TwinViewSet(v, t) = ChangeScreen(one, -1, screens, pointer)
  <2>1. Decent(one) /\ Only(v, one, {"twinview", "currentScreen", "tvResolution"})
    BY <1>2, <1>3
  <2> QED
    BY <1>4, <2>1, ScreenSet
<1>5. CASE TwinViewSet(v, t) = ChangeScreen(any, v.screen_no, screens, pointer)
  <2>1. Decent(any) /\ Only(v, any, {"twinview", "currentScreen", "tvResolution"})
    BY <1>2, <1>3
  <2> QED
    BY <1>5, <2>1, ScreenSet
<1> QED
  BY <1>1, <1>4, <1>5

\* One half of the screen is given a resolution, and the other what is left.
LEMMA ResolvedGood ==
    ASSUME NEW v, Resolution(v.tvResolution), Twin(v), IsServer(screens), NEW n \in {0, 1},
           NEW wh \in Halves
    PROVE  Resolution(Resolved(v, n, wh[1], wh[2]))
<1> DEFINE W == Width(screens[1])
           H == Height(screens[1])
           r == v.tvResolution
<1>1. W \in Nat /\ H \in Nat /\ H > 1 /\ W > 1
  <2>1. 1 \in 1 .. Len(screens)
    <3>1. Len(screens) \in {1, 2}
      BY DEF IsServer
    <3>2. \A m \in {1, 2} : 1 \in 1 .. m
      OBVIOUS
    <3> QED
      BY <3>1, <3>2, Zenon
  <2> DEFINE s == screens[1]
  <2>2. /\ s.topX \in Nat /\ s.topY \in Nat /\ s.bottomX \in Nat /\ s.bottomY \in Nat
        /\ s.bottomX - s.topX > 1 /\ s.bottomY - s.topY > 1
    BY <2>1, ScreenOf
  <2>3. W = s.bottomX - s.topX /\ H = s.bottomY - s.topY
    BY DEF Width, Height
  <2> HIDE DEF s, W, H
  <2> QED
    BY <2>2, <2>3
<1>2. \A k \in Nat : k \div 4 \in Nat /\ k \div 4 <= k
  OBVIOUS
<1>3. wh[1] \in Nat /\ wh[1] <= W /\ wh[2] = H
  BY <1>1, <1>2 DEF Halves
<1>4. Resolved(v, n, wh[1], wh[2]) =
        IF v.twinview \in OneAbove
        THEN IF n = 0 THEN <<wh[1], H, r[3], H - H>> ELSE <<r[1], H - H, wh[1], H>>
        ELSE IF n = 0 THEN <<wh[1], H, W - wh[1], r[4]>> ELSE <<W - wh[1], r[2], wh[1], H>>
  BY <1>3 DEF Resolved
<1>5. r[1] \in Nat /\ r[2] \in Nat /\ r[3] \in Nat /\ r[4] \in Nat
  BY DEF Resolution
<1> HIDE DEF W, H, r
<1>6. H - H = 0 /\ W - wh[1] \in Nat
  BY <1>1, <1>3
<1> DEFINE x == wh[1]
           y == W - wh[1]
<1>7. x \in Nat /\ y \in Nat
  BY <1>3, <1>6
<1> HIDE DEF x, y
<1>8. Resolution(<<x, H, r[3], 0>>) /\ Resolution(<<r[1], 0, x, H>>)
  BY <1>1, <1>5, <1>7 DEF Resolution
<1>9. Resolution(<<x, H, y, r[4]>>) /\ Resolution(<<y, r[2], x, H>>)
  BY <1>1, <1>5, <1>7 DEF Resolution
<1> QED
  BY <1>4, <1>6, <1>8, <1>9 DEF x, y

\* The option that gives the resolution of a half
LEMMA ResolutionSet ==
    ASSUME NEW v, GoodDevice(v), Twin(v), IsServer(screens), NEW k \in {0, 1}, NEW wh \in Halves,
           NEW n
    PROVE  LET u == [v EXCEPT !.tvResolution = Resolved(v, k, wh[1], wh[2])]
               w == ChangeScreen(u, n, screens, pointer)
           IN  Setted(v, w) /\ w.rect = v.rect
<1> DEFINE r == Resolved(v, k, wh[1], wh[2])
           u == [v EXCEPT !.tvResolution = r]
<1>1. Resolution(r)
  BY ResolvedGood DEF GoodDevice, Decent
<1> HIDE DEF r
<1>2. Only(v, u, {"tvResolution"}) /\ u.tvResolution = r
  BY DEF Only, GoodDevice, Decent, IsDevice, HasFields, DeviceFields
<1> HIDE DEF u
<1>3. Decent(u)
  <2>1. /\ u.rect = v.rect /\ u.maxX = v.maxX /\ u.maxY = v.maxY /\ u.axes = v.axes
        /\ u.twinview = v.twinview /\ u.absolute = v.absolute
    BY <1>2 DEF Only, DeviceFields
  <2> QED
    BY <1>1, <1>2, <2>1 DEF GoodDevice, Decent, Only, HasAxes
<1>4. Only(v, u, {"twinview", "currentScreen", "tvResolution"})
  BY <1>2, OnlyMore
<1> QED
  BY <1>3, <1>4, ScreenSet DEF u, r

\* A tool is moved.
LEMMA MovedGood ==
    ASSUME NEW v, GoodDevice(v), NEW c, NEW v0, NEW v1, NEW server, NEW p
    PROVE  LET w == SetScreen(v, c, v0, v1, server, p).v
           IN  Setted(v, w) /\ w.rect = v.rect
<1> DEFINE F == ViewFields \cup {"screen_no"}
           k == IF v.screen_no >= v.numScreen THEN -1 ELSE v.screen_no
           d == [v EXCEPT !.screen_no = k]
           t == TwinScreen(d, v0)
           e == [d EXCEPT !.currentScreen = t]
           f == IF Twin(d) /\ d.screen_no = -1 /\ d.absolute THEN e ELSE d
           w == MappingFactor(f, p)
           to == ScreenAt(w, v0 - w.rect.topX, v1 - w.rect.topY)
           n == Least(to)
           g == [w EXCEPT !.currentScreen = n]
           x == MappingFactor(g, n)
<1>1. SetScreen(v, c, v0, v1, server, p).v \in {d, w, MappingFactor(g, p)}
  BY DEF SetScreen
<1> HIDE DEF k, t, n
<1>2. Only(v, d, F)
  BY DEF Only, GoodDevice, Decent, IsDevice, HasFields, DeviceFields
<1> HIDE DEF d
<1>3. Only(d, e, F)
  BY <1>2 DEF Only, IsDevice, HasFields, DeviceFields, ViewFields
<1>4. Only(v, e, F \cup F)
  BY <1>2, <1>3, OnlyThen
<1>5. Only(v, f, F) /\ IsDevice(f)
  <2>1. F \cup F = F
    OBVIOUS
  <2> QED
    BY <1>2, <1>4, <2>1 DEF Only
<1> HIDE DEF e, f
<1>6. Only(f, w, F) /\ IsDevice(w)
  BY <1>5, MapsOnly, OnlyMore DEF Only
<1>7. Only(v, w, F \cup F)
  BY <1>5, <1>6, OnlyThen
<1> HIDE DEF w
<1>8. Only(w, g, F) /\ IsDevice(g)
  BY <1>6 DEF Only, IsDevice, HasFields, DeviceFields, ViewFields
<1>9. Only(v, g, (F \cup F) \cup F)
  BY <1>7, <1>8, OnlyThen
<1> HIDE DEF g
<1>10. Only(g, MappingFactor(g, p), F)
  BY <1>8, MapsOnly, OnlyMore DEF Only
<1>11. Only(v, MappingFactor(g, p), ((F \cup F) \cup F) \cup F)
  BY <1>9, <1>10, OnlyThen
<1>12. ((F \cup F) \cup F) \cup F = F /\ F \cup F = F
  OBVIOUS
<1>13. Only(v, SetScreen(v, c, v0, v1, server, p).v, F)
  BY <1>1, <1>2, <1>7, <1>11, <1>12
<1>14. F \cap ValueFields = {} /\ "type" \notin F /\ F \subseteq SettingFields
  BY DEF ViewFields, ValueFields, SettingFields, AxisFields
<1> HIDE DEF F
<1> QED
  BY <1>13, <1>14, OtherSet

-----------------------------------------------------------------------------
(* The heap: what points to what.                                          *)

\* Two lists and what they list.
Linked(h) ==
    /\ \A s \in Sections : h.devs[s].live =>
         /\ h.devs[s].listed
         /\ h.devs[s].common \in Sections /\ h.devs[s].tool \in Sections
         /\ h.commons[h.devs[s].common].live
         /\ h.tools[h.devs[s].tool].live
         /\ h.devs[s].tool \in Elements(h.commons[h.devs[s].common].tools)
         /\ h.devs[s].toolarea =>
              /\ h.areas[s].live
              /\ s \in Elements(h.tools[h.devs[s].tool].areas)
              /\ s \in Elements(h.commons[h.devs[s].common].devices)
    /\ \A c \in Sections : h.commons[c].live =>
         /\ List(h.commons[c].devices) /\ List(h.commons[c].tools)
         /\ \A e \in Elements(h.commons[c].devices) : h.devs[e].live /\ h.devs[e].common = c
         /\ \A t \in Elements(h.commons[c].tools) :
              /\ h.tools[t].live
              /\ \A a \in Elements(h.tools[t].areas) : h.devs[a].common = c
    /\ \A t \in Sections : h.tools[t].live =>
         /\ List(h.tools[t].areas) /\ h.tools[t].areas # <<>>
         /\ \A a \in Elements(h.tools[t].areas) :
              h.devs[a].live /\ h.devs[a].toolarea /\ h.devs[a].tool = t

\* A heap that the driver keeps in order.
GoodHeap(h) == IsHeap(h) /\ Shapes(h) /\ Linked(h)

\* What links the records of a heap is in g as it is in h.
LinkFields == {"live", "listed", "common", "tool", "toolarea"}

\* From h to g no record comes or goes, and none is linked otherwise.
Kept(h, g) ==
    /\ IsHeap(g)
    /\ \A s \in Sections :
         /\ g.devs[s] = h.devs[s]
              \/ (h.devs[s].live /\ IsDevice(g.devs[s])
                  /\ \A f \in LinkFields : g.devs[s][f] = h.devs[s][f])
         /\ g.commons[s] = h.commons[s]
              \/ (h.commons[s].live /\ HasFields(g.commons[s], CommonFields)
                  /\ g.commons[s].live = h.commons[s].live
                  /\ g.commons[s].devices = h.commons[s].devices
                  /\ g.commons[s].tools = h.commons[s].tools)
         /\ g.tools[s] = h.tools[s]
              \/ (h.tools[s].live /\ HasFields(g.tools[s], ToolFields)
                  /\ g.tools[s].live = h.tools[s].live
                  /\ g.tools[s].areas = h.tools[s].areas)
         /\ g.areas[s] = h.areas[s]
              \/ (h.areas[s].live /\ HasFields(g.areas[s], AreaFields)
                  /\ g.areas[s].live = h.areas[s].live)

\* The links of every record
LEMMA KeptLinks ==
    ASSUME NEW h, NEW g, Kept(h, g), NEW s \in Sections
    PROVE  /\ g.devs[s].live = h.devs[s].live /\ g.devs[s].common = h.devs[s].common
           /\ g.devs[s].tool = h.devs[s].tool /\ g.devs[s].toolarea = h.devs[s].toolarea
           /\ g.devs[s].listed = h.devs[s].listed
           /\ g.commons[s].live = h.commons[s].live
           /\ g.commons[s].devices = h.commons[s].devices
           /\ g.commons[s].tools = h.commons[s].tools
           /\ g.tools[s].live = h.tools[s].live /\ g.tools[s].areas = h.tools[s].areas
           /\ g.areas[s].live = h.areas[s].live
<1>1. \A f \in LinkFields : g.devs[s][f] = h.devs[s][f]
  BY DEF Kept
<1>2. /\ g.devs[s].live = h.devs[s].live /\ g.devs[s].common = h.devs[s].common
      /\ g.devs[s].tool = h.devs[s].tool /\ g.devs[s].toolarea = h.devs[s].toolarea
      /\ g.devs[s].listed = h.devs[s].listed
  BY <1>1 DEF LinkFields
<1> QED
  BY <1>2 DEF Kept

\* The members of a list of sections are sections.
LEMMA ElementsIn ==
    ASSUME NEW q, List(q)
    PROVE  Elements(q) \subseteq Sections
  BY DEF List, Elements

\* A heap stays linked as it was when only what does not link changes.
LEMMA KeptGood ==
    ASSUME NEW h, NEW g, GoodHeap(h), Kept(h, g)
    PROVE  GoodHeap(g)
<1>1. IsHeap(g)
  BY DEF Kept
<1>2. Shapes(g)
  <2> SUFFICES ASSUME NEW s \in Sections
               PROVE  /\ g.devs[s] = Gone \/ (IsDevice(g.devs[s]) /\ g.devs[s].live = TRUE)
                      /\ g.commons[s] = Gone
                           \/ (HasFields(g.commons[s], CommonFields) /\ g.commons[s].live = TRUE)
                      /\ g.tools[s] = Gone
                           \/ (HasFields(g.tools[s], ToolFields) /\ g.tools[s].live = TRUE)
                      /\ g.areas[s] = Gone
                           \/ (HasFields(g.areas[s], AreaFields) /\ g.areas[s].live = TRUE)
    BY DEF Shapes
  <2>1. Gone.live = FALSE
    BY DEF Gone
  <2>2. /\ h.devs[s] = Gone \/ (IsDevice(h.devs[s]) /\ h.devs[s].live = TRUE)
        /\ h.commons[s] = Gone
             \/ (HasFields(h.commons[s], CommonFields) /\ h.commons[s].live = TRUE)
        /\ h.tools[s] = Gone \/ (HasFields(h.tools[s], ToolFields) /\ h.tools[s].live = TRUE)
        /\ h.areas[s] = Gone \/ (HasFields(h.areas[s], AreaFields) /\ h.areas[s].live = TRUE)
    BY DEF GoodHeap, Shapes
  <2>3. g.devs[s] = Gone \/ (IsDevice(g.devs[s]) /\ g.devs[s].live = TRUE)
    <3>1. g.devs[s] = h.devs[s] \/ (h.devs[s].live /\ IsDevice(g.devs[s]))
      BY DEF Kept
    <3>2. g.devs[s].live = h.devs[s].live
      BY KeptLinks
    <3>3. CASE h.devs[s] = Gone
      BY <2>1, <3>1, <3>3
    <3>4. CASE IsDevice(h.devs[s]) /\ h.devs[s].live = TRUE
      BY <3>1, <3>2, <3>4
    <3> QED
      BY <2>2, <3>3, <3>4
  <2>4. g.commons[s] = Gone \/ (HasFields(g.commons[s], CommonFields) /\ g.commons[s].live = TRUE)
    BY <2>1, <2>2, KeptLinks DEF Kept
  <2>5. g.tools[s] = Gone \/ (HasFields(g.tools[s], ToolFields) /\ g.tools[s].live = TRUE)
    BY <2>1, <2>2, KeptLinks DEF Kept
  <2>6. g.areas[s] = Gone \/ (HasFields(g.areas[s], AreaFields) /\ g.areas[s].live = TRUE)
    BY <2>1, <2>2, KeptLinks DEF Kept
  <2> QED
    BY <2>3, <2>4, <2>5, <2>6
<1>3. Linked(g)
  <2>0. Linked(h)
    BY DEF GoodHeap
  <2>k. \A s \in Sections :
          /\ g.devs[s].live = h.devs[s].live /\ g.devs[s].common = h.devs[s].common
          /\ g.devs[s].listed = h.devs[s].listed
          /\ g.devs[s].tool = h.devs[s].tool /\ g.devs[s].toolarea = h.devs[s].toolarea
          /\ g.commons[s].live = h.commons[s].live
          /\ g.commons[s].devices = h.commons[s].devices
          /\ g.commons[s].tools = h.commons[s].tools
          /\ g.tools[s].live = h.tools[s].live /\ g.tools[s].areas = h.tools[s].areas
          /\ g.areas[s].live = h.areas[s].live
    BY KeptLinks
  <2>1. ASSUME NEW s \in Sections, g.devs[s].live
        PROVE  /\ g.devs[s].listed
               /\ g.devs[s].common \in Sections /\ g.devs[s].tool \in Sections
               /\ g.commons[g.devs[s].common].live
               /\ g.tools[g.devs[s].tool].live
               /\ g.devs[s].tool \in Elements(g.commons[g.devs[s].common].tools)
               /\ g.devs[s].toolarea =>
                    /\ g.areas[s].live
                    /\ s \in Elements(g.tools[g.devs[s].tool].areas)
                    /\ s \in Elements(g.commons[g.devs[s].common].devices)
    <3> DEFINE u == h.devs[s].tool
               b == h.devs[s].common
    <3>1. h.devs[s].live
      BY <2>1, <2>k
    <3>2. /\ h.devs[s].listed
          /\ u \in Sections /\ b \in Sections /\ h.commons[b].live /\ h.tools[u].live
          /\ u \in Elements(h.commons[b].tools)
          /\ h.devs[s].toolarea =>
               h.areas[s].live /\ s \in Elements(h.tools[u].areas)
               /\ s \in Elements(h.commons[b].devices)
      BY <2>0, <3>1 DEF Linked
    <3>3. /\ g.devs[s].common = b /\ g.devs[s].tool = u
          /\ g.devs[s].toolarea = h.devs[s].toolarea /\ g.devs[s].listed = h.devs[s].listed
          /\ g.areas[s].live = h.areas[s].live
      BY <2>k
    <3> HIDE DEF u, b
    <3>4. /\ g.commons[b].live = h.commons[b].live /\ g.tools[u].live = h.tools[u].live
          /\ g.commons[b].tools = h.commons[b].tools /\ g.tools[u].areas = h.tools[u].areas
          /\ g.commons[b].devices = h.commons[b].devices
      BY <2>k, <3>2
    <3> QED
      BY <3>2, <3>3, <3>4
  <2>2. ASSUME NEW c \in Sections, g.commons[c].live
        PROVE  /\ List(g.commons[c].devices) /\ List(g.commons[c].tools)
               /\ \A e \in Elements(g.commons[c].devices) : g.devs[e].live /\ g.devs[e].common = c
               /\ \A t \in Elements(g.commons[c].tools) :
                    /\ g.tools[t].live
                    /\ \A a \in Elements(g.tools[t].areas) : g.devs[a].common = c
    <3>1. List(h.commons[c].devices) /\ List(h.commons[c].tools)
      BY <2>0, <2>2, <2>k DEF Linked
    <3>2. \A e \in Elements(h.commons[c].devices) :
            e \in Sections /\ h.devs[e].live /\ h.devs[e].common = c
      BY <2>0, <2>2, <2>k, <3>1, ElementsIn DEF Linked
    <3>3. \A t \in Elements(h.commons[c].tools) :
            t \in Sections /\ h.tools[t].live /\ List(h.tools[t].areas)
      BY <2>0, <2>2, <2>k, <3>1, ElementsIn DEF Linked
    <3>4. \A t \in Elements(h.commons[c].tools) : \A a \in Elements(h.tools[t].areas) :
            a \in Sections /\ h.devs[a].common = c
      BY <2>0, <2>2, <2>k, <3>3, ElementsIn DEF Linked
    <3> QED
      BY <2>k, <3>1, <3>2, <3>3, <3>4
  <2>3. ASSUME NEW t \in Sections, g.tools[t].live
        PROVE  /\ List(g.tools[t].areas) /\ g.tools[t].areas # <<>>
               /\ \A a \in Elements(g.tools[t].areas) :
                    g.devs[a].live /\ g.devs[a].toolarea /\ g.devs[a].tool = t
    <3>1. List(h.tools[t].areas) /\ h.tools[t].areas # <<>>
      BY <2>0, <2>3, <2>k DEF Linked
    <3>2. \A a \in Elements(h.tools[t].areas) :
            a \in Sections /\ h.devs[a].live /\ h.devs[a].toolarea /\ h.devs[a].tool = t
      BY <2>0, <2>3, <2>k, <3>1, ElementsIn DEF Linked
    <3> QED
      BY <2>k, <3>1, <3>2
  <2> QED
    BY <2>1, <2>2, <2>3 DEF Linked
<1> QED
  BY <1>1, <1>2, <1>3 DEF GoodHeap

\* Changes that keep the links, one after the other.
LEMMA KeptThen ==
    ASSUME NEW h, NEW g, NEW k, Kept(h, g), Kept(g, k)
    PROVE  Kept(h, k)
<1> SUFFICES ASSUME NEW s \in Sections
             PROVE  /\ k.devs[s] = h.devs[s]
                         \/ (h.devs[s].live /\ IsDevice(k.devs[s])
                             /\ \A f \in LinkFields : k.devs[s][f] = h.devs[s][f])
                    /\ k.commons[s] = h.commons[s]
                         \/ (h.commons[s].live /\ HasFields(k.commons[s], CommonFields)
                             /\ k.commons[s].live = h.commons[s].live
                             /\ k.commons[s].devices = h.commons[s].devices
                             /\ k.commons[s].tools = h.commons[s].tools)
                    /\ k.tools[s] = h.tools[s]
                         \/ (h.tools[s].live /\ HasFields(k.tools[s], ToolFields)
                             /\ k.tools[s].live = h.tools[s].live
                             /\ k.tools[s].areas = h.tools[s].areas)
                    /\ k.areas[s] = h.areas[s]
                         \/ (h.areas[s].live /\ HasFields(k.areas[s], AreaFields)
                             /\ k.areas[s].live = h.areas[s].live)
  BY DEF Kept
<1>1. /\ g.devs[s].live = h.devs[s].live /\ g.commons[s].live = h.commons[s].live
      /\ g.tools[s].live = h.tools[s].live /\ g.areas[s].live = h.areas[s].live
  BY KeptLinks
<1>2. k.devs[s] = h.devs[s]
        \/ (h.devs[s].live /\ IsDevice(k.devs[s])
            /\ \A f \in LinkFields : k.devs[s][f] = h.devs[s][f])
  BY <1>1 DEF Kept
<1>3. k.commons[s] = h.commons[s]
        \/ (h.commons[s].live /\ HasFields(k.commons[s], CommonFields)
            /\ k.commons[s].live = h.commons[s].live
            /\ k.commons[s].devices = h.commons[s].devices
            /\ k.commons[s].tools = h.commons[s].tools)
  BY <1>1 DEF Kept
<1>4. k.tools[s] = h.tools[s]
        \/ (h.tools[s].live /\ HasFields(k.tools[s], ToolFields)
            /\ k.tools[s].live = h.tools[s].live /\ k.tools[s].areas = h.tools[s].areas)
  BY <1>1 DEF Kept
<1>5. k.areas[s] = h.areas[s]
        \/ (h.areas[s].live /\ HasFields(k.areas[s], AreaFields)
            /\ k.areas[s].live = h.areas[s].live)
  BY <1>1 DEF Kept
<1> QED
  BY <1>2, <1>3, <1>4, <1>5

\* The heap with one record, or one rectangle, written
WithDev(h, s, w) == [h EXCEPT !.devs[s] = w]
WithArea(h, s, a) == [h EXCEPT !.areas[s] = a]
WithCommon(h, c, w) == [h EXCEPT !.commons[c] = w]
WithRect(h, s, r) == [h EXCEPT !.areas[s].rect = r]

\* w may take the place of device v.
Fits(v, w) == Only(v, w, DeviceFields \ LinkFields) /\ GoodDevice(w)

\* Who keeps the links and is good fits.
LEMMA FitsWhen ==
    ASSUME NEW v, NEW w, NEW F, Only(v, w, F), F \cap LinkFields = {}, GoodDevice(w)
    PROVE  Fits(v, w)
  BY DEF Fits, Only

\* One device is written and the rest of the heap is as before;
LEMMA DevPut ==
    ASSUME NEW h, IsHeap(h), NEW s \in Sections, NEW w
    PROVE  LET g == WithDev(h, s, w)
           IN  /\ IsHeap(g) /\ g.devs[s] = w
               /\ \A e \in Sections : e # s => g.devs[e] = h.devs[e]
               /\ g.commons = h.commons /\ g.tools = h.tools /\ g.areas = h.areas
  BY DEF IsHeap, OnSections, WithDev

\* so with one area,
LEMMA AreaPut ==
    ASSUME NEW h, IsHeap(h), NEW s \in Sections, NEW w
    PROVE  LET g == WithArea(h, s, w)
           IN  /\ IsHeap(g) /\ g.areas[s] = w
               /\ \A e \in Sections : e # s => g.areas[e] = h.areas[e]
               /\ g.commons = h.commons /\ g.tools = h.tools /\ g.devs = h.devs
  BY DEF IsHeap, OnSections, WithArea

\* and with one tablet.
LEMMA CommonPut ==
    ASSUME NEW h, IsHeap(h), NEW s \in Sections, NEW w
    PROVE  LET g == WithCommon(h, s, w)
           IN  /\ IsHeap(g) /\ g.commons[s] = w
               /\ \A e \in Sections : e # s => g.commons[e] = h.commons[e]
               /\ g.devs = h.devs /\ g.tools = h.tools /\ g.areas = h.areas
  BY DEF IsHeap, OnSections, WithCommon

\* A fitting device in the place of another keeps the links,
LEMMA DevKept ==
    ASSUME NEW h, IsHeap(h), NEW s \in Sections, h.devs[s].live,
           NEW w, Fits(h.devs[s], w)
    PROVE  Kept(h, WithDev(h, s, w))
<1> DEFINE g == WithDev(h, s, w)
<1>1. /\ IsHeap(g) /\ g.devs[s] = w
      /\ \A e \in Sections : e # s => g.devs[e] = h.devs[e]
      /\ g.commons = h.commons /\ g.tools = h.tools /\ g.areas = h.areas
  BY DevPut
<1> HIDE DEF g
<1>2. \A f \in LinkFields : w[f] = h.devs[s][f]
  <2>1. \A f \in LinkFields : f \in DeviceFields \ (DeviceFields \ LinkFields)
    BY DEF LinkFields, DeviceFields
  <2> QED
    BY <2>1 DEF Only, Fits
<1>3. IsDevice(w)
  BY DEF Only, Fits
<1> QED
  BY <1>1, <1>2, <1>3 DEF Kept, g

\* another rectangle in an area keeps them,
LEMMA AreaKept ==
    ASSUME NEW h, GoodHeap(h), NEW s \in Sections, h.areas[s].live, NEW r
    PROVE  LET g == WithRect(h, s, r)
           IN  /\ Kept(h, g) /\ g.areas[s].rect = r
               /\ \A e \in Sections : e # s => g.areas[e] = h.areas[e]
               /\ g.commons = h.commons /\ g.tools = h.tools /\ g.devs = h.devs
<1> DEFINE a == [h.areas[s] EXCEPT !.rect = r]
           g == WithArea(h, s, a)
<1>1. IsHeap(h)
  BY DEF GoodHeap
<1>2. WithRect(h, s, r) = g
  BY <1>1 DEF IsHeap, OnSections, WithArea, WithRect
<1>3. HasFields(h.areas[s], AreaFields)
  BY DEF GoodHeap, Shapes, Gone
<1>4. HasFields(a, AreaFields) /\ a.live = h.areas[s].live /\ a.rect = r
  BY <1>3 DEF HasFields, AreaFields
<1> HIDE DEF a
<1>5. /\ IsHeap(g) /\ g.areas[s] = a
      /\ \A e \in Sections : e # s => g.areas[e] = h.areas[e]
      /\ g.commons = h.commons /\ g.tools = h.tools /\ g.devs = h.devs
  BY <1>1, AreaPut
<1> HIDE DEF g
<1>6. Kept(h, g)
  BY <1>4, <1>5 DEF Kept
<1> QED
  BY <1>2, <1>4, <1>5, <1>6

\* and so do a tablet's own values.
LEMMA CommonKept ==
    ASSUME NEW h, GoodHeap(h), NEW c \in Sections, h.commons[c].live, NEW w,
           HasFields(w, CommonFields), w.live = h.commons[c].live,
           w.devices = h.commons[c].devices, w.tools = h.commons[c].tools
    PROVE  Kept(h, WithCommon(h, c, w))
<1> DEFINE g == WithCommon(h, c, w)
<1>1. IsHeap(h)
  BY DEF GoodHeap
<1>2. /\ IsHeap(g) /\ g.commons[c] = w
      /\ \A e \in Sections : e # c => g.commons[e] = h.commons[e]
      /\ g.devs = h.devs /\ g.tools = h.tools /\ g.areas = h.areas
  BY <1>1, CommonPut
<1> HIDE DEF g
<1> QED
  BY <1>2 DEF Kept, g

-----------------------------------------------------------------------------
(* Removing a device.                                                      *)

\* Nobody else has the tool of device s of heap h.
Alone(h, s) == \A e \in Sections \ {s} : h.devs[e].live => h.devs[e].tool # h.devs[s].tool

\* Only the device has an area of a tool that nobody shares.
LEMMA AloneHasArea ==
    ASSUME NEW h, GoodHeap(h), NEW s \in Sections, h.devs[s].live, Alone(h, s)
    PROVE  /\ Elements(h.tools[h.devs[s].tool].areas) = {s}
           /\ h.devs[s].toolarea
<1> DEFINE t == h.devs[s].tool
           q == h.tools[t].areas
<1>1. t \in Sections /\ h.tools[t].live
  BY DEF GoodHeap, Linked
<1>2. List(q) /\ q # <<>> /\ \A a \in Elements(q) :
        h.devs[a].live /\ h.devs[a].toolarea /\ h.devs[a].tool = t
  BY <1>1 DEF GoodHeap, Linked
<1>3. Elements(q) \subseteq Sections
  BY <1>2, ElementsIn
<1>4. \A a \in Elements(q) : a = s
  BY <1>2, <1>3 DEF Alone
<1>5. \E a \in Elements(q) : TRUE
  <2> HIDE DEF q
  <2>1. q \in Seq(Sections) /\ q # <<>>
    BY <1>2 DEF List
  <2>2. 1 \in DOMAIN q
    BY <2>1
  <2> QED
    BY <2>2 DEF Elements
<1> QED
  BY <1>2, <1>4, <1>5

\* xf86WcmUninit: what is freed, and what stays
LEMMA RemovedAre ==
    ASSUME NEW h, GoodHeap(h), NEW s \in Sections, h.devs[s].live, Alone(h, s)
    PROVE  LET t == h.devs[s].tool
               c == h.devs[s].common
               g == CommonFreed(DeviceFreed(ToolFreed(AreaFreed(h, s), s), s), c)
           IN  /\ IsHeap(g)
               /\ g.devs[s] = Gone /\ \A e \in Sections \ {s} : g.devs[e] = h.devs[e]
               /\ g.areas[s] = Gone /\ \A e \in Sections \ {s} : g.areas[e] = h.areas[e]
               /\ g.tools[t] = Gone /\ \A e \in Sections \ {t} : g.tools[e] = h.tools[e]
               /\ \A e \in Sections \ {c} : g.commons[e] = h.commons[e]
               /\ IF Without(h.commons[c].devices, s) = <<>> THEN g.commons[c] = Gone
                  ELSE g.commons[c] =
                         [h.commons[c] EXCEPT !.tools = Without(@, t), !.devices = Without(@, s)]
<1> DEFINE t == h.devs[s].tool
           c == h.devs[s].common
           h1 == AreaFreed(h, s)
           h2 == ToolFreed(h1, s)
           h3 == DeviceFreed(h2, s)
           g == CommonFreed(h3, c)
           q == Without(h.tools[t].areas, s)
           p == Without(h.commons[c].tools, t)
           d == Without(h.commons[c].devices, s)
<1>1. IsHeap(h) /\ t \in Sections /\ c \in Sections /\ h.devs[s].toolarea
      /\ h.commons[c].live /\ h.tools[t].live /\ Gone.live = FALSE
  BY AloneHasArea DEF GoodHeap, Linked, Gone
<1>2. HasFields(h.commons[c], CommonFields) /\ HasFields(h.tools[t], ToolFields)
  BY <1>1 DEF GoodHeap, Shapes
<1>3. h1 = [h EXCEPT !.tools[t].areas = q, !.areas[s] = Gone]
  BY <1>1 DEF AreaFreed, IsHeap, OnSections, HasFields
<1> HIDE DEF t, c, h1, q, p, d
<1>4. /\ IsHeap(h1) /\ h1.devs = h.devs /\ h1.commons = h.commons
      /\ h1.areas[s] = Gone /\ \A e \in Sections \ {s} : h1.areas[e] = h.areas[e]
      /\ \A e \in Sections \ {t} : h1.tools[e] = h.tools[e]
  BY <1>1, <1>3 DEF IsHeap, OnSections
<1>5. h1.devs[s].tool = t /\ h1.devs[s].common = c
  BY <1>4 DEF t, c
<1>6. h2 = [h1 EXCEPT !.commons[c].tools = p, !.tools[t] = Gone]
  BY <1>1, <1>2, <1>4, <1>5 DEF ToolFreed, IsHeap, OnSections, p
<1> HIDE DEF h2
<1>7. /\ IsHeap(h2) /\ h2.devs = h.devs /\ h2.areas = h1.areas
      /\ h2.tools[t] = Gone /\ \A e \in Sections \ {t} : h2.tools[e] = h.tools[e]
      /\ \A e \in Sections \ {c} : h2.commons[e] = h.commons[e]
      /\ h2.commons[c] = [h.commons[c] EXCEPT !.tools = p]
  BY ZenonT(30), <1>1, <1>4, <1>6 DEF IsHeap, OnSections
<1>8. h2.devs[s].common = c /\ h2.commons[c].devices = h.commons[c].devices
  <2>1. h2.devs[s].common = c
    BY <1>7 DEF c
  <2>2. [h.commons[c] EXCEPT !.tools = p].devices = h.commons[c].devices
    BY <1>2 DEF HasFields, CommonFields
  <2> QED
    BY <1>7, <2>1, <2>2
<1>9. h3 = [h2 EXCEPT !.commons[c].devices = d, !.devs[s] = Gone]
  BY <1>1, <1>2, <1>7, <1>8 DEF DeviceFreed, IsHeap, OnSections, d
<1> HIDE DEF h3
<1>10. /\ IsHeap(h3) /\ h3.areas = h1.areas /\ h3.tools = h2.tools
       /\ h3.devs[s] = Gone /\ \A e \in Sections \ {s} : h3.devs[e] = h.devs[e]
       /\ \A e \in Sections \ {c} : h3.commons[e] = h.commons[e]
       /\ h3.commons[c] = [h.commons[c] EXCEPT !.tools = p, !.devices = d]
  BY <1>1, <1>7, <1>9 DEF IsHeap, OnSections
<1>11. h3.commons[c].devices = d
  <2>1. [h.commons[c] EXCEPT !.tools = p, !.devices = d].devices = d
    BY <1>2 DEF HasFields, CommonFields
  <2> QED
    BY <1>10, <2>1
<1>a. SUFFICES /\ IsHeap(g)
               /\ g.devs[s] = Gone /\ \A e \in Sections \ {s} : g.devs[e] = h.devs[e]
               /\ g.areas[s] = Gone /\ \A e \in Sections \ {s} : g.areas[e] = h.areas[e]
               /\ g.tools[t] = Gone /\ \A e \in Sections \ {t} : g.tools[e] = h.tools[e]
               /\ \A e \in Sections \ {c} : g.commons[e] = h.commons[e]
               /\ d = <<>> => g.commons[c] = Gone
               /\ d # <<>> =>
                    g.commons[c] = [h.commons[c] EXCEPT !.tools = p, !.devices = d]
  BY DEF g, h1, h2, h3, t, c, p, d
<1>12. CASE d = <<>>
  <2>1. g = [h3 EXCEPT !.commons[c] = Gone]
    BY <1>11, <1>12 DEF CommonFreed
  <2> HIDE DEF g
  <2>2. /\ IsHeap(g) /\ g.devs = h3.devs /\ g.areas = h3.areas /\ g.tools = h3.tools
        /\ g.commons[c] = Gone /\ \A e \in Sections \ {c} : g.commons[e] = h3.commons[e]
    BY <1>1, <1>10, <2>1 DEF IsHeap, OnSections
  <2> QED
    BY <1>4, <1>7, <1>10, <1>12, <2>2
<1>13. CASE d # <<>>
  <2>1. g = h3
    BY SMTT(15), <1>11, <1>13 DEF CommonFreed
  <2> HIDE DEF g
  <2> QED
    BY <1>4, <1>7, <1>10, <1>13, <2>1
<1> QED
  BY <1>12, <1>13

\* A device that shares nothing leaves the heap sound behind when it is removed.
LEMMA RemovedGood ==
    ASSUME NEW h, GoodHeap(h), NEW s \in Sections, h.devs[s].live, Alone(h, s),
           NEW g, g = CommonFreed(DeviceFreed(ToolFreed(AreaFreed(h, s), s), s), h.devs[s].common)
    PROVE  /\ GoodHeap(g)
           /\ g.devs[s] = Gone /\ \A e \in Sections \ {s} : g.devs[e] = h.devs[e]
           /\ \A e \in Sections \ {s} : g.areas[e] = h.areas[e]
           /\ \A e \in Sections : g.commons[e].live =>
                h.commons[e].live /\ g.commons[e].rotate = h.commons[e].rotate
                /\ g.commons[e].min_maj = h.commons[e].min_maj
<1> DEFINE t == h.devs[s].tool
           c == h.devs[s].common
           d == Without(h.commons[c].devices, s)
           p == Without(h.commons[c].tools, t)
           w == [h.commons[c] EXCEPT !.tools = p, !.devices = d]
<1> DEFINE k == CommonFreed(DeviceFreed(ToolFreed(AreaFreed(h, s), s), s), c)
<1>0. /\ IsHeap(k)
      /\ k.devs[s] = Gone /\ \A e \in Sections \ {s} : k.devs[e] = h.devs[e]
      /\ k.areas[s] = Gone /\ \A e \in Sections \ {s} : k.areas[e] = h.areas[e]
      /\ k.tools[t] = Gone /\ \A e \in Sections \ {t} : k.tools[e] = h.tools[e]
      /\ \A e \in Sections \ {c} : k.commons[e] = h.commons[e]
      /\ IF d = <<>> THEN k.commons[c] = Gone ELSE k.commons[c] = w
  BY ZenonT(30), RemovedAre
<1>k. g = k
  OBVIOUS
<1> HIDE DEF k
<1>1. /\ IsHeap(g)
      /\ g.devs[s] = Gone /\ \A e \in Sections \ {s} : g.devs[e] = h.devs[e]
      /\ g.areas[s] = Gone /\ \A e \in Sections \ {s} : g.areas[e] = h.areas[e]
      /\ g.tools[t] = Gone /\ \A e \in Sections \ {t} : g.tools[e] = h.tools[e]
      /\ \A e \in Sections \ {c} : g.commons[e] = h.commons[e]
      /\ IF d = <<>> THEN g.commons[c] = Gone ELSE g.commons[c] = w
  BY <1>0, <1>k
<1>2. t \in Sections /\ c \in Sections /\ h.commons[c].live /\ h.tools[t].live
      /\ t \in Elements(h.commons[c].tools) /\ Gone.live = FALSE
  BY DEF GoodHeap, Linked, Gone
<1>3. Shapes(h) /\ Linked(h) /\ HasFields(h.commons[c], CommonFields)
  BY <1>2 DEF GoodHeap, Shapes
<1>4. Elements(h.tools[t].areas) = {s} /\ h.devs[s].toolarea
  BY AloneHasArea
<1>5. List(h.commons[c].devices) /\ List(h.commons[c].tools)
  BY ZenonT(30), <1>2, <1>3 DEF Linked
<1>6. /\ List(d) /\ Elements(d) = Elements(h.commons[c].devices) \ {s}
      /\ List(p) /\ Elements(p) = Elements(h.commons[c].tools) \ {t}
  BY <1>5, Unlinked
<1>7. \A e \in Sections \ {s} : h.devs[e].live => h.devs[e].tool # t
  BY DEF Alone
<1> HIDE DEF t, c, d, p
<1>8. /\ HasFields(w, CommonFields) /\ w.live = h.commons[c].live /\ w.tools = p /\ w.devices = d
      /\ w.rotate = h.commons[c].rotate /\ w.min_maj = h.commons[c].min_maj
  BY <1>3 DEF HasFields, CommonFields
<1> HIDE DEF w
<1>9. Shapes(g)
  <2> SUFFICES ASSUME NEW e \in Sections
               PROVE  /\ g.devs[e] = Gone \/ (IsDevice(g.devs[e]) /\ g.devs[e].live = TRUE)
                      /\ g.commons[e] = Gone
                           \/ (HasFields(g.commons[e], CommonFields) /\ g.commons[e].live = TRUE)
                      /\ g.tools[e] = Gone
                           \/ (HasFields(g.tools[e], ToolFields) /\ g.tools[e].live = TRUE)
                      /\ g.areas[e] = Gone
                           \/ (HasFields(g.areas[e], AreaFields) /\ g.areas[e].live = TRUE)
    BY DEF Shapes
  <2>1. /\ h.devs[e] = Gone \/ (IsDevice(h.devs[e]) /\ h.devs[e].live = TRUE)
        /\ h.commons[e] = Gone
             \/ (HasFields(h.commons[e], CommonFields) /\ h.commons[e].live = TRUE)
        /\ h.tools[e] = Gone \/ (HasFields(h.tools[e], ToolFields) /\ h.tools[e].live = TRUE)
        /\ h.areas[e] = Gone \/ (HasFields(h.areas[e], AreaFields) /\ h.areas[e].live = TRUE)
    BY <1>3 DEF Shapes
  <2>2. h.commons[c].live = TRUE
    BY <1>2, <1>3 DEF Shapes
  <2> QED
    BY SMTT(20), <1>1, <1>8, <2>1, <2>2
<1>10. Linked(g)
  <2>1. ASSUME NEW e \in Sections, g.devs[e].live
        PROVE  /\ g.devs[e].listed
               /\ g.devs[e].common \in Sections /\ g.devs[e].tool \in Sections
               /\ g.commons[g.devs[e].common].live
               /\ g.tools[g.devs[e].tool].live
               /\ g.devs[e].tool \in Elements(g.commons[g.devs[e].common].tools)
               /\ g.devs[e].toolarea =>
                    /\ g.areas[e].live
                    /\ e \in Elements(g.tools[g.devs[e].tool].areas)
                    /\ e \in Elements(g.commons[g.devs[e].common].devices)
    <3> DEFINE u == h.devs[e].tool
               b == h.devs[e].common
    <3>1. e # s /\ g.devs[e] = h.devs[e]
      BY <1>1, <1>2, <2>1
    <3>0. h.devs[e].live
      BY <2>1, <3>1
    <3>2. /\ h.devs[e].listed
          /\ u \in Sections /\ b \in Sections /\ h.commons[b].live /\ h.tools[u].live
          /\ u \in Elements(h.commons[b].tools)
          /\ h.devs[e].toolarea =>
               h.areas[e].live /\ e \in Elements(h.tools[u].areas)
               /\ e \in Elements(h.commons[b].devices)
      BY <1>3, <3>0 DEF Linked
    <3>3. u # t
      BY <1>7, <2>1, <3>1
    <3>4. g.tools[u] = h.tools[u] /\ g.areas[e] = h.areas[e]
      BY <1>1, <3>1, <3>2, <3>3
    <3>b. /\ g.devs[e].common = b /\ g.devs[e].tool = u
          /\ g.devs[e].toolarea = h.devs[e].toolarea /\ g.devs[e].listed
      BY <3>1, <3>2
    <3>5. CASE b # c
      <4>1. g.commons[b] = h.commons[b]
        BY <1>1, <3>2, <3>5
      <4> HIDE DEF u, b
      <4> QED
        BY <3>b, <3>2, <3>4, <4>1
    <3>6. CASE b = c
      <4>1. d # <<>>
        <5>1. List(h.tools[u].areas) /\ h.tools[u].areas # <<>>
              /\ \A a \in Elements(h.tools[u].areas) :
                   h.devs[a].live /\ h.devs[a].toolarea /\ h.devs[a].tool = u
          BY <1>3, <3>2 DEF Linked
        <5>2. PICK a \in Elements(h.tools[u].areas) : TRUE
          <6> DEFINE q == h.tools[u].areas
          <6>1. q \in Seq(Sections) /\ q # <<>>
            BY <5>1 DEF List
          <6> HIDE DEF q
          <6>2. 1 \in DOMAIN q
            BY <6>1
          <6>3. q[1] \in Elements(q)
            BY <6>2 DEF Elements
          <6> QED
            BY <6>3 DEF q
        <5>3. a \in Sections /\ h.devs[a].live /\ h.devs[a].toolarea /\ h.devs[a].tool = u
          BY <5>1, <5>2, ElementsIn
        <5>4. h.devs[a].common = c
          <6>1. \A v \in Elements(h.commons[b].tools) :
                  \A i \in Elements(h.tools[v].areas) : h.devs[i].common = b
            <7>1. b \in Sections /\ h.commons[b].live /\ Linked(h)
              BY <1>3, <3>2
            <7> HIDE DEF b
            <7> QED
              BY <7>1 DEF Linked
          <6> HIDE DEF u, b
          <6> QED
            BY SMTT(15), <3>2, <3>6, <5>2, <6>1
        <5>5. a \in Elements(h.commons[c].devices)
          BY <1>3, <5>3, <5>4 DEF Linked
        <5>6. a # s
          BY <3>3, <5>3 DEF t
        <5>7. a \in Elements(d)
          BY <1>6, <5>5, <5>6
        <5> QED
          BY <5>7 DEF Elements
      <4>2. g.commons[c] = w
        BY <1>1, <4>1
      <4>3. u \in Elements(w.tools)
        BY <1>6, <1>8, <3>2, <3>3, <3>6
      <4>4. h.devs[e].toolarea => e \in Elements(w.devices)
        BY <1>6, <1>8, <3>1, <3>2, <3>6
      <4> QED
        BY <1>2, <1>8, <3>1, <3>2, <3>4, <3>6, <4>2, <4>3, <4>4
    <3> QED
      BY <3>5, <3>6
  <2>2. ASSUME NEW b \in Sections, g.commons[b].live
        PROVE  /\ List(g.commons[b].devices) /\ List(g.commons[b].tools)
               /\ \A e \in Elements(g.commons[b].devices) : g.devs[e].live /\ g.devs[e].common = b
               /\ \A u \in Elements(g.commons[b].tools) :
                    /\ g.tools[u].live
                    /\ \A a \in Elements(g.tools[u].areas) : g.devs[a].common = b
    <3>1. h.commons[b].live
      BY <1>1, <1>2, <2>2
    <3>2. /\ List(h.commons[b].devices) /\ List(h.commons[b].tools)
          /\ \A e \in Elements(h.commons[b].devices) : h.devs[e].live /\ h.devs[e].common = b
          /\ \A u \in Elements(h.commons[b].tools) :
               /\ h.tools[u].live
               /\ \A a \in Elements(h.tools[u].areas) : h.devs[a].common = b
      BY <1>3, <3>1 DEF Linked
    <3>3. Elements(h.commons[b].devices) \subseteq Sections
          /\ Elements(h.commons[b].tools) \subseteq Sections
      BY <3>2, ElementsIn
    <3>4. /\ List(g.commons[b].devices) /\ List(g.commons[b].tools)
          /\ Elements(g.commons[b].devices) \subseteq Elements(h.commons[b].devices) \ {s}
          /\ Elements(g.commons[b].tools) \subseteq Elements(h.commons[b].tools) \ {t}
      <4>1. CASE b = c
        BY <1>1, <1>2, <1>6, <1>8, <2>2, <4>1
      <4>2. CASE b # c
        <5>1. g.commons[b] = h.commons[b]
          BY <1>1, <4>2
        <5>2. s \notin Elements(h.commons[b].devices)
          BY <3>2, <4>2 DEF c
        <5>3. t \notin Elements(h.commons[b].tools)
          BY <1>4, <3>2, <4>2 DEF c
        <5> QED
          BY <3>2, <5>1, <5>2, <5>3
      <4> QED
        BY <4>1, <4>2
    <3>5. \A e \in Elements(g.commons[b].devices) : g.devs[e].live /\ g.devs[e].common = b
      <4> SUFFICES ASSUME NEW e \in Elements(g.commons[b].devices)
                   PROVE  g.devs[e].live /\ g.devs[e].common = b
        OBVIOUS
      <4>1. e \in Elements(h.commons[b].devices) /\ e \in Sections \ {s}
        BY <3>3, <3>4
      <4>2. g.devs[e] = h.devs[e]
        BY <1>1, <4>1
      <4> QED
        BY <3>2, <4>1, <4>2
    <3>6. ASSUME NEW u \in Elements(g.commons[b].tools)
          PROVE  g.tools[u].live /\ \A a \in Elements(g.tools[u].areas) : g.devs[a].common = b
      <4>1. u \in Elements(h.commons[b].tools) /\ u # t /\ u \in Sections
        BY ZenonT(30), <3>3, <3>4
      <4>2. g.tools[u] = h.tools[u] /\ h.tools[u].live
        BY <1>1, <3>2, <4>1
      <4>3. List(h.tools[u].areas) /\ \A a \in Elements(h.tools[u].areas) : h.devs[a].tool = u
        BY ZenonT(30), <1>3, <4>1, <4>2 DEF Linked
      <4>4. \A a \in Elements(h.tools[u].areas) : a \in Sections \ {s}
        BY <4>1, <4>3, ElementsIn DEF t
      <4>5. ASSUME NEW a \in Elements(g.tools[u].areas)
            PROVE  g.devs[a].common = b
        <5>1. a \in Elements(h.tools[u].areas)
          BY <4>2, <4>5
        <5>2. g.devs[a] = h.devs[a]
          BY <1>1, <4>4, <5>1
        <5>3. h.devs[a].common = b
          BY <3>2, <4>1, <5>1
        <5> QED
          BY <5>2, <5>3
      <4>6. g.tools[u].live
        BY <4>2
      <4> QED
        BY <4>5, <4>6
    <3> QED
      BY <3>4, <3>5, <3>6
  <2>3. ASSUME NEW u \in Sections, g.tools[u].live
        PROVE  /\ List(g.tools[u].areas) /\ g.tools[u].areas # <<>>
               /\ \A a \in Elements(g.tools[u].areas) :
                    g.devs[a].live /\ g.devs[a].toolarea /\ g.devs[a].tool = u
    <3>1. u # t /\ g.tools[u] = h.tools[u]
      BY <1>1, <1>2, <2>3
    <3>2. /\ List(h.tools[u].areas) /\ h.tools[u].areas # <<>>
          /\ \A a \in Elements(h.tools[u].areas) :
               h.devs[a].live /\ h.devs[a].toolarea /\ h.devs[a].tool = u
      BY <1>3, <2>3, <3>1 DEF Linked
    <3>3. \A a \in Elements(h.tools[u].areas) : a \in Sections \ {s}
      BY <3>1, <3>2, ElementsIn DEF t
    <3> QED
      BY SMTT(20), <1>1, <3>1, <3>2, <3>3
  <2> QED
    BY ZenonT(30), <2>1, <2>2, <2>3 DEF Linked
<1>11. \A e \in Sections : g.commons[e].live =>
         h.commons[e].live /\ g.commons[e].rotate = h.commons[e].rotate
         /\ g.commons[e].min_maj = h.commons[e].min_maj
  BY <1>1, <1>2, <1>8
<1> QED
  BY <1>1, <1>9, <1>10, <1>11 DEF GoodHeap

-----------------------------------------------------------------------------
(* Changes that leave the links as they are.                               *)

\* What a device holds, and how its tablet is turned.
Values(h) ==
    \A s \in Sections :
        /\ h.devs[s].live => GoodDevice(h.devs[s])
        /\ h.commons[s].live => h.commons[s].rotate \in Rotations

\* A heap whose links and values are as they should be
Sound(h) == GoodHeap(h) /\ Values(h)

\* Only device s may differ.
DevOnly(h, g, s) ==
    /\ \A e \in Sections \ {s} : g.devs[e] = h.devs[e]
    /\ g.commons = h.commons /\ g.tools = h.tools /\ g.areas = h.areas

\* A device gets other values.
LEMMA DevGiven ==
    ASSUME NEW h, Sound(h), NEW s \in Sections, h.devs[s].live,
           NEW w, Fits(h.devs[s], w), NEW g, g = WithDev(h, s, w)
    PROVE  Sound(g) /\ Kept(h, g) /\ DevOnly(h, g, s) /\ g.devs[s] = w
<1>1. IsHeap(h) /\ GoodHeap(h)
  BY DEF Sound, GoodHeap
<1>2. g = WithDev(h, s, w)
  OBVIOUS
<1>3. Kept(h, g) /\ GoodHeap(g)
  BY <1>1, <1>2, DevKept, KeptGood
<1>4. DevOnly(h, g, s) /\ g.devs[s] = w
  <2> DEFINE k == WithDev(h, s, w)
  <2>1. /\ k.devs[s] = w /\ \A e \in Sections : e # s => k.devs[e] = h.devs[e]
        /\ k.commons = h.commons /\ k.tools = h.tools /\ k.areas = h.areas
    BY <1>1, DevPut
  <2>2. g = k
    BY <1>2
  <2> HIDE DEF k
  <2> QED
    BY <2>1, <2>2 DEF DevOnly
<1>5. Values(g)
  BY <1>4 DEF Values, Sound, DevOnly, Fits
<1> QED
  BY <1>3, <1>4, <1>5 DEF Sound

\* A device's stage changes.
LEMMA Staged ==
    ASSUME NEW h, Sound(h), NEW s \in Sections, h.devs[s].live, NEW x, NEW g, g = Stage(h, s, x)
    PROVE  /\ Sound(g) /\ Kept(h, g) /\ DevOnly(h, g, s)
           /\ Only(h.devs[s], g.devs[s], {"stage"}) /\ g.devs[s].stage = x
<1> DEFINE d == h.devs[s]
           w == [d EXCEPT !.stage = x]
<1>1. GoodDevice(d) /\ IsHeap(h)
  BY DEF Sound, Values, GoodHeap
<1>2. g = WithDev(h, s, w)
  BY <1>1 DEF Stage, WithDev, IsHeap, OnSections
<1> HIDE DEF d
<1>3. Only(d, w, {"stage"}) /\ w.stage = x /\ w.axes = d.axes
  BY <1>1 DEF Only, GoodDevice, Decent, IsDevice, HasFields, DeviceFields
<1> HIDE DEF w
<1>4. HasAxes(w)
  BY <1>1, <1>3 DEF HasAxes, GoodDevice, Decent
<1>5. GoodDevice(w)
  BY <1>1, <1>3, <1>4, GoodStays DEF ValueFields
<1>6. {"stage"} \cap LinkFields = {}
  BY DEF LinkFields
<1>7. Only(h.devs[s], w, {"stage"})
  BY <1>3 DEF d
<1>8. Sound(g) /\ Kept(h, g) /\ DevOnly(h, g, s) /\ g.devs[s] = w
  BY <1>2, <1>5, <1>6, <1>7, DevGiven, FitsWhen
<1> QED
  BY <1>3, <1>7, <1>8

\* A device and its area change together.
LEMMA AreaGiven ==
    ASSUME NEW h, Sound(h), NEW s \in Sections, h.areas[s].live, NEW r,
           NEW g, g = WithRect(h, s, r)
    PROVE  /\ Sound(g) /\ Kept(h, g) /\ g.areas[s].rect = r
           /\ \A e \in Sections \ {s} : g.areas[e] = h.areas[e]
           /\ g.commons = h.commons /\ g.tools = h.tools /\ g.devs = h.devs
<1>1. GoodHeap(h)
  BY DEF Sound
<1>2. /\ Kept(h, g) /\ g.areas[s].rect = r
      /\ \A e \in Sections : e # s => g.areas[e] = h.areas[e]
      /\ g.commons = h.commons /\ g.tools = h.tools /\ g.devs = h.devs
  <2> DEFINE k == WithRect(h, s, r)
  <2>1. /\ Kept(h, k) /\ k.areas[s].rect = r
        /\ \A e \in Sections : e # s => k.areas[e] = h.areas[e]
        /\ k.commons = h.commons /\ k.tools = h.tools /\ k.devs = h.devs
    BY <1>1, AreaKept
  <2>2. g = k
    OBVIOUS
  <2> HIDE DEF k
  <2> QED
    BY <2>1, <2>2
<1>3. GoodHeap(g)
  BY <1>1, <1>2, KeptGood
<1>4. Values(g)
  BY <1>2 DEF Values, Sound
<1> QED
  BY <1>2, <1>3, <1>4 DEF Sound

\* The tablet's number is set, or is not.
Numbered(h, s, b) == [h EXCEPT !.commons[h.devs[s].common].min_maj = b]

\* The tablet's device number is noted, and nothing else changes.
LEMMA NumberedSound ==
    ASSUME NEW h, Sound(h), NEW s \in Sections, h.devs[s].live, NEW b, NEW g,
           g = Numbered(h, s, b)
    PROVE  /\ Sound(g) /\ Kept(h, g)
           /\ g.devs = h.devs /\ g.areas = h.areas /\ g.tools = h.tools
           /\ g.commons[h.devs[s].common].min_maj = b
           /\ \A c \in Sections : /\ g.commons[c].rotate = h.commons[c].rotate
                                  /\ c # h.devs[s].common => g.commons[c] = h.commons[c]
<1> DEFINE c == h.devs[s].common
           v == h.commons[c]
           w == [v EXCEPT !.min_maj = b]
<1>1. GoodHeap(h) /\ IsHeap(h) /\ c \in Sections /\ v.live
  BY DEF Sound, GoodHeap, Linked
<1>2. g = WithCommon(h, c, w)
  BY <1>1 DEF Numbered, WithCommon, IsHeap, OnSections
<1>3. HasFields(v, CommonFields)
  BY <1>1 DEF GoodHeap, Shapes, Gone
<1> HIDE DEF v
<1>4. /\ HasFields(w, CommonFields) /\ w.live = v.live /\ w.devices = v.devices
      /\ w.tools = v.tools /\ w.rotate = v.rotate /\ w.min_maj = b
  BY <1>3 DEF HasFields, CommonFields
<1> HIDE DEF w, c
<1>5. Kept(h, g)
  BY <1>1, <1>2, <1>4, CommonKept DEF v
<1>6. /\ g.devs = h.devs /\ g.areas = h.areas /\ g.tools = h.tools /\ g.commons[c] = w
      /\ \A e \in Sections : e # c => g.commons[e] = h.commons[e]
  <2> DEFINE k == WithCommon(h, c, w)
  <2>1. /\ k.commons[c] = w /\ \A e \in Sections : e # c => k.commons[e] = h.commons[e]
        /\ k.devs = h.devs /\ k.tools = h.tools /\ k.areas = h.areas
    BY <1>1, CommonPut
  <2>2. g = k
    BY <1>2
  <2> HIDE DEF k
  <2> QED
    BY <2>1, <2>2
<1>7. \A e \in Sections : g.commons[e].rotate = h.commons[e].rotate
                          /\ g.commons[e].live = h.commons[e].live
  BY <1>4, <1>6 DEF v
<1>8. Values(g)
  BY <1>6, <1>7 DEF Values, Sound
<1> QED
  BY <1>1, <1>4, <1>5, <1>6, <1>7, <1>8, KeptGood DEF Sound, c

\* Only the device, and its area's rectangle.
PlaceOnly(h, g, s) ==
    /\ \A e \in Sections \ {s} : g.devs[e] = h.devs[e] /\ g.areas[e] = h.areas[e]
    /\ g.commons = h.commons /\ g.tools = h.tools

\* A device gets other values, and its area another rectangle.
LEMMA PlaceGiven ==
    ASSUME NEW h, Sound(h), NEW s \in Sections, h.devs[s].live, h.areas[s].live,
           NEW w, Fits(h.devs[s], w), NEW r,
           NEW g, g = WithRect(WithDev(h, s, w), s, r)
    PROVE  /\ Sound(g) /\ Kept(h, g) /\ PlaceOnly(h, g, s)
           /\ g.devs[s] = w /\ g.areas[s].rect = r
<1> DEFINE k == WithDev(h, s, w)
<1>1. Sound(k) /\ Kept(h, k) /\ DevOnly(h, k, s) /\ k.devs[s] = w
  BY DevGiven
<1>2. g = WithRect(k, s, r)
  OBVIOUS
<1> HIDE DEF k
<1>3. k.areas[s].live
  BY <1>1 DEF DevOnly
<1>4. /\ Sound(g) /\ Kept(k, g) /\ g.areas[s].rect = r
      /\ \A e \in Sections \ {s} : g.areas[e] = k.areas[e]
      /\ g.commons = k.commons /\ g.tools = k.tools /\ g.devs = k.devs
  BY <1>1, <1>2, <1>3, AreaGiven
<1>5. Kept(h, g)
  BY <1>1, <1>4, KeptThen
<1> QED
  BY <1>1, <1>4, <1>5 DEF DevOnly, PlaceOnly

\* The size of a tablet
LEMMA Sizes ==
    /\ Size.x \in Nat /\ Size.y \in Nat /\ TouchSize.x \in Nat /\ TouchSize.y \in Nat
    /\ Size.x > 0 /\ Size.y > 0 /\ TouchSize.x > 0 /\ TouchSize.y > 0
  BY SetupAssumption

\* An area whose ends are given
Ended(r) == r \in Rects /\ r.bottomX # 0 /\ r.bottomY # 0

\* What a device's initial size changes: areas only where an end is 0.
LEMMA SizeFilled ==
    ASSUME NEW h, Sound(h), NEW s \in Sections, h.devs[s].live, NEW g, g = InitialToolSize(h, s)
    PROVE  /\ Sound(g) /\ Kept(h, g)
           /\ \A e \in Sections \ {s} : g.devs[e] = h.devs[e]
           /\ Only(h.devs[s], g.devs[s], {"maxX", "maxY"})
           /\ g.commons = h.commons /\ g.tools = h.tools
           /\ \A a \in Sections : Ended(h.areas[a].rect) => g.areas[a].rect = h.areas[a].rect
<1> DEFINE d == h.devs[s]
           z == IF d.type = "touch" THEN TouchSize ELSE Size
           w == [d EXCEPT !.maxX = z.x, !.maxY = z.y]
           Filled(r) == [r EXCEPT !.bottomX = IF @ = 0 THEN z.x ELSE @,
                                  !.bottomY = IF @ = 0 THEN z.y ELSE @]
           T == ToolAreas(h, s)
           areas1 == [a \in Sections |-> IF a \in T THEN [h.areas[a] EXCEPT !.rect = Filled(@)]
                                                    ELSE h.areas[a]]
           k == WithDev(h, s, w)
<1>1. GoodDevice(d) /\ IsHeap(h) /\ GoodHeap(h) /\ Linked(h)
  BY DEF Sound, Values, GoodHeap
<1>2. z.x \in Int /\ z.y \in Int
  BY Sizes
<1>3. \A a \in T : a \in Sections /\ h.areas[a].live
  <2> SUFFICES ASSUME NEW t \in Elements(Common(h, s).tools), NEW a \in Elements(h.tools[t].areas)
               PROVE  a \in Sections /\ h.areas[a].live
    BY DEF ToolAreas
  <2>1. h.commons[d.common].live /\ d.common \in Sections
    BY SMTT(15), <1>1 DEF Linked
  <2>2. List(h.commons[d.common].tools) /\ h.tools[t].live
    BY <1>1, <2>1 DEF Linked, Common
  <2>3. t \in Sections
    BY SMTT(15), <2>2, ElementsIn DEF Common
  <2>4. List(h.tools[t].areas) /\ h.devs[a].live /\ h.devs[a].toolarea
    BY <1>1, <2>2, <2>3 DEF Linked
  <2>5. a \in Sections
    BY <2>4, ElementsIn
  <2> QED
    BY <1>1, <2>4, <2>5 DEF Linked
<1>4. g = [k EXCEPT !.areas = areas1]
  <2>1. g = [h EXCEPT !.devs[s].maxX = z.x, !.devs[s].maxY = z.y, !.areas = areas1]
    BY DEF InitialToolSize
  <2> HIDE DEF areas1, z
  <2> QED
    BY ZenonT(30), <1>1, <2>1 DEF IsHeap, OnSections, WithDev
<1> HIDE DEF T, z
<1>5. Only(d, w, {"maxX", "maxY"}) /\ w.maxX = z.x /\ w.maxY = z.y
  BY ZenonT(30), <1>1 DEF Only, GoodDevice, Decent, IsDevice, HasFields, DeviceFields
<1> HIDE DEF w
<1>6. GoodDevice(w)
  <2>1. /\ w.rect = d.rect /\ w.absolute = d.absolute /\ w.twinview = d.twinview
        /\ w.tvResolution = d.tvResolution /\ w.tvoffset = d.tvoffset /\ w.axes = d.axes
    BY <1>5 DEF Only, DeviceFields
  <2> HIDE DEF d
  <2> QED
    BY <1>1, <1>2, <1>5, <2>1 DEF GoodDevice, Decent, HasAxes, Twin, Only
<1>7. Sound(k) /\ Kept(h, k) /\ DevOnly(h, k, s) /\ k.devs[s] = w
  <2>1. {"maxX", "maxY"} \cap LinkFields = {}
    BY DEF LinkFields
  <2>2. Only(h.devs[s], w, {"maxX", "maxY"})
    BY <1>5
  <2> QED
    BY <1>6, <2>1, <2>2, DevGiven, FitsWhen
<1>k. IsHeap(k)
  BY <1>7 DEF Sound, GoodHeap
<1> HIDE DEF k, d
<1>8. /\ IsHeap(g) /\ g.devs = k.devs /\ g.commons = k.commons /\ g.tools = k.tools
      /\ g.areas = areas1
  <2>1. areas1 = [a \in Sections |-> areas1[a]]
    OBVIOUS
  <2> HIDE DEF areas1
  <2> QED
    BY <1>4, <1>k, <2>1 DEF IsHeap, OnSections
<1>a. \A a \in Sections :
        /\ a \notin T => g.areas[a] = h.areas[a]
        /\ a \in T => g.areas[a] = [h.areas[a] EXCEPT !.rect = Filled(h.areas[a].rect)]
  <2> HIDE DEF Filled
  <2> QED
    BY <1>8
<1> HIDE DEF areas1
<1>9. \A a \in Sections :
        g.areas[a] = h.areas[a] \/ (h.areas[a].live /\ HasFields(g.areas[a], AreaFields)
                                    /\ g.areas[a].live = h.areas[a].live)
  <2> SUFFICES ASSUME NEW a \in Sections, a \in T
               PROVE  h.areas[a].live /\ HasFields(g.areas[a], AreaFields)
                      /\ g.areas[a].live = h.areas[a].live
    BY <1>a
  <2>1. h.areas[a].live /\ HasFields(h.areas[a], AreaFields)
    BY <1>1, <1>3 DEF GoodHeap, Shapes, Gone
  <2>2. g.areas[a] = [h.areas[a] EXCEPT !.rect = Filled(h.areas[a].rect)]
    BY <1>a
  <2> HIDE DEF Filled
  <2> QED
    BY <2>1, <2>2 DEF HasFields, AreaFields
<1>10. Kept(k, g)
  <2>1. k.areas = h.areas
    BY <1>7 DEF DevOnly
  <2> QED
    BY <1>8, <1>9, <2>1 DEF Kept
<1>11. \A a \in Sections : Ended(h.areas[a].rect) => g.areas[a].rect = h.areas[a].rect
  <2> SUFFICES ASSUME NEW a \in Sections, Ended(h.areas[a].rect), a \in T
               PROVE  g.areas[a].rect = h.areas[a].rect
    BY <1>a
  <2>1. HasFields(h.areas[a], AreaFields)
    BY SMTT(15), <1>1, <1>3 DEF GoodHeap, Shapes, Gone
  <2> DEFINE r == h.areas[a].rect
  <2>2. g.areas[a] = [h.areas[a] EXCEPT !.rect = Filled(r)]
    BY <1>a
  <2>3. Filled(r) = r
    BY DEF Ended, Rects, Sides
  <2> HIDE DEF Filled
  <2> QED
    BY <2>1, <2>2, <2>3 DEF HasFields, AreaFields
<1>12. Values(g)
  BY <1>7, <1>8 DEF Values, Sound
<1>13. Sound(g) /\ Kept(h, g)
  BY <1>7, <1>10, <1>12, KeptGood, KeptThen DEF Sound
<1> QED
  BY <1>5, <1>7, <1>8, <1>11, <1>13 DEF DevOnly, d

\* A device's part of the tablet is determined.
LEMMA SizedSound ==
    ASSUME NEW h, Sound(h), NEW s \in Sections, h.devs[s].live, h.areas[s].live,
           IsServer(screens), NEW g, g = Sized(h, s)
    PROVE  /\ Sound(g) /\ Kept(h, g) /\ PlaceOnly(h, g, s)
           /\ Only(h.devs[s], g.devs[s], FitFields)
           /\ g.areas[s].rect = g.devs[s].rect
<1> DEFINE w == Fitted(h.devs[s])
<1>1. GoodDevice(h.devs[s]) /\ IsHeap(h)
  BY DEF Sound, Values, GoodHeap
<1>2. g = WithRect(WithDev(h, s, w), s, w.rect)
  <2>1. g = [h EXCEPT !.devs[s] = w, !.areas[s].rect = w.rect]
    BY DEF Sized
  <2> HIDE DEF w
  <2> QED
    BY <1>1, <2>1 DEF WithRect, WithDev, IsHeap, OnSections
<1>3. Only(h.devs[s], w, FitFields) /\ GoodDevice(w)
  BY <1>1, FittedGood
<1>4. FitFields \cap LinkFields = {}
  BY DEF FitFields, ScreenFields, LinkFields
<1> HIDE DEF w
<1>5. /\ Sound(g) /\ Kept(h, g) /\ PlaceOnly(h, g, s)
      /\ g.devs[s] = w /\ g.areas[s].rect = w.rect
  <2>1. Fits(h.devs[s], w)
    BY <1>3, <1>4, FitsWhen
  <2> QED
    BY <1>2, <2>1, PlaceGiven
<1> QED
  BY <1>3, <1>5

\* A device turns.
PlaceFields == {"rect", "maxX", "maxY"}

\* What becomes of device s, which is as d before.
OneTurned(h, g, s, d, to) ==
    /\ Sound(g) /\ Kept(h, g) /\ PlaceOnly(h, g, s)
    /\ Only(h.devs[s], g.devs[s], PlaceFields \cup AxisFields)
    /\ Right(g.devs[s])
    /\ to = "none" => g.areas[s].rect = h.areas[s].rect /\ g.devs[s].rect = d.rect
    /\ to # "none" => g.areas[s].rect = g.devs[s].rect
    /\ SurfaceOf(g.devs[s], to) = [rect |-> d.rect, size |-> [x |-> d.maxX, y |-> d.maxY]]

\* wcmRotateOne turns one device and its area, and no other.
LEMMA RotateOneSound ==
    ASSUME NEW h, Sound(h), NEW s \in Sections, h.devs[s].live, h.areas[s].live,
           NEW d, Only(h.devs[s], d, PlaceFields), GoodDevice(d), NEW to \in Rotations,
           NEW g, g = RotateOne(h, s, d, to)
    PROVE  OneTurned(h, g, s, d, to)
<1> DEFINE r == Rotated(d.rect, d.maxX, d.maxY, to)
           z == Turned(d, to)
           w == BothCoordinates([d EXCEPT !.rect = r, !.maxX = z.x, !.maxY = z.y], pointer)
           a == IF to = "none" THEN h.areas[s].rect ELSE r
<1>1. IsHeap(h)
  BY DEF Sound, GoodHeap
<1>2. /\ Only(d, w, {"rect", "maxX", "maxY"} \cup AxisFields)
      /\ GoodDevice(w) /\ Right(w) /\ w.rect = r
      /\ to = "none" => r = d.rect
      /\ SurfaceOf(w, to) = [rect |-> d.rect, size |-> [x |-> d.maxX, y |-> d.maxY]]
  BY RotatedGood
<1>3. g = [h EXCEPT !.devs[s] = w, !.areas[s].rect = a]
  BY DEF RotateOne
<1> HIDE DEF w, r
<1>4. g = WithRect(WithDev(h, s, w), s, a)
  <2> HIDE DEF a
  <2> QED
    BY <1>1, <1>3 DEF WithRect, WithDev, IsHeap, OnSections
<1>5. Only(h.devs[s], w, PlaceFields \cup AxisFields)
  <2>1. Only(h.devs[s], w, PlaceFields \cup (PlaceFields \cup AxisFields))
    BY <1>2, OnlyThen DEF PlaceFields
  <2>2. PlaceFields \cup (PlaceFields \cup AxisFields) = PlaceFields \cup AxisFields
    OBVIOUS
  <2> QED
    BY <2>1, <2>2
<1>6. (PlaceFields \cup AxisFields) \cap LinkFields = {}
  BY DEF PlaceFields, AxisFields, ViewFields, LinkFields
<1>7. /\ Sound(g) /\ Kept(h, g) /\ PlaceOnly(h, g, s)
      /\ g.devs[s] = w /\ g.areas[s].rect = a
  <2>1. Fits(h.devs[s], w)
    BY <1>2, <1>5, <1>6, FitsWhen
  <2> QED
    BY <1>4, <2>1, PlaceGiven
<1> QED
  BY <1>2, <1>5, <1>7 DEF OneTurned

\* A finger's mode changes when it is registered, on a Bamboo.
LEMMA ModedSound ==
    ASSUME NEW h, Sound(h), NEW s \in Sections, h.devs[s].live, NEW g, g = Moded(h, s)
    PROVE  /\ Sound(g) /\ Kept(h, g) /\ DevOnly(h, g, s)
           /\ Only(h.devs[s], g.devs[s], {"absolute"})
           /\ ~Bamboo /\ Right(h.devs[s]) => Right(g.devs[s])
<1> DEFINE d == h.devs[s]
           b == d.absolute /\ ~(Bamboo /\ d.type = "touch")
           w == [d EXCEPT !.absolute = b]
<1>1. GoodDevice(d) /\ IsHeap(h)
  BY DEF Sound, Values, GoodHeap
<1>2. g = WithDev(h, s, w)
  <2>1. g = [h EXCEPT !.devs[s].absolute = b]
    BY DEF Moded
  <2> HIDE DEF b
  <2> QED
    BY <1>1, <2>1 DEF WithDev, IsHeap, OnSections
<1>3. b \in BOOLEAN
  OBVIOUS
<1>4. ~Bamboo => b = d.absolute
  <2>1. d.absolute \in BOOLEAN
    BY <1>1 DEF GoodDevice, Decent
  <2> HIDE DEF d
  <2> QED
    BY <2>1
<1> HIDE DEF b, d
<1>5. Only(d, w, {"absolute"}) /\ w.absolute = b
  BY <1>1 DEF Only, GoodDevice, Decent, IsDevice, HasFields, DeviceFields
<1> HIDE DEF w
<1>6. /\ w.rect = d.rect /\ w.maxX = d.maxX /\ w.maxY = d.maxY /\ w.type = d.type
      /\ w.twinview = d.twinview /\ w.tvResolution = d.tvResolution
      /\ w.tvoffset = d.tvoffset /\ w.axes = d.axes
  BY <1>5 DEF Only, DeviceFields
<1>7. GoodDevice(w)
  BY <1>1, <1>3, <1>5, <1>6 DEF GoodDevice, Decent, HasAxes, Twin, Only
<1>8. {"absolute"} \cap LinkFields = {}
  BY DEF LinkFields
<1>9. Only(h.devs[s], w, {"absolute"})
  BY <1>5 DEF d
<1>10. Sound(g) /\ Kept(h, g) /\ DevOnly(h, g, s) /\ g.devs[s] = w
  BY <1>2, <1>7, <1>8, <1>9, DevGiven, FitsWhen
<1>11. ~Bamboo /\ Right(d) => Right(w)
  <2> SUFFICES ASSUME ~Bamboo, Right(d) PROVE Right(w)
    OBVIOUS
  <2>1. w.absolute = d.absolute
    BY <1>4, <1>5
  <2> QED
    BY <1>6, <2>1 DEF Right, Twin, AxisX, AxisY
<1> QED
  BY <1>9, <1>10, <1>11 DEF d

-----------------------------------------------------------------------------
(* A device is refused.                                                    *)

\* The heap after the area is gone: the lists of the tool and of the tablet
\* are q and d then.
WithoutArea(h, s, t, c, q, d) ==
    [h EXCEPT !.tools[t].areas = q, !.areas[s] = Gone,
              !.devs[s].toolarea = FALSE, !.commons[c].devices = d]

\* What that leaves
TakenFrom(h, g, s, t, c, q, d) ==
    /\ IsHeap(g)
    /\ g.devs[s] = [h.devs[s] EXCEPT !.toolarea = FALSE]
    /\ \A e \in Sections \ {s} : g.devs[e] = h.devs[e]
    /\ g.areas[s] = Gone /\ \A e \in Sections \ {s} : g.areas[e] = h.areas[e]
    /\ g.tools[t] = [h.tools[t] EXCEPT !.areas = q]
    /\ \A e \in Sections \ {t} : g.tools[e] = h.tools[e]
    /\ g.commons[c] = [h.commons[c] EXCEPT !.devices = d]
    /\ \A e \in Sections \ {c} : g.commons[e] = h.commons[e]

\* A rectangle that overlaps another loses the device its area: what that writes
LEMMA AreaTaken ==
    ASSUME NEW h, IsHeap(h), NEW s \in Sections, NEW t \in Sections, NEW c \in Sections,
           NEW q, NEW d, NEW g, g = WithoutArea(h, s, t, c, q, d)
    PROVE  TakenFrom(h, g, s, t, c, q, d)
  BY DEF TakenFrom, WithoutArea, IsHeap, OnSections

\* The first of a list
LEMMA HeadIn ==
    ASSUME NEW q, List(q), q # <<>>
    PROVE  Head(q) \in Elements(q)
<1>1. 1 \in DOMAIN q /\ Head(q) = q[1]
  BY DEF List
<1> QED
  BY <1>1 DEF Elements

\* What becomes of device s when it is refused
AsRefused(h, g, s) ==
    /\ Sound(g)
    /\ \A e \in Sections \ {s} : g.devs[e] = h.devs[e] /\ g.areas[e] = h.areas[e]
    /\ Only(h.devs[s], g.devs[s], {"toolarea"}) /\ g.devs[s].toolarea = FALSE
    /\ \A c \in Sections : /\ g.commons[c].live = h.commons[c].live
                           /\ g.commons[c].rotate = h.commons[c].rotate
                           /\ g.commons[c].min_maj = h.commons[c].min_maj

\* A refused device leaves nothing that points to it but itself.
LEMMA RefusedSound ==
    ASSUME NEW h, Sound(h), NEW s \in Sections, h.devs[s].live, h.devs[s].toolarea,
           Head(Tool(h, s).areas) # s, NEW g, g = Refused(h, s)
    PROVE  AsRefused(h, g, s)
<1> DEFINE t == h.devs[s].tool
           c == h.devs[s].common
           q == Without(h.tools[t].areas, s)
           d == Without(h.commons[c].devices, s)
           v == [h.devs[s] EXCEPT !.toolarea = FALSE]
           u == [h.tools[t] EXCEPT !.areas = q]
           w == [h.commons[c] EXCEPT !.devices = d]
<1>1. GoodHeap(h) /\ Linked(h) /\ Shapes(h) /\ Gone.live = FALSE
  BY DEF Sound, GoodHeap, Gone
<1>2. /\ IsHeap(g)
      /\ g.devs[s] = v /\ \A e \in Sections \ {s} : g.devs[e] = h.devs[e]
      /\ g.areas[s] = Gone /\ \A e \in Sections \ {s} : g.areas[e] = h.areas[e]
      /\ g.tools[t] = u /\ \A e \in Sections \ {t} : g.tools[e] = h.tools[e]
      /\ g.commons[c] = w /\ \A e \in Sections \ {c} : g.commons[e] = h.commons[e]
  <2>1. g = WithoutArea(h, s, t, c, q, d)
    BY DEF Refused, WithoutArea
  <2>2. IsHeap(h) /\ t \in Sections /\ c \in Sections
    BY <1>1 DEF GoodHeap, Linked
  <2> HIDE DEF t, c, q, d
  <2>3. TakenFrom(h, g, s, t, c, q, d)
    BY <2>1, <2>2, AreaTaken
  <2> QED
    BY <2>3 DEF TakenFrom
<1>3. /\ t \in Sections /\ c \in Sections /\ h.commons[c].live /\ h.tools[t].live
      /\ h.devs[s].listed /\ t \in Elements(h.commons[c].tools)
  BY <1>1 DEF Linked
<1>4. HasFields(h.commons[c], CommonFields) /\ HasFields(h.tools[t], ToolFields)
      /\ IsDevice(h.devs[s]) /\ h.commons[c].live = TRUE /\ h.tools[t].live = TRUE
      /\ h.devs[s].live = TRUE
  BY <1>1, <1>3 DEF Shapes
<1>5. List(h.tools[t].areas) /\ h.tools[t].areas # <<>> /\ List(h.commons[c].devices)
      /\ List(h.commons[c].tools)
  BY <1>1, <1>3 DEF Linked
<1>6. /\ List(q) /\ Elements(q) = Elements(h.tools[t].areas) \ {s}
      /\ List(d) /\ Elements(d) = Elements(h.commons[c].devices) \ {s}
  BY <1>5, Unlinked
<1>7. q # <<>>
  <2>1. Head(h.tools[t].areas) \in Elements(h.tools[t].areas)
    BY ZenonT(30), <1>5, HeadIn
  <2>2. Head(h.tools[t].areas) \in Elements(q)
    BY ZenonT(30), <1>6, <2>1 DEF Tool
  <2> HIDE DEF q
  <2> QED
    BY <2>2 DEF Elements
<1>8. /\ Only(h.devs[s], v, {"toolarea"}) /\ v.toolarea = FALSE
  BY ZenonT(30), <1>4 DEF Only, IsDevice, HasFields, DeviceFields
<1>9. HasFields(u, ToolFields) /\ u.live = TRUE /\ u.areas = q
  BY ZenonT(30), <1>4 DEF HasFields, ToolFields
<1>10. /\ HasFields(w, CommonFields) /\ w.live = TRUE /\ w.devices = d
       /\ w.tools = h.commons[c].tools /\ w.rotate = h.commons[c].rotate
       /\ w.min_maj = h.commons[c].min_maj
  BY <1>4 DEF HasFields, CommonFields
<1> HIDE DEF v, u, w, q, d
<1>11. /\ v.listed = h.devs[s].listed /\ v.live = TRUE /\ v.common = c /\ v.tool = t /\ v.axes = h.devs[s].axes
  <2>1. \A f \in {"listed", "live", "common", "tool", "axes"} : v[f] = h.devs[s][f]
    BY <1>8 DEF Only, DeviceFields
  <2> QED
    BY <1>4, <2>1
<1>12. GoodDevice(v)
  <2>1. GoodDevice(h.devs[s])
    BY DEF Sound, Values
  <2>2. HasAxes(v)
    BY <1>11, <2>1 DEF HasAxes, GoodDevice, Decent
  <2> QED
    BY <1>8, <2>1, <2>2, GoodStays DEF ValueFields
<1> HIDE DEF t, c
<1>13. Shapes(g)
  <2> SUFFICES ASSUME NEW e \in Sections
               PROVE  /\ g.devs[e] = Gone \/ (IsDevice(g.devs[e]) /\ g.devs[e].live = TRUE)
                      /\ g.commons[e] = Gone
                           \/ (HasFields(g.commons[e], CommonFields) /\ g.commons[e].live = TRUE)
                      /\ g.tools[e] = Gone
                           \/ (HasFields(g.tools[e], ToolFields) /\ g.tools[e].live = TRUE)
                      /\ g.areas[e] = Gone
                           \/ (HasFields(g.areas[e], AreaFields) /\ g.areas[e].live = TRUE)
    BY DEF Shapes
  <2>1. /\ h.devs[e] = Gone \/ (IsDevice(h.devs[e]) /\ h.devs[e].live = TRUE)
        /\ h.commons[e] = Gone
             \/ (HasFields(h.commons[e], CommonFields) /\ h.commons[e].live = TRUE)
        /\ h.tools[e] = Gone \/ (HasFields(h.tools[e], ToolFields) /\ h.tools[e].live = TRUE)
        /\ h.areas[e] = Gone \/ (HasFields(h.areas[e], AreaFields) /\ h.areas[e].live = TRUE)
    BY <1>1 DEF Shapes
  <2>2. IsDevice(v)
    BY <1>8 DEF Only
  <2> QED
    BY <1>2, <1>9, <1>10, <1>11, <2>1, <2>2
<1>14. Linked(g)
  <2>1. ASSUME NEW e \in Sections, g.devs[e].live
        PROVE  /\ g.devs[e].listed
               /\ g.devs[e].common \in Sections /\ g.devs[e].tool \in Sections
               /\ g.commons[g.devs[e].common].live
               /\ g.tools[g.devs[e].tool].live
               /\ g.devs[e].tool \in Elements(g.commons[g.devs[e].common].tools)
               /\ g.devs[e].toolarea =>
                    /\ g.areas[e].live
                    /\ e \in Elements(g.tools[g.devs[e].tool].areas)
                    /\ e \in Elements(g.commons[g.devs[e].common].devices)
    <3> DEFINE y == h.devs[e].tool
               b == h.devs[e].common
    <3>0. h.devs[e].live
      BY <1>2, <2>1
    <3>1. /\ h.devs[e].listed
          /\ y \in Sections /\ b \in Sections /\ h.commons[b].live /\ h.tools[y].live
          /\ y \in Elements(h.commons[b].tools)
          /\ h.devs[e].toolarea =>
               h.areas[e].live /\ e \in Elements(h.tools[y].areas)
               /\ e \in Elements(h.commons[b].devices)
      BY <1>1, <3>0 DEF Linked
    <3>2. g.devs[e].tool = y /\ g.devs[e].common = b /\ g.devs[e].listed
      BY <1>2, <1>11, <3>1 DEF t, c
    <3>3. g.devs[e].toolarea => e # s /\ h.devs[e].toolarea /\ g.areas[e] = h.areas[e]
      BY <1>2, <1>8
    <3> HIDE DEF y, b
    <3>4. g.commons[b].live /\ y \in Elements(g.commons[b].tools)
      BY <1>2, <1>10, <3>1
    <3>5. g.tools[y].live
      BY <1>2, <1>9, <3>1
    <3>6. ASSUME g.devs[e].toolarea
          PROVE  g.areas[e].live /\ e \in Elements(g.tools[y].areas)
                 /\ e \in Elements(g.commons[b].devices)
      <4>1. e \in Elements(g.tools[y].areas)
        BY <1>2, <1>6, <1>9, <3>1, <3>3, <3>6
      <4>2. e \in Elements(g.commons[b].devices)
        BY <1>2, <1>6, <1>10, <3>1, <3>3, <3>6
      <4> QED
        BY <3>1, <3>3, <3>6, <4>1, <4>2
    <3> QED
      BY <3>1, <3>2, <3>4, <3>5, <3>6
  <2>2. ASSUME NEW b \in Sections, g.commons[b].live
        PROVE  /\ List(g.commons[b].devices) /\ List(g.commons[b].tools)
               /\ \A e \in Elements(g.commons[b].devices) : g.devs[e].live /\ g.devs[e].common = b
               /\ \A y \in Elements(g.commons[b].tools) :
                    /\ g.tools[y].live
                    /\ \A a \in Elements(g.tools[y].areas) : g.devs[a].common = b
    <3>1. h.commons[b].live
      BY <1>2, <1>3, <2>2
    <3>2. /\ List(h.commons[b].devices) /\ List(h.commons[b].tools)
          /\ \A e \in Elements(h.commons[b].devices) : h.devs[e].live /\ h.devs[e].common = b
          /\ \A y \in Elements(h.commons[b].tools) :
               /\ h.tools[y].live
               /\ \A a \in Elements(h.tools[y].areas) : h.devs[a].common = b
      BY <1>1, <3>1 DEF Linked
    <3>3. /\ List(g.commons[b].devices) /\ g.commons[b].tools = h.commons[b].tools
          /\ Elements(g.commons[b].devices) \subseteq Elements(h.commons[b].devices)
      BY <1>2, <1>6, <1>10, <3>2
    <3>4. \A e \in Sections : /\ g.devs[e].common = h.devs[e].common
                              /\ h.devs[e].live => g.devs[e].live
      BY <1>2, <1>11 DEF c
    <3>5. \A e \in Elements(g.commons[b].devices) : g.devs[e].live /\ g.devs[e].common = b
      BY <3>2, <3>3, <3>4, ElementsIn
    <3>6. ASSUME NEW y \in Elements(g.commons[b].tools)
          PROVE  g.tools[y].live /\ \A a \in Elements(g.tools[y].areas) : g.devs[a].common = b
      <4>1. y \in Elements(h.commons[b].tools) /\ y \in Sections
        BY <3>2, <3>3, ElementsIn
      <4>2. g.tools[y].live /\ Elements(g.tools[y].areas) \subseteq Elements(h.tools[y].areas)
        BY <1>2, <1>6, <1>9, <3>2, <4>1
      <4>3. List(h.tools[y].areas)
        BY <1>1, <3>2, <4>1 DEF Linked
      <4>4. \A a \in Elements(h.tools[y].areas) : a \in Sections
        BY <4>3, ElementsIn
      <4> QED
        BY <3>2, <3>4, <4>1, <4>2, <4>4
    <3> QED
      BY <3>2, <3>3, <3>5, <3>6
  <2>3. ASSUME NEW y \in Sections, g.tools[y].live
        PROVE  /\ List(g.tools[y].areas) /\ g.tools[y].areas # <<>>
               /\ \A a \in Elements(g.tools[y].areas) :
                    g.devs[a].live /\ g.devs[a].toolarea /\ g.devs[a].tool = y
    <3>1. h.tools[y].live
      BY <1>2, <1>3, <2>3
    <3>2. /\ List(h.tools[y].areas) /\ h.tools[y].areas # <<>>
          /\ \A a \in Elements(h.tools[y].areas) :
               h.devs[a].live /\ h.devs[a].toolarea /\ h.devs[a].tool = y
      BY <1>1, <3>1 DEF Linked
    <3>3. \A a \in Elements(h.tools[y].areas) : a \in Sections
      BY <3>2, ElementsIn
    <3>4. CASE y = t
      <4>1. g.tools[y].areas = q
        BY <1>2, <1>9, <3>4
      <4>2. \A a \in Elements(q) : a \in Sections \ {s} /\ a \in Elements(h.tools[y].areas)
        BY <1>6, <3>3, <3>4
      <4> QED
        BY <1>2, <1>6, <1>7, <3>2, <4>1, <4>2
    <3>5. CASE y # t
      <4>1. g.tools[y] = h.tools[y]
        BY <1>2, <3>5
      <4>2. \A a \in Elements(h.tools[y].areas) : a \in Sections \ {s}
        BY <3>2, <3>3, <3>5 DEF t
      <4> QED
        BY <1>2, <3>2, <4>1, <4>2
    <3> QED
      BY <3>4, <3>5
  <2> QED
    BY <2>1, <2>2, <2>3 DEF Linked
<1>15. \A e \in Sections : /\ g.commons[e].live = h.commons[e].live
                           /\ g.commons[e].rotate = h.commons[e].rotate
                           /\ g.commons[e].min_maj = h.commons[e].min_maj
  BY <1>2, <1>3, <1>4, <1>10
<1>16. Values(g)
  BY <1>2, <1>12, <1>15 DEF Values, Sound
<1>17. Sound(g)
  BY <1>2, <1>13, <1>14, <1>16 DEF Sound, GoodHeap
<1> QED
  BY <1>2, <1>8, <1>15, <1>17 DEF AsRefused

-----------------------------------------------------------------------------
(* Registration.                                                           *)

\* What becomes of device s when it is registered
AsRegistered(h, g, s) ==
    /\ Sound(g) /\ Kept(h, g) /\ PlaceOnly(h, g, s)
    /\ Only(h.devs[s], g.devs[s], (PlaceFields \cup AxisFields) \cup {"absolute"})
    /\ g.areas[s].rect = g.devs[s].rect
    /\ ~Bamboo => Right(g.devs[s])

\* A device whose area is as it is itself is turned with its tablet.
LEMMA RegisteredSound ==
    ASSUME NEW h, Sound(h), NEW s \in Sections, h.devs[s].live, h.areas[s].live,
           h.areas[s].rect = h.devs[s].rect, NEW g, g = Registered(h, s)
    PROVE  AsRegistered(h, g, s)
<1> DEFINE d == h.devs[s]
           to == Common(h, s).rotate
           k == RotateOne(h, s, d, to)
<1>1. GoodDevice(d) /\ d.common \in Sections /\ to \in Rotations
  BY DEF Sound, GoodHeap, Linked, Values, Common
<1>2. Only(d, d, PlaceFields)
  BY <1>1 DEF Only, GoodDevice, Decent
<1>3. g = Moded(k, s)
  BY DEF Registered
<1> HIDE DEF to
<1>4. /\ Sound(k) /\ Kept(h, k) /\ PlaceOnly(h, k, s)
      /\ Only(h.devs[s], k.devs[s], PlaceFields \cup AxisFields)
      /\ Right(k.devs[s])
      /\ to = "none" => k.areas[s].rect = h.areas[s].rect /\ k.devs[s].rect = d.rect
      /\ to # "none" => k.areas[s].rect = k.devs[s].rect
  <2>1. OneTurned(h, k, s, d, to)
    BY <1>1, <1>2, RotateOneSound
  <2> QED
    BY <2>1 DEF OneTurned
<1> HIDE DEF k
<1>5. k.devs[s].live
  BY <1>4, KeptLinks
<1>6. /\ Sound(g) /\ Kept(k, g) /\ DevOnly(k, g, s)
      /\ Only(k.devs[s], g.devs[s], {"absolute"})
      /\ ~Bamboo /\ Right(k.devs[s]) => Right(g.devs[s])
  BY <1>3, <1>4, <1>5, ModedSound
<1>7. Kept(h, g)
  BY <1>4, <1>6, KeptThen
<1>8. PlaceOnly(h, g, s) /\ g.areas[s] = k.areas[s]
  BY <1>4, <1>6 DEF PlaceOnly, DevOnly
<1>9. Only(h.devs[s], g.devs[s], (PlaceFields \cup AxisFields) \cup {"absolute"})
  BY <1>4, <1>6, OnlyThen
<1>10. g.devs[s].rect = k.devs[s].rect
  BY <1>6 DEF Only, DeviceFields
<1>11. g.areas[s].rect = g.devs[s].rect
  BY <1>4, <1>8, <1>10
<1> QED
  BY <1>4, <1>6, <1>7, <1>8, <1>9, <1>11 DEF AsRegistered

\* What registration may change of a device
RegisterFields ==
    ((({"maxX", "maxY"} \cup FitFields) \cup ((PlaceFields \cup AxisFields) \cup {"absolute"}))
       \cup {"toolarea"}) \cup {"stage"}

\* What becomes of device s, and of the others' areas whose ends are given
Tried(h, g, s, failed) ==
    /\ Sound(g)
    /\ \A e \in Sections \ {s} :
         /\ g.devs[e] = h.devs[e]
         /\ Ended(h.areas[e].rect) => g.areas[e].rect = h.areas[e].rect
    /\ Only(h.devs[s], g.devs[s], RegisterFields)
    /\ \A c \in Sections : /\ g.commons[c].live = h.commons[c].live
                           /\ g.commons[c].rotate = h.commons[c].rotate
                           /\ g.commons[c].min_maj = h.commons[c].min_maj
    /\ \/ g.devs[s].stage = failed /\ g.devs[s].toolarea = FALSE
       \/ /\ g.devs[s].stage = "on" /\ g.areas[s].rect = g.devs[s].rect
          /\ ~Bamboo => Right(g.devs[s])

\* A device of an open tablet is registered, or refused.
LEMMA TriedSound ==
    ASSUME NEW h, Sound(h), NEW s \in Sections, h.devs[s].live, h.devs[s].toolarea,
           IsServer(screens), NEW failed,
           NEW k, k = Sized(InitialToolSize(h, s), s),
           NEW g, g = IF Refuses(k, s) THEN Stage(Refused(k, s), s, failed)
                      ELSE Stage(Registered(k, s), s, "on")
    PROVE  Tried(h, g, s, failed)
<1> DEFINE i == InitialToolSize(h, s)
<1>1. /\ Sound(i) /\ Kept(h, i)
      /\ \A e \in Sections \ {s} : i.devs[e] = h.devs[e]
      /\ Only(h.devs[s], i.devs[s], {"maxX", "maxY"})
      /\ i.commons = h.commons /\ i.tools = h.tools
      /\ \A a \in Sections : Ended(h.areas[a].rect) => i.areas[a].rect = h.areas[a].rect
  BY SizeFilled
<1>2. k = Sized(i, s)
  OBVIOUS
<1> HIDE DEF i
<1>3. h.areas[s].live
  BY DEF Sound, GoodHeap, Linked
<1>4. i.devs[s].live /\ i.areas[s].live
  BY <1>1, <1>3, KeptLinks
<1>5. /\ Sound(k) /\ Kept(i, k) /\ PlaceOnly(i, k, s)
      /\ Only(i.devs[s], k.devs[s], FitFields)
      /\ k.areas[s].rect = k.devs[s].rect
  BY <1>1, <1>2, <1>4, SizedSound
<1>6. k.devs[s].live /\ k.areas[s].live /\ k.devs[s].toolarea
  BY <1>1, <1>4, <1>5, KeptLinks
<1>7. /\ \A e \in Sections \ {s} :
           /\ k.devs[e] = h.devs[e]
           /\ Ended(h.areas[e].rect) => k.areas[e].rect = h.areas[e].rect
      /\ k.commons = h.commons
  BY <1>1, <1>5 DEF PlaceOnly
<1>8. Only(h.devs[s], k.devs[s], {"maxX", "maxY"} \cup FitFields)
  BY <1>1, <1>5, OnlyThen
<1>9. CASE Refuses(k, s)
  <2> DEFINE r == Refused(k, s)
  <2>1. Head(Tool(k, s).areas) # s
    BY <1>9 DEF Refuses
  <2>2. /\ Sound(r)
        /\ \A e \in Sections \ {s} : r.devs[e] = k.devs[e] /\ r.areas[e] = k.areas[e]
        /\ Only(k.devs[s], r.devs[s], {"toolarea"}) /\ r.devs[s].toolarea = FALSE
        /\ \A c \in Sections : /\ r.commons[c].live = k.commons[c].live
                               /\ r.commons[c].rotate = k.commons[c].rotate
                               /\ r.commons[c].min_maj = k.commons[c].min_maj
    <3>1. AsRefused(k, r, s)
      BY <1>5, <1>6, <2>1, RefusedSound
    <3> QED
      BY <3>1 DEF AsRefused
  <2>3. g = Stage(r, s, failed)
    BY <1>9
  <2> HIDE DEF r
  <2>4. r.devs[s].live
    <3>1. r.devs[s].live = k.devs[s].live
      BY <2>2 DEF Only, DeviceFields
    <3> QED
      BY <1>6, <3>1
  <2>5. /\ Sound(g) /\ DevOnly(r, g, s)
        /\ Only(r.devs[s], g.devs[s], {"stage"}) /\ g.devs[s].stage = failed
    BY <2>2, <2>3, <2>4, Staged
  <2>6. g.devs[s].toolarea = FALSE
    <3>1. g.devs[s].toolarea = r.devs[s].toolarea
      BY <2>5 DEF Only, DeviceFields
    <3> QED
      BY <2>2, <3>1
  <2>7. Only(h.devs[s], g.devs[s], RegisterFields)
    <3>1. Only(h.devs[s], r.devs[s], ({"maxX", "maxY"} \cup FitFields) \cup {"toolarea"})
      BY <1>8, <2>2, OnlyThen
    <3>2. Only(h.devs[s], g.devs[s],
               (({"maxX", "maxY"} \cup FitFields) \cup {"toolarea"}) \cup {"stage"})
      BY <2>5, <3>1, OnlyThen
    <3>3. (({"maxX", "maxY"} \cup FitFields) \cup {"toolarea"}) \cup {"stage"}
            \subseteq RegisterFields
      BY DEF RegisterFields
    <3> QED
      BY <3>2, <3>3, OnlyMore
  <2>8. g.areas = r.areas /\ g.commons = r.commons
        /\ \A e \in Sections \ {s} : g.devs[e] = r.devs[e]
    BY <2>5 DEF DevOnly
  <2> QED
    BY SMTT(20), <1>7, <2>2, <2>5, <2>6, <2>7, <2>8 DEF Tried
<1>10. CASE ~Refuses(k, s)
  <2> DEFINE r == Registered(k, s)
  <2>1. /\ Sound(r) /\ Kept(k, r) /\ PlaceOnly(k, r, s)
        /\ Only(k.devs[s], r.devs[s], (PlaceFields \cup AxisFields) \cup {"absolute"})
        /\ r.areas[s].rect = r.devs[s].rect
        /\ ~Bamboo => Right(r.devs[s])
    <3>1. AsRegistered(k, r, s)
      BY <1>5, <1>6, RegisteredSound
    <3> QED
      BY <3>1 DEF AsRegistered
  <2>2. g = Stage(r, s, "on")
    BY <1>10
  <2> HIDE DEF r
  <2>3. r.devs[s].live
    BY <1>6, <2>1, KeptLinks
  <2>4. /\ Sound(g) /\ DevOnly(r, g, s)
        /\ Only(r.devs[s], g.devs[s], {"stage"}) /\ g.devs[s].stage = "on"
    BY <2>1, <2>2, <2>3, Staged
  <2>5. g.devs[s].rect = r.devs[s].rect
    BY <2>4 DEF Only, DeviceFields
  <2>6. ~Bamboo => Right(g.devs[s])
    <3>1. {"stage"} \cap ValueFields = {} /\ "type" \notin {"stage"}
      BY DEF ValueFields
    <3> QED
      BY <2>1, <2>4, <3>1, RightStays
  <2>7. Only(h.devs[s], g.devs[s], RegisterFields)
    <3> DEFINE A == {"maxX", "maxY"} \cup FitFields
               B == (PlaceFields \cup AxisFields) \cup {"absolute"}
    <3>1. Only(h.devs[s], r.devs[s], A \cup B)
      BY <1>8, <2>1, OnlyThen
    <3>2. Only(h.devs[s], g.devs[s], (A \cup B) \cup {"stage"})
      BY <2>4, <3>1, OnlyThen
    <3>3. (A \cup B) \cup {"stage"} \subseteq RegisterFields
      BY DEF RegisterFields
    <3> QED
      BY <3>2, <3>3, OnlyMore
  <2>8. g.areas = r.areas /\ g.commons = r.commons
        /\ \A e \in Sections \ {s} : g.devs[e] = r.devs[e]
    BY <2>4 DEF DevOnly
  <2> QED
    BY SMTT(20), <1>7, <2>1, <2>4, <2>5, <2>6, <2>7, <2>8 DEF Tried, PlaceOnly
<1> QED
  BY <1>9, <1>10

-----------------------------------------------------------------------------
(* A side of the area is set.                                              *)

\* What a device becomes
SideGiven(v, side, value, p) ==
    InitialCoordinates(MappingFactor([v EXCEPT !.rect[side] = value], p), AxisOf(side), p)

\* Its axis on that side is told, and the other is as it was.
AsSided(v, w, side, value) ==
    /\ Only(v, w, {"rect"} \cup AxisFields) /\ GoodDevice(w)
    /\ w.rect = [v.rect EXCEPT ![side] = value]
    /\ Right(v) => Right(w)

\* One side of the rectangle is given, and zero means the tablet's own.
LEMMA SideGivenGood ==
    ASSUME NEW v, GoodDevice(v), NEW side \in Sides, NEW value \in Int, NEW p
    PROVE  AsSided(v, SideGiven(v, side, value, p), side, value)
<1> DEFINE q == [v.rect EXCEPT ![side] = value]
           u == [v EXCEPT !.rect = q]
           m == MappingFactor(u, p)
           a == AxisOf(side)
           n == MappingFactor(m, p)
           w == InitialCoordinates(m, a, p)
<1>1. v.rect \in Rects /\ IsDevice(v) /\ HasAxes(v)
  BY DEF GoodDevice, Decent
<1>2. /\ q \in Rects
      /\ a = "x" => q.topY = v.rect.topY /\ q.bottomY = v.rect.bottomY
      /\ a # "x" => q.topX = v.rect.topX /\ q.bottomX = v.rect.bottomX
  BY <1>1 DEF Rects, Sides, AxisOf
<1>3. [v EXCEPT !.rect[side] = value] = u
  BY <1>1 DEF IsDevice, HasFields, DeviceFields
<1> HIDE DEF q, a
<1>4. Only(v, u, {"rect"}) /\ GoodDevice(u) /\ u.rect = q
  BY <1>2, RectGiven
<1> HIDE DEF u
<1>5. Only(u, m, ViewFields)
  BY <1>4, MapsOnly DEF GoodDevice, Decent
<1> HIDE DEF m
<1>6. /\ m.axes = u.axes /\ m.type = u.type /\ HasAxes(m)
  <2>1. m.axes = u.axes /\ m.type = u.type
    BY <1>5 DEF Only, ViewFields, DeviceFields
  <2> QED
    BY <1>4, <2>1 DEF GoodDevice, Decent, HasAxes
<1>7. ViewFields \cap (ValueFields \ {"axes"}) = {} /\ AxisFields \cap (ValueFields \ {"axes"}) = {}
  BY DEF ViewFields, ValueFields, AxisFields
<1>8. GoodDevice(m)
  BY <1>4, <1>5, <1>6, <1>7, GoodStays
<1>9. /\ Only(m, w, AxisFields) /\ HasAxes(w)
      /\ w.axes = IF a = "x" THEN [x |-> RangeX(n), y |-> m.axes.y]
                             ELSE [x |-> m.axes.x, y |-> RangeY(n)]
  BY <1>8, CoordinatesOnly DEF GoodDevice, Decent
<1>10. ~Twin(m) => RangeX(n) = AxisX(m) /\ RangeY(n) = AxisY(m)
  BY <1>8, AxisRanges
<1> HIDE DEF n, w
<1>11. GoodDevice(w)
  BY <1>7, <1>8, <1>9, GoodStays
<1>12. Only(v, w, {"rect"} \cup AxisFields)
  <2>1. Only(v, w, ({"rect"} \cup ViewFields) \cup AxisFields)
    BY <1>4, <1>5, <1>9, OnlyThen
  <2>2. ({"rect"} \cup ViewFields) \cup AxisFields = {"rect"} \cup AxisFields
    BY DEF AxisFields
  <2> QED
    BY <2>1, <2>2
<1>13. /\ u.maxX = v.maxX /\ u.maxY = v.maxY /\ u.absolute = v.absolute
       /\ u.twinview = v.twinview /\ u.axes = v.axes /\ u.type = v.type
  BY <1>4 DEF Only, DeviceFields
<1>14. /\ m.rect = q /\ m.maxX = v.maxX /\ m.maxY = v.maxY /\ m.absolute = v.absolute
       /\ m.twinview = v.twinview /\ m.axes = v.axes /\ m.type = v.type
  BY <1>4, <1>5, <1>6, <1>7, <1>13, ValuesStay
<1>15. /\ w.rect = q /\ w.maxX = v.maxX /\ w.maxY = v.maxY /\ w.absolute = v.absolute
       /\ w.twinview = v.twinview /\ w.type = v.type
  <2>1. w.type = m.type
    BY <1>9 DEF Only, DeviceFields, AxisFields, ViewFields
  <2> QED
    BY <1>7, <1>9, <1>14, <2>1, ValuesStay
<1>16. Right(v) => Right(w)
  <2> SUFFICES ASSUME Right(v), ~Twin(w), w.type # "pad"
               PROVE  w.axes = [x |-> AxisX(w), y |-> AxisY(w)]
    BY DEF Right
  <2>1. ~Twin(v) /\ ~Twin(m) /\ v.type # "pad"
    BY <1>14, <1>15 DEF Twin
  <2>2. v.axes = [x |-> AxisX(v), y |-> AxisY(v)]
    BY <2>1 DEF Right
  <2>3. v.axes.x = AxisX(v) /\ v.axes.y = AxisY(v)
    BY <2>2
  <2>4. AxisX(m) = AxisX(w) /\ AxisY(m) = AxisY(w)
    BY <1>14, <1>15 DEF AxisX, AxisY
  <2>5. CASE a = "x"
    <3>1. AxisY(w) = AxisY(v)
      BY <1>2, <1>15, <2>5 DEF AxisY
    <3> QED
      BY <1>9, <1>10, <1>14, <2>1, <2>3, <2>4, <2>5, <3>1
  <2>6. CASE a # "x"
    <3>1. AxisX(w) = AxisX(v)
      BY <1>2, <1>15, <2>6 DEF AxisX
    <3> QED
      BY <1>9, <1>10, <1>14, <2>1, <2>3, <2>4, <2>6, <3>1
  <2> QED
    BY <2>5, <2>6
<1>17. SideGiven(v, side, value, p) = w
  BY <1>3 DEF SideGiven, w, m, a
<1> QED
  BY <1>11, <1>12, <1>15, <1>16, <1>17 DEF AsSided, q

\* What becomes of device s when a side is set, or the change refused
SideChanged(h, g, s) ==
    /\ Sound(g) /\ Kept(h, g) /\ PlaceOnly(h, g, s)
    /\ Only(h.devs[s], g.devs[s], {"rect"} \cup AxisFields)
    /\ h.areas[s].rect = h.devs[s].rect => g.areas[s].rect = g.devs[s].rect
    /\ Right(h.devs[s]) => Right(g.devs[s])

\* A side that is refused
LEMMA SideRefusedSound ==
    ASSUME NEW h, Sound(h), NEW s \in Sections, h.devs[s].live, h.areas[s].live,
           NEW side \in Sides, NEW value, NEW g, g = SideRefused(h, s, side, value)
    PROVE  SideChanged(h, g, s)
<1> DEFINE d == h.devs[s]
           a == h.areas[s]
           back == [a.rect EXCEPT ![side] = d.rect[side]]
<1>1. IsHeap(h) /\ GoodHeap(h) /\ GoodDevice(d) /\ d.rect \in Rects
  BY DEF Sound, GoodHeap, Values, GoodDevice, Decent
<1>2. HasFields(a, AreaFields)
  BY <1>1 DEF GoodHeap, Shapes, Gone
<1>3. g = WithRect(h, s, back)
  BY <1>1, <1>2 DEF SideRefused, WithRect, IsHeap, OnSections, HasFields, AreaFields
<1>4. a.rect = d.rect => back = d.rect
  <2> SUFFICES ASSUME a.rect = d.rect PROVE [d.rect EXCEPT ![side] = d.rect[side]] = d.rect
    OBVIOUS
  <2> QED
    BY <1>1 DEF Rects
<1> HIDE DEF back
<1>5. /\ Sound(g) /\ Kept(h, g) /\ g.areas[s].rect = back
      /\ \A e \in Sections \ {s} : g.areas[e] = h.areas[e]
      /\ g.commons = h.commons /\ g.tools = h.tools /\ g.devs = h.devs
  BY <1>3, AreaGiven
<1>6. Only(h.devs[s], g.devs[s], {"rect"} \cup AxisFields)
  BY <1>1, <1>5 DEF Only, GoodDevice, Decent
<1>7. PlaceOnly(h, g, s)
  BY <1>5 DEF PlaceOnly
<1>8. g.devs[s] = d
  BY <1>5
<1>9. a.rect = d.rect => g.areas[s].rect = g.devs[s].rect
  BY <1>4, <1>5, <1>8
<1> QED
  BY <1>5, <1>6, <1>7, <1>8, <1>9 DEF SideChanged

\* A side that is given
SideTaken(h, s, side, value) ==
    [[h EXCEPT !.areas[s].rect[side] = value] EXCEPT
        !.devs[s] = SideGiven(h.devs[s], side, value, pointer)]

\* A side that overlaps no other device's area is taken, by the area too.
LEMMA SideTakenSound ==
    ASSUME NEW h, Sound(h), NEW s \in Sections, h.devs[s].live, h.areas[s].live,
           NEW side \in Sides, NEW value \in Int, NEW g, g = SideTaken(h, s, side, value)
    PROVE  SideChanged(h, g, s)
<1> DEFINE d == h.devs[s]
           a == h.areas[s]
           r == [a.rect EXCEPT ![side] = value]
           w == SideGiven(d, side, value, pointer)
<1>1. IsHeap(h) /\ GoodHeap(h) /\ GoodDevice(d)
  BY DEF Sound, GoodHeap, Values
<1>2. HasFields(a, AreaFields)
  BY <1>1 DEF GoodHeap, Shapes, Gone
<1>3. AsSided(d, w, side, value)
  BY <1>1, SideGivenGood
<1>4. g = [[h EXCEPT !.areas[s].rect[side] = value] EXCEPT !.devs[s] = w]
  BY DEF SideTaken
<1> HIDE DEF w
<1>5. [h EXCEPT !.areas[s].rect[side] = value] = WithRect(h, s, r)
  BY <1>1, <1>2 DEF WithRect, IsHeap, OnSections, HasFields, AreaFields
<1> HIDE DEF r
<1>6. g = WithRect(WithDev(h, s, w), s, r)
  BY <1>1, <1>4, <1>5 DEF WithRect, WithDev, IsHeap, OnSections
<1> HIDE DEF d
<1>7. /\ Only(d, w, {"rect"} \cup AxisFields) /\ GoodDevice(w)
      /\ w.rect = [d.rect EXCEPT ![side] = value] /\ (Right(d) => Right(w))
  BY <1>3 DEF AsSided
<1>8. Fits(d, w)
  <2>1. ({"rect"} \cup AxisFields) \cap LinkFields = {}
    BY DEF AxisFields, ViewFields, LinkFields
  <2> QED
    BY <1>7, <2>1, FitsWhen
<1>9. /\ Sound(g) /\ Kept(h, g) /\ PlaceOnly(h, g, s)
      /\ g.devs[s] = w /\ g.areas[s].rect = r
  BY <1>6, <1>8, PlaceGiven DEF d
<1>10. a.rect = d.rect => r = w.rect
  BY <1>7 DEF r
<1> QED
  BY <1>7, <1>9, <1>10 DEF SideChanged, d

\* xf86WcmSetParam for one side: refused or taken, the heap is sound.
LEMMA SideSetSound ==
    ASSUME NEW h, Sound(h), NEW s \in Sections, h.devs[s].live, h.areas[s].live,
           NEW side \in Sides, NEW value \in Int, NEW g, g = SideSet(h, s, side, value)
    PROVE  SideChanged(h, g, s)
<1> DEFINE tried == [h EXCEPT !.areas[s].rect[side] = value]
<1>1. g = IF h.devs[s].rect[side] = value THEN h
          ELSE IF Overlapped(tried, s) THEN SideRefused(h, s, side, value)
          ELSE [tried EXCEPT !.devs[s] = SideGiven(tried.devs[s], side, value, pointer)]
  BY SMTT(20) DEF SideSet, SideGiven
<1>2. tried.devs = h.devs
  BY DEF Sound, GoodHeap, IsHeap
<1>3. SideTaken(h, s, side, value)
        = [tried EXCEPT !.devs[s] = SideGiven(tried.devs[s], side, value, pointer)]
  BY <1>2 DEF SideTaken
<1> HIDE DEF tried
<1>4. \/ g = h
      \/ g = SideRefused(h, s, side, value)
      \/ g = SideTaken(h, s, side, value)
  BY <1>1, <1>3
<1>5. CASE g = h
  <2>1. Kept(h, h) /\ PlaceOnly(h, h, s)
    BY DEF Kept, PlaceOnly, Sound, GoodHeap
  <2>2. Only(h.devs[s], h.devs[s], {"rect"} \cup AxisFields)
    BY DEF Only, GoodDevice, Decent, Sound, Values
  <2> QED
    BY <1>5, <2>1, <2>2 DEF SideChanged
<1>6. CASE g = SideRefused(h, s, side, value)
  BY <1>6, SideRefusedSound
<1>7. CASE g = SideTaken(h, s, side, value)
  BY <1>7, SideTakenSound
<1> QED
  BY <1>4, <1>5, <1>6, <1>7

\* Two sides, one after the other
LEMMA SideThen ==
    ASSUME NEW h, NEW g, NEW k, NEW s \in Sections, SideChanged(h, g, s), SideChanged(g, k, s)
    PROVE  SideChanged(h, k, s)
<1> DEFINE F == {"rect"} \cup AxisFields
<1>1. Kept(h, k)
  BY KeptThen DEF SideChanged
<1>2. Only(h.devs[s], k.devs[s], F)
  <2>1. Only(h.devs[s], k.devs[s], F \cup F)
    BY OnlyThen DEF SideChanged
  <2>2. F \cup F = F
    OBVIOUS
  <2> QED
    BY <2>1, <2>2
<1> QED
  BY <1>1, <1>2 DEF SideChanged, PlaceOnly

-----------------------------------------------------------------------------
(* All devices of a tablet turn.                                           *)

\* One device of them, which has the same part of the surface.
AsTurned(h, k, e, from, to) ==
    /\ Kept(h, k) /\ GoodDevice(k.devs[e]) /\ Right(k.devs[e])
    /\ Only(h.devs[e], k.devs[e], PlaceFields \cup AxisFields)
    /\ to # "none" => k.areas[e].rect = k.devs[e].rect
    /\ SurfaceOf(k.devs[e], to) = SurfaceOf(h.devs[e], from)

\* A fellow of a turned device is turned with it.
LEMMA TurnedToSound ==
    ASSUME NEW h, Sound(h), NEW e \in Sections, h.devs[e].live, h.areas[e].live,
           NEW from \in Rotations, NEW to \in Rotations, NEW k, k = TurnedTo(h, e, from, to)
    PROVE  AsTurned(h, k, e, from, to)
<1> DEFINE d == h.devs[e]
           z == Turned(d, from)
           u == [d EXCEPT !.maxX = z.x, !.maxY = z.y,
                          !.rect = Unrotated(d.rect, d.maxX, d.maxY, from)]
<1>1. GoodDevice(d)
  BY DEF Sound, Values
<1>2. k = RotateOne(h, e, u, to)
  BY DEF TurnedTo
<1>3. /\ Only(d, u, {"rect", "maxX", "maxY"}) /\ GoodDevice(u)
      /\ [rect |-> u.rect, size |-> [x |-> u.maxX, y |-> u.maxY]] = SurfaceOf(d, from)
  BY <1>1, UnrotatedGood
<1> HIDE DEF u
<1>4. Only(h.devs[e], u, PlaceFields)
  BY <1>3 DEF PlaceFields
<1>5. OneTurned(h, k, e, u, to)
  BY <1>2, <1>3, <1>4, RotateOneSound
<1>6. Kept(h, k) /\ Sound(k)
  BY <1>5 DEF OneTurned
<1>7. GoodDevice(k.devs[e])
  <2>1. k.devs[e].live
    BY <1>6, KeptLinks
  <2> QED
    BY <1>6, <2>1 DEF Sound, Values
<1>8. SurfaceOf(k.devs[e], to) = SurfaceOf(h.devs[e], from)
  BY <1>3, <1>5 DEF OneTurned
<1> QED
  BY <1>5, <1>6, <1>7, <1>8 DEF OneTurned, AsTurned

\* The devices that turn
Fellows(h, s) == Elements(h.commons[h.devs[s].common].devices)

\* They turned, each about its own surface, and no others.
AsAllTurned(h, g, s, from, to) ==
    /\ Sound(g) /\ Kept(h, g) /\ g.commons = h.commons /\ g.tools = h.tools
    /\ \A e \in Sections \ Fellows(h, s) : g.devs[e] = h.devs[e] /\ g.areas[e] = h.areas[e]
    /\ \A e \in Fellows(h, s) :
         /\ Right(g.devs[e])
         /\ Only(h.devs[e], g.devs[e], PlaceFields \cup AxisFields)
         /\ to # "none" => g.areas[e].rect = g.devs[e].rect
         /\ SurfaceOf(g.devs[e], to) = SurfaceOf(h.devs[e], from)

\* xf86WcmRotateTablet turns every device of the tablet, and no other.
LEMMA AllTurnedSound ==
    ASSUME NEW h, Sound(h), NEW s \in Sections, h.devs[s].live,
           \A e \in Fellows(h, s) : h.devs[e].toolarea,
           NEW from \in Rotations, NEW to \in Rotations, NEW g, g = AllTurned(h, s, from, to)
    PROVE  AsAllTurned(h, g, s, from, to)
<1> DEFINE all == Fellows(h, s)
           One(e) == TurnedTo(h, e, from, to)
           newDevs == [e \in Sections |-> IF e \in all THEN One(e).devs[e] ELSE h.devs[e]]
           newAreas == [e \in Sections |-> IF e \in all THEN One(e).areas[e] ELSE h.areas[e]]
<1>1. IsHeap(h) /\ GoodHeap(h)
  BY DEF Sound, GoodHeap
<1>2. g = [h EXCEPT !.devs = newDevs, !.areas = newAreas]
  BY DEF AllTurned, Fellows, Common
<1>3. \A e \in all : e \in Sections /\ h.devs[e].live /\ h.areas[e].live
  <2>1. /\ List(h.commons[h.devs[s].common].devices)
        /\ \A e \in all : h.devs[e].live
    BY <1>1 DEF GoodHeap, Linked, Fellows
  <2>2. all \subseteq Sections
    BY <2>1, ElementsIn DEF Fellows
  <2>3. \A e \in Sections : h.devs[e].live /\ h.devs[e].toolarea => h.areas[e].live
    BY <1>1 DEF GoodHeap, Linked
  <2> HIDE DEF all
  <2>4. \A e \in all : h.devs[e].toolarea
    BY DEF all
  <2> QED
    BY <2>1, <2>2, <2>3, <2>4
<1>4. \A e \in all : AsTurned(h, One(e), e, from, to)
  BY <1>3, TurnedToSound
<1> HIDE DEF One, all
<1>5. /\ g.commons = h.commons /\ g.tools = h.tools /\ IsHeap(g)
      /\ g.devs = newDevs /\ g.areas = newAreas
  <2>1. newDevs = [e \in Sections |-> newDevs[e]] /\ newAreas = [e \in Sections |-> newAreas[e]]
    OBVIOUS
  <2> HIDE DEF newDevs, newAreas
  <2> QED
    BY ZenonT(30), <1>1, <1>2, <2>1 DEF IsHeap, OnSections
<1>6. /\ \A e \in Sections \ all : g.devs[e] = h.devs[e] /\ g.areas[e] = h.areas[e]
      /\ \A e \in all : g.devs[e] = One(e).devs[e] /\ g.areas[e] = One(e).areas[e]
  BY <1>3, <1>5
<1> HIDE DEF newDevs, newAreas
<1>7. ASSUME NEW e \in all
      PROVE  /\ Right(g.devs[e]) /\ GoodDevice(g.devs[e])
             /\ Only(h.devs[e], g.devs[e], PlaceFields \cup AxisFields)
             /\ to # "none" => g.areas[e].rect = g.devs[e].rect
             /\ SurfaceOf(g.devs[e], to) = SurfaceOf(h.devs[e], from)
  <2>1. AsTurned(h, One(e), e, from, to) /\ g.devs[e] = One(e).devs[e] /\ g.areas[e] = One(e).areas[e]
    BY <1>4, <1>6
  <2> QED
    BY <2>1 DEF AsTurned
<1>8. Kept(h, g)
  <2> SUFFICES ASSUME NEW e \in Sections
               PROVE  /\ g.devs[e] = h.devs[e]
                           \/ (h.devs[e].live /\ IsDevice(g.devs[e])
                               /\ \A f \in LinkFields : g.devs[e][f] = h.devs[e][f])
                      /\ g.areas[e] = h.areas[e]
                           \/ (h.areas[e].live /\ HasFields(g.areas[e], AreaFields)
                               /\ g.areas[e].live = h.areas[e].live)
    BY <1>5 DEF Kept
  <2>1. CASE e \notin all
    BY <1>6, <2>1
  <2>2. CASE e \in all
    <3>1. Kept(h, One(e))
      BY <1>4, <2>2 DEF AsTurned
    <3>2. g.devs[e] = One(e).devs[e] /\ g.areas[e] = One(e).areas[e]
      BY <1>6, <2>2
    <3> QED
      BY <3>1, <3>2 DEF Kept
  <2> QED
    BY <2>1, <2>2
<1>9. Values(g)
  <2>1. \A e \in Sections : g.devs[e].live => GoodDevice(g.devs[e])
    BY <1>6, <1>7 DEF Sound, Values
  <2> QED
    BY <1>5, <2>1 DEF Sound, Values
<1>10. Sound(g)
  BY <1>1, <1>8, <1>9, KeptGood DEF Sound
<1> QED
  BY <1>5, <1>6, <1>7, <1>8, <1>10 DEF AsAllTurned, all

-----------------------------------------------------------------------------
(* A device is added.                                                      *)

\* The device that a section o describes, which has this tablet and tool
IsNew(v, o, c, t) ==
    /\ GoodDevice(v) /\ v.tvoffset = NoOffset
    /\ v.live = TRUE /\ v.listed = TRUE /\ v.toolarea = TRUE
    /\ v.common = c /\ v.tool = t
    /\ v.stage = "configured" /\ v.source = o.source

\* Nothing has the name s in heap h.
NoneNamed(h, s) ==
    ~h.devs[s].live /\ ~h.commons[s].live /\ ~h.tools[s].live /\ ~h.areas[s].live

\* Heap g is h with device s of tablet c and tool t, new ones if they are s.
Added(h, g, s, o, c, t) ==
    /\ IsHeap(g)
    /\ IsNew(g.devs[s], o, c, t)
    /\ HasFields(g.areas[s], AreaFields) /\ g.areas[s].live = TRUE
    /\ \A e \in Sections \ {s} : g.devs[e] = h.devs[e] /\ g.areas[e] = h.areas[e]
    /\ \A e \in Sections \ {s, t} : g.tools[e] = h.tools[e]
    /\ \A e \in Sections \ {s, c} : g.commons[e] = h.commons[e]
    /\ HasFields(g.tools[t], ToolFields) /\ g.tools[t].live = TRUE
    /\ IF t = s THEN g.tools[t].areas = <<s>>
       ELSE /\ g.tools[s] = Gone
            /\ g.tools[t].areas = Append(h.tools[t].areas, s)
    /\ HasFields(g.commons[c], CommonFields) /\ g.commons[c].live = TRUE
    /\ g.commons[c].rotate \in Rotations
    /\ IF c = s THEN g.commons[c].devices = <<s>> /\ g.commons[c].tools = <<s>>
       ELSE /\ g.commons[s] = Gone
            /\ g.commons[c].devices = <<s>> \o h.commons[c].devices
            /\ g.commons[c].tools = IF t = s THEN Append(h.commons[c].tools, s)
                                             ELSE h.commons[c].tools
            /\ g.commons[c].min_maj = h.commons[c].min_maj

\* Where device s may go
Room(h, s, c, t) ==
    /\ c \in Sections /\ t \in Sections
    /\ c # s => h.commons[c].live
    /\ t # s => c # s /\ t \in Elements(h.commons[c].tools)

\* The lists after a device was added
ListsAfter(h, g, s, c, t) ==
    /\ List(g.tools[t].areas) /\ g.tools[t].areas # <<>>
    /\ Elements(g.tools[t].areas) =
         (IF t = s THEN {} ELSE Elements(h.tools[t].areas)) \cup {s}
    /\ List(g.commons[c].devices) /\ List(g.commons[c].tools)
    /\ Elements(g.commons[c].devices) =
         (IF c = s THEN {} ELSE Elements(h.commons[c].devices)) \cup {s}
    /\ Elements(g.commons[c].tools) =
         (IF c = s THEN {} ELSE Elements(h.commons[c].tools))
           \cup (IF t = s THEN {s} ELSE {})

\* The lists a new device is added to, and those it is not
LEMMA AddedLists ==
    ASSUME NEW h, Sound(h), NEW s \in Sections, NoneNamed(h, s), NEW o, NEW c, NEW t,
           Room(h, s, c, t), NEW g, Added(h, g, s, o, c, t)
    PROVE  ListsAfter(h, g, s, c, t)
<1>1. Linked(h) /\ c \in Sections /\ t \in Sections
  BY DEF Sound, GoodHeap, Room
<1>2. c # s => /\ h.commons[c].live
               /\ List(h.commons[c].devices) /\ List(h.commons[c].tools)
               /\ \A e \in Elements(h.commons[c].devices) : h.devs[e].live
               /\ \A e \in Elements(h.commons[c].tools) : h.tools[e].live
  BY <1>1 DEF Linked, Room
<1>3. t # s => h.tools[t].live /\ c # s
  BY <1>2 DEF Room
<1>4. t # s => List(h.tools[t].areas) /\ \A a \in Elements(h.tools[t].areas) : h.devs[a].live
  BY <1>1, <1>3 DEF Linked
<1>5. ~h.devs[s].live /\ ~h.tools[s].live
  BY DEF NoneNamed
<1>6. /\ List(g.tools[t].areas) /\ g.tools[t].areas # <<>>
      /\ Elements(g.tools[t].areas) =
           (IF t = s THEN {} ELSE Elements(h.tools[t].areas)) \cup {s}
  <2>1. CASE t = s
    <3>1. g.tools[t].areas = <<s>>
      BY <2>1 DEF Added
    <3> QED
      BY <2>1, <3>1, Single
  <2>2. CASE t # s
    <3> DEFINE q == h.tools[t].areas
    <3>1. g.tools[t].areas = Append(q, s) /\ List(q) /\ s \notin Elements(q)
      BY <1>4, <1>5, <2>2 DEF Added
    <3> HIDE DEF q
    <3>2. /\ List(Append(q, s)) /\ Elements(Append(q, s)) = Elements(q) \cup {s}
          /\ Append(q, s) # <<>>
      BY <3>1, AddedBehind
    <3> QED
      BY <2>2, <3>1, <3>2 DEF q
  <2> QED
    BY <2>1, <2>2
<1>7. /\ List(g.commons[c].devices)
      /\ Elements(g.commons[c].devices) =
           (IF c = s THEN {} ELSE Elements(h.commons[c].devices)) \cup {s}
  <2>1. CASE c = s
    <3>1. g.commons[c].devices = <<s>>
      BY <2>1 DEF Added
    <3> QED
      BY <2>1, <3>1, Single
  <2>2. CASE c # s
    <3> DEFINE q == h.commons[c].devices
    <3>1. g.commons[c].devices = <<s>> \o q /\ List(q) /\ s \notin Elements(q)
      BY <1>2, <1>5, <2>2 DEF Added
    <3> HIDE DEF q
    <3>2. List(<<s>> \o q) /\ Elements(<<s>> \o q) = Elements(q) \cup {s}
      BY <3>1, AddedInFront
    <3> QED
      BY <2>2, <3>1, <3>2 DEF q
  <2> QED
    BY <2>1, <2>2
<1>8. /\ List(g.commons[c].tools)
      /\ Elements(g.commons[c].tools) =
           (IF c = s THEN {} ELSE Elements(h.commons[c].tools))
             \cup (IF t = s THEN {s} ELSE {})
  <2>1. CASE c = s
    <3>1. g.commons[c].tools = <<s>> /\ t = s
      BY <1>3, <2>1 DEF Added
    <3> QED
      BY <2>1, <3>1, Single
  <2>2. CASE c # s /\ t = s
    <3> DEFINE q == h.commons[c].tools
    <3>1. g.commons[c].tools = Append(q, s) /\ List(q) /\ s \notin Elements(q)
      BY <1>2, <1>5, <2>2 DEF Added
    <3> HIDE DEF q
    <3>2. List(Append(q, s)) /\ Elements(Append(q, s)) = Elements(q) \cup {s}
      BY <3>1, AddedBehind
    <3> QED
      BY <2>2, <3>1, <3>2 DEF q
  <2>3. CASE c # s /\ t # s
    <3>1. g.commons[c].tools = h.commons[c].tools
      BY <2>3 DEF Added
    <3> QED
      BY <1>2, <2>3, <3>1
  <2> QED
    BY <2>1, <2>2, <2>3
<1> QED
  BY <1>6, <1>7, <1>8 DEF ListsAfter

\* What the others are when device s was added
AsConfigured(h, g, s, o) ==
    /\ Sound(g)
    /\ \A e \in Sections \ {s} : /\ g.devs[e] = h.devs[e] /\ g.areas[e] = h.areas[e]
                                 /\ h.commons[e].live =>
                                      /\ g.commons[e].live
                                      /\ g.commons[e].min_maj = h.commons[e].min_maj
    /\ g.devs[s].stage = "configured" /\ g.devs[s].source = o.source /\ g.devs[s].live

\* A device with an area that overlaps none is added to its tablet and tool, and the heap
\* is sound.
LEMMA AddedSound ==
    ASSUME NEW h, Sound(h), NEW s \in Sections, NoneNamed(h, s), NEW o, NEW c, NEW t,
           Room(h, s, c, t), NEW g, Added(h, g, s, o, c, t)
    PROVE  AsConfigured(h, g, s, o)
<1>1. /\ Linked(h) /\ Shapes(h) /\ Values(h) /\ c \in Sections /\ t \in Sections
      /\ Gone.live = FALSE /\ IsHeap(g)
  BY DEF Sound, GoodHeap, Room, Gone, Added
<1>2. ~h.devs[s].live /\ ~h.commons[s].live /\ ~h.tools[s].live /\ ~h.areas[s].live
  BY DEF NoneNamed
<1>3. /\ IsDevice(g.devs[s]) /\ GoodDevice(g.devs[s])
      /\ g.devs[s].live = TRUE /\ g.devs[s].listed = TRUE /\ g.devs[s].toolarea = TRUE
      /\ g.devs[s].common = c /\ g.devs[s].tool = t
      /\ g.devs[s].stage = "configured" /\ g.devs[s].source = o.source
  BY DEF Added, IsNew, GoodDevice, Decent
<1>4. /\ HasFields(g.areas[s], AreaFields) /\ g.areas[s].live = TRUE
      /\ \A e \in Sections \ {s} : g.devs[e] = h.devs[e] /\ g.areas[e] = h.areas[e]
      /\ \A e \in Sections \ {s, t} : g.tools[e] = h.tools[e]
      /\ \A e \in Sections \ {s, c} : g.commons[e] = h.commons[e]
      /\ HasFields(g.tools[t], ToolFields) /\ g.tools[t].live = TRUE
      /\ t # s => g.tools[s] = Gone
      /\ HasFields(g.commons[c], CommonFields) /\ g.commons[c].live = TRUE
      /\ g.commons[c].rotate \in Rotations
      /\ c # s => g.commons[s] = Gone /\ g.commons[c].min_maj = h.commons[c].min_maj
  BY DEF Added
<1>5. /\ List(g.tools[t].areas) /\ g.tools[t].areas # <<>>
      /\ Elements(g.tools[t].areas) =
           (IF t = s THEN {} ELSE Elements(h.tools[t].areas)) \cup {s}
      /\ List(g.commons[c].devices) /\ List(g.commons[c].tools)
      /\ Elements(g.commons[c].devices) =
           (IF c = s THEN {} ELSE Elements(h.commons[c].devices)) \cup {s}
      /\ Elements(g.commons[c].tools) =
           (IF c = s THEN {} ELSE Elements(h.commons[c].tools))
             \cup (IF t = s THEN {s} ELSE {})
  <2>1. ListsAfter(h, g, s, c, t)
    BY AddedLists
  <2> QED
    BY <2>1 DEF ListsAfter
<1>6. /\ c # s => h.commons[c].live
      /\ t # s => c # s /\ t \in Elements(h.commons[c].tools)
  BY DEF Room
<1>7. t # s => h.tools[t].live
  BY <1>1, <1>6 DEF Linked
<1>8. Shapes(g)
  <2> SUFFICES ASSUME NEW e \in Sections
               PROVE  /\ g.devs[e] = Gone \/ (IsDevice(g.devs[e]) /\ g.devs[e].live = TRUE)
                      /\ g.commons[e] = Gone
                           \/ (HasFields(g.commons[e], CommonFields) /\ g.commons[e].live = TRUE)
                      /\ g.tools[e] = Gone
                           \/ (HasFields(g.tools[e], ToolFields) /\ g.tools[e].live = TRUE)
                      /\ g.areas[e] = Gone
                           \/ (HasFields(g.areas[e], AreaFields) /\ g.areas[e].live = TRUE)
    BY DEF Shapes
  <2>1. /\ h.devs[e] = Gone \/ (IsDevice(h.devs[e]) /\ h.devs[e].live = TRUE)
        /\ h.commons[e] = Gone
             \/ (HasFields(h.commons[e], CommonFields) /\ h.commons[e].live = TRUE)
        /\ h.tools[e] = Gone \/ (HasFields(h.tools[e], ToolFields) /\ h.tools[e].live = TRUE)
        /\ h.areas[e] = Gone \/ (HasFields(h.areas[e], AreaFields) /\ h.areas[e].live = TRUE)
    BY <1>1 DEF Shapes
  <2> QED
    BY <1>3, <1>4, <2>1
<1>9. Linked(g)
  <2>1. ASSUME NEW e \in Sections, g.devs[e].live
        PROVE  /\ g.devs[e].listed
               /\ g.devs[e].common \in Sections /\ g.devs[e].tool \in Sections
               /\ g.commons[g.devs[e].common].live
               /\ g.tools[g.devs[e].tool].live
               /\ g.devs[e].tool \in Elements(g.commons[g.devs[e].common].tools)
               /\ g.devs[e].toolarea =>
                    /\ g.areas[e].live
                    /\ e \in Elements(g.tools[g.devs[e].tool].areas)
                    /\ e \in Elements(g.commons[g.devs[e].common].devices)
    <3>1. CASE e = s
      <4>1. t \in Elements(g.commons[c].tools)
        BY <1>5, <1>6
      <4>2. s \in Elements(g.tools[t].areas) /\ s \in Elements(g.commons[c].devices)
        BY <1>5
      <4> QED
        BY <1>1, <1>3, <1>4, <3>1, <4>1, <4>2
    <3>2. CASE e # s
      <4> DEFINE y == h.devs[e].tool
                 b == h.devs[e].common
      <4>1. g.devs[e] = h.devs[e] /\ g.areas[e] = h.areas[e] /\ h.devs[e].live
        BY <1>4, <2>1, <3>2
      <4>2. /\ h.devs[e].listed
            /\ y \in Sections /\ b \in Sections /\ h.commons[b].live /\ h.tools[y].live
            /\ y \in Elements(h.commons[b].tools)
            /\ h.devs[e].toolarea =>
                 h.areas[e].live /\ e \in Elements(h.tools[y].areas)
                 /\ e \in Elements(h.commons[b].devices)
        BY <1>1, <4>1 DEF Linked
      <4>3. g.devs[e].tool = y /\ g.devs[e].common = b /\ g.devs[e].listed
            /\ g.devs[e].toolarea = h.devs[e].toolarea
        BY <4>1, <4>2
      <4> HIDE DEF y, b
      <4>4. y # s /\ b # s
        BY <1>2, <4>2
      <4>5. /\ g.commons[b].live
            /\ Elements(h.commons[b].tools) \subseteq Elements(g.commons[b].tools)
            /\ Elements(h.commons[b].devices) \subseteq Elements(g.commons[b].devices)
        BY <1>4, <1>5, <4>2, <4>4
      <4>6. g.tools[y].live /\ Elements(h.tools[y].areas) \subseteq Elements(g.tools[y].areas)
        BY <1>4, <1>5, <4>2, <4>4
      <4> QED
        BY <4>1, <4>2, <4>3, <4>5, <4>6
    <3> QED
      BY <3>1, <3>2
  <2>2. ASSUME NEW b \in Sections, g.commons[b].live
        PROVE  /\ List(g.commons[b].devices) /\ List(g.commons[b].tools)
               /\ \A e \in Elements(g.commons[b].devices) : g.devs[e].live /\ g.devs[e].common = b
               /\ \A y \in Elements(g.commons[b].tools) :
                    /\ g.tools[y].live
                    /\ \A a \in Elements(g.tools[y].areas) : g.devs[a].common = b
    <3>0. b # s => h.commons[b].live
      BY <1>1, <1>4, <1>6, <2>2
    <3>1. b # s =>
            /\ List(h.commons[b].devices) /\ List(h.commons[b].tools)
            /\ \A e \in Elements(h.commons[b].devices) : h.devs[e].live /\ h.devs[e].common = b
            /\ \A y \in Elements(h.commons[b].tools) :
                 /\ h.tools[y].live
                 /\ \A a \in Elements(h.tools[y].areas) : h.devs[a].common = b
      BY <1>1, <3>0 DEF Linked
    <3>2. b = s => c = s
      BY <1>1, <1>4, <2>2
    <3>3. List(g.commons[b].devices) /\ List(g.commons[b].tools)
      BY <1>4, <1>5, <3>1, <3>2
    <3>4. /\ Elements(g.commons[b].devices) \subseteq
               (IF b = s THEN {} ELSE Elements(h.commons[b].devices)) \cup (IF b = c THEN {s} ELSE {})
          /\ Elements(g.commons[b].tools) \subseteq
               (IF b = s THEN {} ELSE Elements(h.commons[b].tools))
                 \cup (IF b = c /\ t = s THEN {s} ELSE {})
      BY <1>4, <1>5, <3>2
    <3>5. \A e \in Sections : h.devs[e].live =>
            e # s /\ g.devs[e].live /\ g.devs[e].common = h.devs[e].common
      BY <1>2, <1>4
    <3>6. \A e \in Elements(g.commons[b].devices) : g.devs[e].live /\ g.devs[e].common = b
      <4> SUFFICES ASSUME NEW e \in Elements(g.commons[b].devices)
                   PROVE  g.devs[e].live /\ g.devs[e].common = b
        OBVIOUS
      <4>1. CASE e = s /\ b = c
        BY <1>3, <4>1
      <4>2. CASE b # s /\ e \in Elements(h.commons[b].devices)
        <5>1. e \in Sections
          BY <3>1, <4>2, ElementsIn
        <5> QED
          BY <3>1, <3>5, <4>2, <5>1
      <4> QED
        BY <3>4, <4>1, <4>2
    <3>7. ASSUME NEW y \in Elements(g.commons[b].tools)
          PROVE  g.tools[y].live /\ \A a \in Elements(g.tools[y].areas) : g.devs[a].common = b
      <4>1. CASE y = s /\ b = c /\ t = s
        <5>1. Elements(g.tools[y].areas) = {s}
          BY <1>5, <4>1
        <5> QED
          BY <1>3, <1>4, <4>1, <5>1
      <4>2. CASE b # s /\ y \in Elements(h.commons[b].tools)
        <5>1. y \in Sections /\ h.tools[y].live /\ y # s
          BY <1>2, <3>1, <4>2, ElementsIn
        <5>2. List(h.tools[y].areas) /\ \A a \in Elements(h.tools[y].areas) : h.devs[a].live
          BY <1>1, <5>1 DEF Linked
        <5>3. \A a \in Elements(h.tools[y].areas) : a \in Sections /\ g.devs[a].common = b
          BY <3>1, <3>5, <4>2, <5>2, ElementsIn
        <5>4. CASE y # t
          <6>1. g.tools[y] = h.tools[y]
            BY <1>4, <5>1, <5>4
          <6> QED
            BY <5>1, <5>3, <6>1
        <5>5. CASE y = t
          <6>1. b = c
            <7>1. t \in Elements(h.commons[c].tools) /\ h.commons[c].live
              BY <1>6, <5>1, <5>5
            <7>2. /\ \A a \in Elements(h.tools[t].areas) : h.devs[a].common = c
                  /\ List(h.tools[t].areas) /\ h.tools[t].areas # <<>>
              BY <1>1, <5>1, <5>5, <7>1 DEF Linked
            <7>3. Head(h.tools[t].areas) \in Elements(h.tools[t].areas)
              BY <7>2, HeadIn
            <7> QED
              BY <3>1, <4>2, <5>5, <7>2, <7>3
          <6>2. Elements(g.tools[t].areas) = Elements(h.tools[t].areas) \cup {s}
            BY <1>5, <5>1, <5>5
          <6> QED
            BY <1>3, <1>4, <5>3, <5>5, <6>1, <6>2
        <5> QED
          BY <5>4, <5>5
      <4> QED
        BY <3>4, <4>1, <4>2
    <3> QED
      BY <3>3, <3>6, <3>7
  <2>3. ASSUME NEW y \in Sections, g.tools[y].live
        PROVE  /\ List(g.tools[y].areas) /\ g.tools[y].areas # <<>>
               /\ \A a \in Elements(g.tools[y].areas) :
                    g.devs[a].live /\ g.devs[a].toolarea /\ g.devs[a].tool = y
    <3>0. y # s => h.tools[y].live
      BY <1>4, <1>7, <2>3
    <3>1. y # s =>
            /\ List(h.tools[y].areas) /\ h.tools[y].areas # <<>>
            /\ \A a \in Elements(h.tools[y].areas) :
                 h.devs[a].live /\ h.devs[a].toolarea /\ h.devs[a].tool = y
      BY <1>1, <3>0 DEF Linked
    <3>2. y = s => t = s
      BY <1>1, <1>4, <2>3
    <3>3. y # s => \A a \in Elements(h.tools[y].areas) :
             a \in Sections \ {s} /\ g.devs[a] = h.devs[a]
      BY <1>2, <1>4, <3>1, ElementsIn
    <3>4. CASE y = t
      BY <1>3, <1>5, <3>1, <3>3, <3>4
    <3>5. CASE y # t
      <4>1. y # s /\ g.tools[y] = h.tools[y]
        BY <1>4, <3>2, <3>5
      <4> QED
        BY <3>1, <3>3, <4>1
    <3> QED
      BY <3>4, <3>5
  <2> QED
    BY <2>1, <2>2, <2>3 DEF Linked
<1>10. Values(g)
  <2> SUFFICES ASSUME NEW e \in Sections
               PROVE  /\ g.devs[e].live => GoodDevice(g.devs[e])
                      /\ g.commons[e].live => g.commons[e].rotate \in Rotations
    BY DEF Values
  <2>1. h.devs[e].live => GoodDevice(h.devs[e])
    BY <1>1 DEF Values
  <2>2. h.commons[e].live => h.commons[e].rotate \in Rotations
    BY <1>1 DEF Values
  <2> QED
    BY <1>1, <1>3, <1>4, <2>1, <2>2
<1>11. Sound(g)
  BY <1>1, <1>8, <1>9, <1>10 DEF Sound, GoodHeap
<1>12. \A e \in Sections \ {s} : h.commons[e].live =>
         g.commons[e].live /\ g.commons[e].min_maj = h.commons[e].min_maj
  BY <1>4
<1> QED
  BY <1>3, <1>4, <1>11, <1>12 DEF AsConfigured

-----------------------------------------------------------------------------
(* How a device is added.                                                  *)

\* What a section may say
LEMMA SectionIs ==
    ASSUME NEW s \in Sections, NEW o \in Options[s]
    PROVE  /\ o.rect \in Rects /\ o.rotate \in Rotations /\ o.twinview \in TwinViews
           /\ o.type \in Types /\ o.source \in {"conf", "hotplug"}
<1> DEFINE R == [type: Types, path: Paths, source: {"conf", "hotplug"}, serial: Nat,
                 core: BOOLEAN, rect: [Sides -> Nat], rotate: Rotations,
                 mode: {"absolute", "relative", "default"}, twinview: TwinViews,
                 screen_no: -1 .. 9, shape: BOOLEAN, touch: {"on", "off", "default"}]
<1>1. o \in R
  <2>1. Options \in [Sections -> SUBSET R]
    BY SetupAssumption
  <2> HIDE DEF R
  <2> QED
    BY <2>1
<1>2. o.rect \in [Sides -> Nat] /\ o.rotate \in Rotations /\ o.twinview \in TwinViews
      /\ o.type \in Types /\ o.source \in {"conf", "hotplug"}
  BY <1>1
<1>3. o.rect \in Rects
  BY <1>2 DEF Rects
<1> QED
  BY <1>2, <1>3

\* Device s has joined tablet c of heap h, but its tool has not.
Between(h, g, s, o, c) ==
    /\ IsHeap(g)
    /\ IsNew(g.devs[s], o, c, s)
    /\ HasFields(g.areas[s], AreaFields) /\ g.areas[s].live = TRUE
    /\ HasFields(g.tools[s], ToolFields) /\ g.tools[s].live = TRUE /\ g.tools[s].areas = <<s>>
    /\ \A e \in Sections \ {s} : /\ g.devs[e] = h.devs[e] /\ g.areas[e] = h.areas[e]
                                 /\ g.tools[e] = h.tools[e]
    /\ \A e \in Sections \ {s, c} : g.commons[e] = h.commons[e]
    /\ HasFields(g.commons[c], CommonFields) /\ g.commons[c].live = TRUE
    /\ g.commons[c].rotate \in Rotations
    /\ IF c = s THEN g.commons[c].devices = <<s>> /\ g.commons[c].tools = <<s>>
       ELSE /\ g.commons[s] = Gone
            /\ g.commons[c].devices = <<s>> \o h.commons[c].devices
            /\ g.commons[c].tools = h.commons[c].tools
            /\ g.commons[c].min_maj = h.commons[c].min_maj

\* A device that was just allocated.
LEMMA NewIs ==
    ASSUME NEW s \in Sections, NEW o \in Options[s]
    PROVE  IsNew(NewDevice(s, o), o, s, s)
<1> DEFINE v == NewDevice(s, o)
<1>1. IsDevice(v)
  BY DEF NewDevice, IsDevice, HasFields, DeviceFields
<1>2. /\ v.axes = [x |-> <<0, 0>>, y |-> <<0, 0>>] /\ v.rect = Whole /\ v.maxX = 0 /\ v.maxY = 0
      /\ v.absolute = (o.type \in AbsoluteTypes(o.path)) /\ v.twinview = "none"
      /\ v.tvResolution = <<0, 0, 0, 0>> /\ v.tvoffset = NoOffset
  BY DEF NewDevice, NoOffset
<1>3. /\ v.live = TRUE /\ v.listed = TRUE /\ v.toolarea = TRUE /\ v.common = s /\ v.tool = s
      /\ v.stage = "configured" /\ v.source = o.source
  BY DEF NewDevice
<1> HIDE DEF v
<1>4. Whole \in Rects
  BY RectArea DEF Whole
<1>5. Resolution(v.tvResolution)
  BY <1>2 DEF Resolution
<1>6. HasAxes(v)
  BY <1>2 DEF HasAxes
<1>7. v.absolute \in BOOLEAN
  BY <1>2
<1>8. GoodDevice(v)
  BY <1>1, <1>2, <1>4, <1>5, <1>6, <1>7 DEF GoodDevice, Decent, TwinViews
<1> QED
  BY <1>2, <1>3, <1>8 DEF IsNew, v

\* Allocated starts the way from the old heap to the configured one.
LEMMA AllocatedBetween ==
    ASSUME IsHeap(Heap), NEW s \in Sections, NEW o \in Options[s], NEW keys
    PROVE  Between(Heap, Allocated(s, o, keys), s, o, s)
<1> DEFINE g == Allocated(s, o, keys)
           v == NewDevice(s, o)
           w == NewCommon(s, o, keys)
           u == [live |-> TRUE, typeid |-> o.type, serial |-> 0, areas |-> <<s>>]
           a == [live |-> TRUE, rect |-> Whole]
<1>1. IsNew(v, o, s, s)
  BY NewIs
<1>2. /\ HasFields(w, CommonFields) /\ w.live = TRUE /\ w.rotate = "none"
      /\ w.devices = <<s>> /\ w.tools = <<s>>
  BY DEF NewCommon, HasFields, CommonFields
<1>3. HasFields(u, ToolFields) /\ u.live = TRUE /\ u.areas = <<s>>
  BY DEF HasFields, ToolFields
<1>4. HasFields(a, AreaFields) /\ a.live = TRUE
  BY DEF HasFields, AreaFields
<1>5. g = [devs |-> [devs EXCEPT ![s] = v], commons |-> [commons EXCEPT ![s] = w],
           tools |-> [tools EXCEPT ![s] = u], areas |-> [areas EXCEPT ![s] = a]]
  BY DEF Allocated
<1>6. OnSections(devs) /\ OnSections(commons) /\ OnSections(tools) /\ OnSections(areas)
  BY DEF IsHeap, Heap
<1> HIDE DEF v, w, u, a, g
<1>7. /\ IsHeap(g) /\ g.devs[s] = v /\ g.commons[s] = w /\ g.tools[s] = u /\ g.areas[s] = a
      /\ \A e \in Sections \ {s} : /\ g.devs[e] = devs[e] /\ g.areas[e] = areas[e]
                                   /\ g.tools[e] = tools[e] /\ g.commons[e] = commons[e]
  BY <1>5, <1>6 DEF IsHeap, OnSections
<1> QED
  BY <1>1, <1>2, <1>3, <1>4, <1>7 DEF Between, Heap, Rotations, g

\* A tablet that another section was configured for
LEMMA MatchedBetween ==
    ASSUME NEW h, Sound(h), NEW s \in Sections, NoneNamed(h, s), NEW o, NEW g,
           Between(h, g, s, o, s)
    PROVE  \E c \in Sections : /\ Between(h, Matched(g, s), s, o, c)
                               /\ c # s => h.commons[c].live
<1>1. CASE Matching(g, s) = {}
  BY <1>1 DEF Matched
<1>2. CASE Matching(g, s) # {}
  <2> DEFINE e == CHOOSE x \in Matching(g, s) : TRUE
             c == g.devs[e].common
             k == Matched(g, s)
             q == <<s>> \o h.commons[c].devices
  <2>1. e \in Matching(g, s)
    BY <1>2
  <2>2. e \in Sections \ {s} /\ g.devs[e].live
    BY <2>1 DEF Matching
  <2>3. k = [g EXCEPT !.devs[s].common = c, !.commons[s] = Gone,
                      !.commons[c].devices = <<s>> \o @]
    BY <1>2 DEF Matched
  <2> HIDE DEF e, k
  <2>4. g.devs[e] = h.devs[e] /\ h.devs[e].live
    BY <2>2 DEF Between
  <2>5. c \in Sections /\ h.commons[c].live /\ c # s
    BY <2>2, <2>4 DEF Sound, GoodHeap, Linked, NoneNamed
  <2>6. HasFields(h.commons[c], CommonFields) /\ h.commons[c].live = TRUE
    BY <2>5 DEF Sound, GoodHeap, Shapes, Gone
  <2>7. h.commons[c].rotate \in Rotations
    BY <2>5 DEF Sound, Values
  <2> HIDE DEF c
  <2>8. IsHeap(g) /\ g.commons[c] = h.commons[c]
    BY <2>5 DEF Between
  <2> DEFINE u == g.devs[s]
             v == [u EXCEPT !.common = c]
             w == [h.commons[c] EXCEPT !.devices = q]
  <2> HIDE DEF q
  <2>9. /\ IsHeap(k) /\ k.devs[s] = v /\ k.commons[s] = Gone /\ k.commons[c] = w
        /\ k.tools = g.tools /\ k.areas = g.areas
        /\ \A x \in Sections \ {s} : k.devs[x] = g.devs[x]
        /\ \A x \in Sections \ {s, c} : k.commons[x] = g.commons[x]
    <3>1. k = [g EXCEPT !.devs[s].common = c, !.commons[s] = Gone, !.commons[c].devices = q]
      BY <2>3, <2>5, <2>8 DEF IsHeap, OnSections, q
    <3> QED
      BY <2>5, <2>8, <3>1 DEF IsHeap, OnSections
  <2>10. /\ HasFields(w, CommonFields) /\ w.live = TRUE /\ w.rotate \in Rotations
         /\ w.devices = q /\ w.tools = h.commons[c].tools
         /\ w.min_maj = h.commons[c].min_maj
    BY <2>6, <2>7 DEF HasFields, CommonFields
  <2>11. IsNew(u, o, s, s)
    BY DEF Between
  <2>12. /\ Only(u, v, {"common"}) /\ v.common = c /\ v.tool = s /\ v.axes = u.axes
         /\ v.live = TRUE /\ v.listed = TRUE /\ v.toolarea = TRUE
         /\ v.stage = "configured" /\ v.source = o.source
    <3> HIDE DEF u
    <3> QED
      BY <2>11 DEF IsNew, Only, GoodDevice, Decent, IsDevice, HasFields, DeviceFields
  <2> HIDE DEF u, v, w
  <2>13. GoodDevice(v) /\ v.tvoffset = NoOffset
    <3>1. HasAxes(v)
      BY <2>11, <2>12 DEF HasAxes, IsNew, GoodDevice, Decent
    <3>2. {"common"} \cap (ValueFields \ {"axes"}) = {}
      BY DEF ValueFields
    <3> QED
      BY <2>11, <2>12, <3>1, <3>2, GoodStays, ValuesStay DEF IsNew
  <2>14. IsNew(v, o, c, s)
    BY <2>12, <2>13 DEF IsNew
  <2>15. Between(h, k, s, o, c)
    BY <2>5, <2>9, <2>10, <2>14 DEF Between, q
  <2> QED
    BY <2>5, <2>15 DEF k
<1> QED
  BY <1>1, <1>2


\* The tablet's own options
LEMMA BetweenCommon ==
    ASSUME NEW h, NEW s \in Sections, NEW o, NEW c \in Sections, NEW g, Between(h, g, s, o, c),
           NEW w, HasFields(w, CommonFields), w.live = TRUE, w.rotate \in Rotations,
           w.devices = g.commons[c].devices, w.tools = g.commons[c].tools,
           w.min_maj = g.commons[c].min_maj, NEW k, k = WithCommon(g, c, w)
    PROVE  Between(h, k, s, o, c)
<1>1. IsHeap(g)
  BY DEF Between
<1>2. /\ IsHeap(k) /\ k.commons[c] = w
      /\ \A e \in Sections : e # c => k.commons[e] = g.commons[e]
      /\ k.devs = g.devs /\ k.tools = g.tools /\ k.areas = g.areas
  <2> DEFINE x == WithCommon(g, c, w)
  <2>1. /\ IsHeap(x) /\ x.commons[c] = w
        /\ \A e \in Sections : e # c => x.commons[e] = g.commons[e]
        /\ x.devs = g.devs /\ x.tools = g.tools /\ x.areas = g.areas
    BY <1>1, CommonPut
  <2>2. k = x
    OBVIOUS
  <2> HIDE DEF x
  <2> QED
    BY <2>1, <2>2
<1> QED
  BY <1>2 DEF Between

\* wcmDeviceSpecCommonOptions
LEMMA SpecBetween ==
    ASSUME NEW h, NEW s \in Sections, NEW o, NEW c \in Sections, NEW g, Between(h, g, s, o, c),
           NEW k, k = SpecOptions(g, s, o)
    PROVE  Between(h, k, s, o, c)
<1> DEFINE v == g.commons[c]
           default == v.touchDefault \/ "touch" \in v.keys
           touch == IF o.touch = "default" THEN default ELSE o.touch = "on"
           w == [v EXCEPT !.touchDefault = default, !.touch = touch]
<1>1. g.devs[s].common = c
  BY DEF Between, IsNew
<1>2. k = [g EXCEPT !.commons[c].touchDefault = default, !.commons[c].touch = touch]
  BY <1>1 DEF SpecOptions
<1> HIDE DEF default, touch
<1>3. k = WithCommon(g, c, w)
  BY ZenonT(30), <1>2 DEF WithCommon, Between, IsHeap, OnSections
<1>4. HasFields(v, CommonFields) /\ v.live = TRUE /\ v.rotate \in Rotations
  BY DEF Between
<1> HIDE DEF v
<1>5. /\ HasFields(w, CommonFields) /\ w.live = TRUE /\ w.rotate \in Rotations
      /\ w.devices = v.devices /\ w.tools = v.tools /\ w.min_maj = v.min_maj
  BY <1>4 DEF HasFields, CommonFields
<1> HIDE DEF w
<1> QED
  BY <1>3, <1>5, BetweenCommon DEF v

\* A device that was configured with these values
NewOptioned(d, o) ==
    [Placement(d, o) EXCEPT !.absolute = Mode(d, o), !.twinview = o.twinview]

\* The device's fields that its options give
OptionFields == {"screen_no", "shape", "rect", "absolute", "twinview"}

\* Its other options
LEMMA OptionedIs ==
    ASSUME NEW s \in Sections, NEW o \in Options[s], NEW c, NEW t, NEW v, IsNew(v, o, c, t)
    PROVE  IsNew(NewOptioned(v, o), o, c, t)
<1> DEFINE m == Mode(v, o)
           u == [v EXCEPT !.screen_no = o.screen_no, !.shape = o.shape, !.rect = o.rect]
           w == [u EXCEPT !.absolute = m, !.twinview = o.twinview]
<1>1. GoodDevice(v) /\ v.absolute \in BOOLEAN /\ IsDevice(v)
  BY DEF IsNew, GoodDevice, Decent
<1>2. m \in BOOLEAN
  BY <1>1 DEF Mode, PadMode
<1>3. NewOptioned(v, o) = w
  BY DEF NewOptioned, Placement
<1> HIDE DEF m
<1>4. /\ IsDevice(w) /\ w.rect = o.rect /\ w.absolute = m /\ w.twinview = o.twinview
      /\ w.axes = v.axes /\ w.maxX = v.maxX /\ w.maxY = v.maxY
      /\ w.tvResolution = v.tvResolution /\ w.tvoffset = v.tvoffset
      /\ w.live = v.live /\ w.listed = v.listed /\ w.toolarea = v.toolarea
      /\ w.common = v.common /\ w.tool = v.tool /\ w.stage = v.stage /\ w.source = v.source
  BY ZenonT(30), <1>1 DEF IsDevice, HasFields, DeviceFields
<1> HIDE DEF w
<1>5. GoodDevice(w) /\ w.tvoffset = NoOffset
  BY <1>1, <1>2, <1>4, SectionIs DEF GoodDevice, Decent, HasAxes, IsNew
<1> QED
  BY <1>3, <1>4, <1>5 DEF IsNew

\* The values that the device, tablet, tool and area get
OptionsPut(g, s, c, v, w, u, a) ==
    [g EXCEPT !.commons[c] = w, !.devs[s] = v, !.areas[s] = a, !.tools[s] = u]

\* The options of a section are read into its device: one step of that way.
LEMMA OptionedBetween ==
    ASSUME NEW h, NEW s \in Sections, NEW o \in Options[s], NEW c \in Sections, NEW g,
           Between(h, g, s, o, c), NEW k, k = Optioned(g, s, o)
    PROVE  Between(h, k, s, o, c)
<1> DEFINE b == g.commons[c]
           rotate == IF o.rotate = "none" THEN b.rotate ELSE o.rotate
           d == g.devs[s]
           v == NewOptioned(d, o)
           w == [b EXCEPT !.rotate = rotate]
           a == [g.areas[s] EXCEPT !.rect = o.rect]
           u == [g.tools[s] EXCEPT !.serial = o.serial]
<1>1. d.common = c /\ IsNew(d, o, c, s) /\ IsHeap(g)
  BY DEF Between, IsNew
<1>2. IsNew(v, o, c, s)
  BY <1>1, OptionedIs
<1>3. k = [g EXCEPT !.commons[c].rotate = IF o.rotate = "none" THEN @ ELSE o.rotate,
                    !.devs[s] = v, !.areas[s].rect = o.rect, !.tools[s].serial = o.serial]
  BY <1>1 DEF Optioned, NewOptioned
<1> HIDE DEF v, d
<1>4. k = OptionsPut(g, s, c, v, w, u, a)
  BY <1>1, <1>3 DEF OptionsPut, IsHeap, OnSections
<1>5. HasFields(b, CommonFields) /\ b.live = TRUE /\ b.rotate \in Rotations
  BY DEF Between
<1>6. rotate \in Rotations
  BY <1>5, SectionIs
<1> HIDE DEF b, rotate
<1>7. /\ HasFields(w, CommonFields) /\ w.live = TRUE /\ w.rotate \in Rotations
      /\ w.devices = b.devices /\ w.tools = b.tools /\ w.min_maj = b.min_maj
  BY <1>5, <1>6 DEF HasFields, CommonFields
<1>8. HasFields(a, AreaFields) /\ a.live = TRUE
  BY DEF Between, HasFields, AreaFields
<1>9. HasFields(u, ToolFields) /\ u.live = TRUE /\ u.areas = <<s>>
  BY DEF Between, HasFields, ToolFields
<1> HIDE DEF w, a, u
<1>10. /\ IsHeap(k) /\ k.devs[s] = v /\ k.commons[c] = w /\ k.tools[s] = u /\ k.areas[s] = a
       /\ \A e \in Sections \ {s} : /\ k.devs[e] = g.devs[e] /\ k.areas[e] = g.areas[e]
                                    /\ k.tools[e] = g.tools[e]
       /\ \A e \in Sections \ {c} : k.commons[e] = g.commons[e]
  <2>1. g = [devs |-> g.devs, commons |-> g.commons, tools |-> g.tools, areas |-> g.areas]
    BY <1>1 DEF IsHeap
  <2>2. k = [devs |-> [g.devs EXCEPT ![s] = v], commons |-> [g.commons EXCEPT ![c] = w],
             tools |-> [g.tools EXCEPT ![s] = u], areas |-> [g.areas EXCEPT ![s] = a]]
    BY <1>4, <2>1 DEF OptionsPut
  <2>3. /\ OnSections(g.devs) /\ OnSections(g.commons)
        /\ OnSections(g.tools) /\ OnSections(g.areas)
    BY <1>1 DEF IsHeap
  <2>4. IsHeap(k)
    BY SMTT(20), <2>2, <2>3 DEF IsHeap, OnSections
  <2>5. k.devs[s] = v /\ \A e \in Sections \ {s} : k.devs[e] = g.devs[e]
    BY <2>2, <2>3 DEF OnSections
  <2>6. k.areas[s] = a /\ \A e \in Sections \ {s} : k.areas[e] = g.areas[e]
    BY <2>2, <2>3 DEF OnSections
  <2>7. k.tools[s] = u /\ \A e \in Sections \ {s} : k.tools[e] = g.tools[e]
    BY <2>2, <2>3 DEF OnSections
  <2>8. k.commons[c] = w /\ \A e \in Sections \ {c} : k.commons[e] = g.commons[e]
    BY <2>2, <2>3 DEF OnSections
  <2> QED
    BY <2>4, <2>5, <2>6, <2>7, <2>8
<1> QED
  BY <1>2, <1>7, <1>8, <1>9, <1>10 DEF Between, b

\* The tool and the area join those of the tablet.
LEMMA JoinedAdded ==
    ASSUME NEW h, Sound(h), NEW s \in Sections, NoneNamed(h, s), NEW o, NEW c \in Sections,
           c # s => h.commons[c].live, NEW g, Between(h, g, s, o, c), NEW k, k = Joined(g, s)
    PROVE  \E t \in Sections : Room(h, s, c, t) /\ Added(h, k, s, o, c, t)
<1>1. g.devs[s].common = c /\ IsHeap(g)
  BY DEF Between, IsNew
<1>2. CASE c = s
  <2>1. k = g
    BY <1>1, <1>2 DEF Joined
  <2>2. Room(h, s, c, s) /\ Added(h, k, s, o, c, s)
    BY <1>2, <2>1 DEF Room, Added, Between
  <2> QED
    BY <2>2
<1>3. CASE c # s /\ SameTool(g, s) = {}
  <2> DEFINE b == g.commons[c]
             w == [b EXCEPT !.tools = Append(b.tools, s)]
  <2>1. k = [g EXCEPT !.commons[c].tools = Append(@, s)]
    BY <1>1, <1>3 DEF Joined
  <2>2. k = WithCommon(g, c, w)
    BY <1>1, <2>1 DEF WithCommon, IsHeap, OnSections
  <2>3. HasFields(b, CommonFields) /\ b.live = TRUE /\ b.rotate \in Rotations
    BY DEF Between
  <2> HIDE DEF b
  <2>4. /\ HasFields(w, CommonFields) /\ w.live = TRUE /\ w.rotate \in Rotations
        /\ w.devices = b.devices /\ w.tools = Append(b.tools, s) /\ w.min_maj = b.min_maj
    BY <2>3 DEF HasFields, CommonFields
  <2> HIDE DEF w
  <2>5. /\ IsHeap(k) /\ k.commons[c] = w
        /\ \A e \in Sections : e # c => k.commons[e] = g.commons[e]
        /\ k.devs = g.devs /\ k.tools = g.tools /\ k.areas = g.areas
    <3> DEFINE x == WithCommon(g, c, w)
    <3>1. /\ IsHeap(x) /\ x.commons[c] = w
          /\ \A e \in Sections : e # c => x.commons[e] = g.commons[e]
          /\ x.devs = g.devs /\ x.tools = g.tools /\ x.areas = g.areas
      BY <1>1, CommonPut
    <3>2. k = x
      BY <2>2
    <3> HIDE DEF x
    <3> QED
      BY <3>1, <3>2
  <2>6. Room(h, s, c, s)
    BY DEF Room
  <2>7. /\ IsNew(k.devs[s], o, c, s)
        /\ HasFields(k.areas[s], AreaFields) /\ k.areas[s].live = TRUE
        /\ HasFields(k.tools[s], ToolFields) /\ k.tools[s].live = TRUE
        /\ k.tools[s].areas = <<s>>
        /\ \A e \in Sections \ {s} : /\ k.devs[e] = h.devs[e] /\ k.areas[e] = h.areas[e]
                                     /\ k.tools[e] = h.tools[e]
    BY <2>5 DEF Between
  <2>8. /\ \A e \in Sections \ {s, c} : k.commons[e] = h.commons[e]
        /\ k.commons[s] = Gone
        /\ w.devices = <<s>> \o h.commons[c].devices
        /\ w.tools = Append(h.commons[c].tools, s)
        /\ w.min_maj = h.commons[c].min_maj
    BY ZenonT(30), <1>3, <2>4, <2>5 DEF Between, b
  <2>9. Added(h, k, s, o, c, s)
    BY <1>3, <2>4, <2>5, <2>7, <2>8 DEF Added
  <2> QED
    BY <2>6, <2>9
<1>4. CASE c # s /\ SameTool(g, s) # {}
  <2> DEFINE t == CHOOSE x \in SameTool(g, s) : TRUE
             d == g.devs[s]
             v == [d EXCEPT !.tool = t]
             q == Append(h.tools[t].areas, s)
             u == [h.tools[t] EXCEPT !.areas = q]
  <2>1. t \in SameTool(g, s)
    BY <1>4
  <2>2. k = [g EXCEPT !.tools[s] = Gone, !.tools[t].areas = Append(@, s), !.devs[s].tool = t]
    BY <1>1, <1>4 DEF Joined
  <2>3. t \in Elements(g.commons[c].tools)
    BY <1>1, <2>1 DEF SameTool, Common
  <2> HIDE DEF t
  <2>4. t \in Elements(h.commons[c].tools)
    BY <1>4, <2>3 DEF Between
  <2>5. t \in Sections /\ h.tools[t].live
    <3>1. List(h.commons[c].tools) /\ \A x \in Elements(h.commons[c].tools) : h.tools[x].live
      BY <1>4 DEF Sound, GoodHeap, Linked
    <3> QED
      BY <2>4, <3>1, ElementsIn
  <2>6. t # s
    BY <2>5 DEF NoneNamed
  <2>7. HasFields(h.tools[t], ToolFields) /\ h.tools[t].live = TRUE
    BY <2>5 DEF Sound, GoodHeap, Shapes, Gone
  <2>8. g.tools[t] = h.tools[t]
    BY <2>5, <2>6 DEF Between
  <2> HIDE DEF q
  <2>9. HasFields(u, ToolFields) /\ u.live = TRUE /\ u.areas = q
    BY <2>7 DEF HasFields, ToolFields
  <2>10. IsNew(d, o, c, s)
    BY DEF Between
  <2>11. /\ Only(d, v, {"tool"}) /\ v.common = c /\ v.tool = t /\ v.axes = d.axes
         /\ v.live = TRUE /\ v.listed = TRUE /\ v.toolarea = TRUE
         /\ v.stage = "configured" /\ v.source = o.source
    <3> HIDE DEF d
    <3> QED
      BY <2>10 DEF IsNew, Only, GoodDevice, Decent, IsDevice, HasFields, DeviceFields
  <2>12. k = [g EXCEPT !.tools[s] = Gone, !.tools[t].areas = q, !.devs[s].tool = t]
    BY <1>1, <2>2, <2>5, <2>6, <2>8 DEF IsHeap, OnSections, q
  <2>13. /\ IsHeap(k) /\ k.devs[s] = v /\ k.tools[s] = Gone /\ k.tools[t] = u
         /\ k.commons = g.commons /\ k.areas = g.areas
         /\ \A x \in Sections \ {s} : k.devs[x] = g.devs[x]
         /\ \A x \in Sections \ {s, t} : k.tools[x] = g.tools[x]
    <3>1. g = [devs |-> g.devs, commons |-> g.commons, tools |-> g.tools, areas |-> g.areas]
      BY <1>1 DEF IsHeap
    <3>2. OnSections(g.devs) /\ OnSections(g.tools)
      BY <1>1 DEF IsHeap
    <3>3. k = [g EXCEPT !.devs = [g.devs EXCEPT ![s] = v],
                        !.tools = [[g.tools EXCEPT ![s] = Gone] EXCEPT ![t] = u]]
      BY ZenonT(30), <1>1, <2>5, <2>6, <2>8, <2>12, <3>1, <3>2 DEF OnSections
    <3> HIDE DEF v, u, d
    <3>4. /\ k.devs = [g.devs EXCEPT ![s] = v]
          /\ k.tools = [[g.tools EXCEPT ![s] = Gone] EXCEPT ![t] = u]
          /\ k.commons = g.commons /\ k.areas = g.areas
          /\ k = [devs |-> k.devs, commons |-> k.commons, tools |-> k.tools, areas |-> k.areas]
      BY <3>1, <3>3
    <3>5. k.devs[s] = v /\ \A x \in Sections \ {s} : k.devs[x] = g.devs[x]
      BY <3>2, <3>4 DEF OnSections
    <3>6. /\ k.tools[s] = Gone /\ k.tools[t] = u
          /\ \A x \in Sections \ {s, t} : k.tools[x] = g.tools[x]
      BY <2>5, <2>6, <3>2, <3>4 DEF OnSections
    <3>7. IsHeap(k)
      <4>1. OnSections(k.devs)
        BY <3>2, <3>4 DEF OnSections
      <4>2. OnSections(k.tools)
        BY <3>2, <3>4 DEF OnSections
      <4>3. OnSections(k.commons) /\ OnSections(k.areas)
        BY <1>1, <3>4 DEF IsHeap
      <4> QED
        BY <3>4, <4>1, <4>2, <4>3 DEF IsHeap
    <3> QED
      BY <3>4, <3>5, <3>6, <3>7
  <2> HIDE DEF d, v, u
  <2>14. GoodDevice(v) /\ v.tvoffset = NoOffset
    <3>1. HasAxes(v)
      BY <2>10, <2>11 DEF HasAxes, IsNew, GoodDevice, Decent
    <3>2. {"tool"} \cap (ValueFields \ {"axes"}) = {}
      BY DEF ValueFields
    <3> QED
      BY <2>10, <2>11, <3>1, <3>2, GoodStays, ValuesStay DEF IsNew
  <2>15. IsNew(v, o, c, t)
    BY <2>11, <2>14 DEF IsNew
  <2>16. Room(h, s, c, t)
    BY <1>4, <2>4, <2>5 DEF Room
  <2>17. Added(h, k, s, o, c, t)
    BY SMTT(20), <1>4, <2>6, <2>9, <2>13, <2>15 DEF Added, Between, q
  <2> QED
    BY <2>5, <2>16, <2>17
<1> QED
  BY <1>2, <1>3, <1>4


\* A section is configured, unless no tablet is found.
LEMMA MadeConfigured ==
    ASSUME Sound(Heap), NEW s \in Sections, NameFree(s), NEW o \in Options[s], NEW keys,
           NEW h, h = Allocated(s, o, keys),
           NEW k, k = Joined(Optioned(SpecOptions(Matched(h, s), s, o), s, o), s)
    PROVE  AsConfigured(Heap, k, s, o)
<1>1. NoneNamed(Heap, s)
  <2>1. ~devs[s].live
    BY DEF NameFree, Sound, GoodHeap, Linked, Heap
  <2> QED
    BY <2>1 DEF NameFree, NoneNamed, Heap
<1>2. Between(Heap, h, s, o, s)
  BY AllocatedBetween DEF Sound, GoodHeap
<1> DEFINE m == Matched(h, s)
           n == SpecOptions(m, s, o)
           p == Optioned(n, s, o)
<1>3. PICK c \in Sections : Between(Heap, m, s, o, c) /\ (c # s => Heap.commons[c].live)
  BY <1>1, <1>2, MatchedBetween
<1>4. k = Joined(p, s)
  OBVIOUS
<1> HIDE DEF m
<1>5. Between(Heap, n, s, o, c)
  BY <1>3, SpecBetween
<1> HIDE DEF n
<1>6. Between(Heap, p, s, o, c)
  BY <1>5, OptionedBetween
<1> HIDE DEF p
<1>7. PICK t \in Sections : Room(Heap, s, c, t) /\ Added(Heap, k, s, o, c, t)
  BY <1>1, <1>3, <1>4, <1>6, JoinedAdded
<1> QED
  BY <1>1, <1>7, AddedSound

-----------------------------------------------------------------------------
(* What clients and users may do to devices that are configured.           *)

\* The driver's records are in order, and the server has its screens.
SetupInv == Sound(Heap) /\ IsServer(screens)

\* The copies of device e's part of the tablet agree, unless its tablet is one
\* of those turned back.
Agrees(h, e, back) ==
    /\ Right(h.devs[e])
    /\ h.devs[e].common \notin back => h.areas[e].rect = h.devs[e].rect

\* A step from h to g that configures, starts and removes nothing
AsSet(h, g, back, after) ==
    /\ Sound(g) /\ Kept(h, g)
    /\ \A e \in Sections : h.devs[e].live =>
         /\ g.devs[e].stage = h.devs[e].stage /\ g.devs[e].source = h.devs[e].source
         /\ h.devs[e].toolarea /\ Agrees(h, e, back) => Agrees(g, e, after)
    /\ \A c \in Sections : g.commons[c].min_maj = h.commons[c].min_maj

\* What a step leaves in the heap
LEMMA BecomesIs ==
    ASSUME NEW g, IsHeap(g), devs' = g.devs, commons' = g.commons, tools' = g.tools,
           areas' = g.areas
    PROVE  Heap' = g
  BY DEF IsHeap, Heap

\* A device's record is all that a client changes.
LEMMA TurnsSet ==
    ASSUME Sound(Heap), NEW s \in Sections, devs[s].live, NEW w, Setted(devs[s], w),
           w.rect = devs[s].rect, devs' = [devs EXCEPT ![s] = w],
           UNCHANGED <<commons, tools, areas, spun>>
    PROVE  AsSet(Heap, Heap', spun, spun')
<1> DEFINE v == devs[s]
           g == WithDev(Heap, s, w)
<1>1. /\ v = Heap.devs[s] /\ devs = Heap.devs /\ commons = Heap.commons
      /\ tools = Heap.tools /\ areas = Heap.areas /\ IsHeap(Heap)
  BY DEF Heap, Sound, GoodHeap
<1>2. /\ IsHeap(g) /\ g.devs[s] = w /\ g.commons = Heap.commons /\ g.tools = Heap.tools
      /\ g.areas = Heap.areas /\ g.devs = [devs EXCEPT ![s] = w]
  <2>1. g.devs = [devs EXCEPT ![s] = w]
    BY <1>1 DEF WithDev, IsHeap
  <2>2. /\ IsHeap(g) /\ g.devs[s] = w /\ g.commons = Heap.commons /\ g.tools = Heap.tools
        /\ g.areas = Heap.areas
    BY <1>1, DevPut
  <2> QED
    BY <2>1, <2>2
<1> HIDE DEF g
<1>3. Heap' = g
  BY <1>1, <1>2, BecomesIs
<1>4. Only(v, w, SettingFields) /\ GoodDevice(w) /\ (Right(v) => Right(w))
  BY DEF Setted
<1>5. SettingFields \cap LinkFields = {}
  BY DEF SettingFields, ScreenFields, AxisFields, ViewFields, LinkFields
<1>6. Fits(Heap.devs[s], w)
  BY <1>1, <1>4, <1>5, FitsWhen
<1>7. Sound(g) /\ Kept(Heap, g) /\ DevOnly(Heap, g, s)
  BY <1>1, <1>6, DevGiven DEF g
<1>8. w.stage = v.stage /\ w.source = v.source /\ w.common = v.common
  <2>1. {"stage", "source", "common"} \subseteq DeviceFields \ SettingFields
    BY DEF SettingFields, ScreenFields, AxisFields, ViewFields, DeviceFields
  <2> QED
    BY <1>4, <2>1 DEF Only
<1>9. spun' = spun
  OBVIOUS
<1> HIDE DEF v
<1>10. \A e \in Sections \ {s} : g.devs[e] = Heap.devs[e]
  BY <1>7 DEF DevOnly
<1>11. \A e \in Sections : Heap.devs[e].live =>
         /\ g.devs[e].stage = Heap.devs[e].stage /\ g.devs[e].source = Heap.devs[e].source
         /\ Heap.devs[e].toolarea /\ Agrees(Heap, e, spun) => Agrees(g, e, spun)
  <2> SUFFICES ASSUME NEW e \in Sections
               PROVE  /\ g.devs[e].stage = Heap.devs[e].stage
                      /\ g.devs[e].source = Heap.devs[e].source
                      /\ Agrees(Heap, e, spun) => Agrees(g, e, spun)
    OBVIOUS
  <2>1. CASE e = s
    BY <1>1, <1>2, <1>4, <1>8, <2>1 DEF Agrees, v
  <2>2. CASE e # s
    BY <1>2, <1>10, <2>2 DEF Agrees
  <2> QED
    BY <2>1, <2>2
<1> QED
  BY <1>2, <1>3, <1>7, <1>9, <1>11 DEF AsSet

\* A device keeps its record.
LEMMA SettedSame ==
    ASSUME NEW v, GoodDevice(v)
    PROVE  Setted(v, v)
  BY DEF Setted, Only, GoodDevice, Decent

\* The settings that only the device's record has
LEMMA DeviceSet ==
    ASSUME SetupInv, NEW s \in Sections,
           \/ \E b \in BOOLEAN : SwitchMode(s, b) \/ SetMMonitor(s, b) \/ SetCore(s, b)
           \/ \E n \in {-1, 0, 1} : SetScreenNo(s, n)
           \/ \E t \in TwinViews : SetTwinView(s, t)
           \/ \E n \in {0, 1}, wh \in Halves : SetTVResolution(s, n, wh[1], wh[2])
    PROVE  AsSet(Heap, Heap', spun, spun')
<1> DEFINE v == devs[s]
<1>1. Settable(s) => v.live /\ tools' = tools
  BY DEF Settable
<1>2. v.live => GoodDevice(v)
  BY DEF SetupInv, Sound, Values, Heap
<1>3. Sound(Heap) /\ IsServer(screens)
  BY DEF SetupInv
<1>4. ASSUME Settable(s), NEW w, Setted(v, w) /\ w.rect = v.rect, Turns1(s, w)
      PROVE  AsSet(Heap, Heap', spun, spun')
  BY <1>1, <1>3, <1>4, TurnsSet DEF Turns1
<1> HIDE DEF v
<1>5. ASSUME NEW b \in BOOLEAN, SwitchMode(s, b)
      PROVE  AsSet(Heap, Heap', spun, spun')
  <2> DEFINE u == [v EXCEPT !.absolute = PadMode(v)]
             m == BothCoordinates(MappingFactor([v EXCEPT !.absolute = b], pointer), pointer)
  <2>1. Settable(s) /\ Turns1(s, IF v.type = "pad" THEN u ELSE IF v.absolute = b THEN v ELSE m)
    BY <1>5 DEF SwitchMode, v
  <2>2. GoodDevice(v)
    BY <1>1, <1>2, <2>1
  <2>3. CASE v.type = "pad"
    <3>1. Setted(v, u) /\ u.rect = v.rect
      BY <2>2, <2>3, PadSwitched
    <3> QED
      BY <1>4, <2>1, <2>3, <3>1
  <2>4. CASE v.type # "pad" /\ v.absolute = b
    <3>1. Setted(v, v)
      BY <2>2, SettedSame
    <3> QED
      BY <1>4, <2>1, <2>4, <3>1
  <2>5. CASE v.type # "pad" /\ v.absolute # b
    <3>1. Setted(v, m) /\ m.rect = v.rect
      BY <2>2, ModeSwitched
    <3> HIDE DEF m
    <3>2. Turns1(s, m)
      BY <2>1, <2>5
    <3> QED
      BY <1>4, <2>1, <3>1, <3>2
  <2> QED
    BY <2>3, <2>4, <2>5
<1>6. ASSUME NEW b \in BOOLEAN, SetMMonitor(s, b)
      PROVE  AsSet(Heap, Heap', spun, spun')
  <2> DEFINE m == MappingFactor([v EXCEPT !.wcmMMonitor = b], pointer)
  <2>1. Settable(s) /\ Turns1(s, m)
    BY <1>6 DEF SetMMonitor, v
  <2>2. Setted(v, m) /\ m.rect = v.rect
    BY <1>1, <1>2, <2>1, MonitorSet
  <2> HIDE DEF m
  <2> QED
    BY <1>4, <2>1, <2>2
<1>7. ASSUME NEW b \in BOOLEAN, SetCore(s, b)
      PROVE  AsSet(Heap, Heap', spun, spun')
  <2> DEFINE m == [v EXCEPT !.core = b]
  <2>1. Settable(s) /\ Turns1(s, m)
    BY <1>7 DEF SetCore, v
  <2>2. Setted(v, m) /\ m.rect = v.rect
    BY <1>1, <1>2, <2>1, CoreSet
  <2> HIDE DEF m
  <2> QED
    BY <1>4, <2>1, <2>2
<1>8. ASSUME NEW n, SetScreenNo(s, n)
      PROVE  AsSet(Heap, Heap', spun, spun')
  <2> DEFINE m == ChangeScreen(v, n, screens, pointer)
  <2>1. Settable(s) /\ Turns1(s, m)
    BY <1>8 DEF SetScreenNo, v
  <2>2. Setted(v, m) /\ m.rect = v.rect
    BY <1>1, <1>2, <1>3, <2>1, ScreenNoSet
  <2> HIDE DEF m
  <2> QED
    BY <1>4, <2>1, <2>2
<1>9. ASSUME NEW t \in TwinViews, SetTwinView(s, t)
      PROVE  AsSet(Heap, Heap', spun, spun')
  <2>1. Settable(s) /\ Turns1(s, TwinViewSet(v, t))
    BY <1>9 DEF SetTwinView, v
  <2>2. Setted(v, TwinViewSet(v, t)) /\ TwinViewSet(v, t).rect = v.rect
    BY <1>1, <1>2, <1>3, <2>1, TwinViewSetGood
  <2> QED
    BY <1>4, <2>1, <2>2
<1>10. ASSUME NEW n \in {0, 1}, NEW wh \in Halves, SetTVResolution(s, n, wh[1], wh[2])
       PROVE  AsSet(Heap, Heap', spun, spun')
  <2> DEFINE u == [v EXCEPT !.tvResolution = Resolved(v, n, wh[1], wh[2])]
             m == ChangeScreen(u, v.screen_no, screens, pointer)
  <2>1. u.screen_no = v.screen_no
    OBVIOUS
  <2>2. Settable(s) /\ Twin(v) /\ Turns1(s, ChangeScreen(u, u.screen_no, screens, pointer))
    BY <1>10 DEF SetTVResolution, v
  <2>3. Turns1(s, m)
    BY <2>1, <2>2
  <2>4. Setted(v, m) /\ m.rect = v.rect
    BY <1>1, <1>2, <1>3, <2>2, ResolutionSet
  <2> HIDE DEF m
  <2> QED
    BY <1>4, <2>2, <2>3, <2>4
<1> QED
  BY <1>5, <1>6, <1>7, <1>8, <1>9, <1>10


\* A device and its area are all that a client changes.
LEMMA PlaceSet ==
    ASSUME Sound(Heap), NEW s \in Sections, NEW g, SideChanged(Heap, g, s), Heap' = g,
           spun' = spun
    PROVE  AsSet(Heap, Heap', spun, spun')
<1> DEFINE h == Heap
<1>1. /\ Sound(g) /\ Kept(h, g)
      /\ Only(h.devs[s], g.devs[s], {"rect"} \cup AxisFields)
      /\ h.areas[s].rect = h.devs[s].rect => g.areas[s].rect = g.devs[s].rect
      /\ Right(h.devs[s]) => Right(g.devs[s])
      /\ \A e \in Sections \ {s} : g.devs[e] = h.devs[e] /\ g.areas[e] = h.areas[e]
      /\ g.commons = h.commons
  BY DEF SideChanged, PlaceOnly
<1>2. /\ g.devs[s].stage = h.devs[s].stage /\ g.devs[s].source = h.devs[s].source
      /\ g.devs[s].common = h.devs[s].common
  <2>1. {"stage", "source", "common"} \subseteq DeviceFields \ ({"rect"} \cup AxisFields)
    BY DEF AxisFields, ViewFields, DeviceFields
  <2> QED
    BY <1>1, <2>1 DEF Only
<1> HIDE DEF h
<1>3. \A e \in Sections :
        /\ g.devs[e].stage = h.devs[e].stage /\ g.devs[e].source = h.devs[e].source
        /\ Agrees(h, e, spun) => Agrees(g, e, spun)
  <2> SUFFICES ASSUME NEW e \in Sections
               PROVE  /\ g.devs[e].stage = h.devs[e].stage /\ g.devs[e].source = h.devs[e].source
                      /\ Agrees(h, e, spun) => Agrees(g, e, spun)
    OBVIOUS
  <2>1. CASE e = s
    BY <1>1, <1>2, <2>1 DEF Agrees
  <2>2. CASE e # s
    BY <1>1, <2>2 DEF Agrees
  <2> QED
    BY <2>1, <2>2
<1>4. AsSet(h, g, spun, spun)
  BY <1>1, <1>3 DEF AsSet
<1> QED
  BY <1>4 DEF h

\* An area that is there is a device's, and both are in the driver's records.
LEMMA AreaIs ==
    ASSUME NEW h, Sound(h), NEW s \in Sections, h.devs[s].live, h.devs[s].toolarea
    PROVE  h.areas[s].live
  BY DEF Sound, GoodHeap, Linked

\* Ends of areas are numbers.
LEMMA EndsAre == Ends \subseteq Int
<1>1. Size.x \in Nat
  <2>1. Size \in [x: Nat \ {0}, y: Nat \ {0}]
    BY SetupAssumption
  <2> QED
    BY <2>1
<1>2. Size.x \div 3 \in Int
  BY <1>1
<1> QED
  BY <1>1, <1>2 DEF Ends

\* TOPX to BOTTOMY
LEMMA SideSetSet ==
    ASSUME SetupInv, NEW s \in Sections, NEW side \in Sides, NEW value \in Ends,
           SetSide(s, side, value)
    PROVE  AsSet(Heap, Heap', spun, spun')
<1> DEFINE g == SideSet(Heap, s, side, value)
<1>1. /\ devs[s].live /\ devs[s].toolarea /\ devs' = g.devs /\ areas' = g.areas
      /\ commons' = commons /\ tools' = tools /\ spun' = spun
  BY DEF SetSide, Settable, Resized
<1>2. Sound(Heap) /\ Heap.devs[s].live /\ Heap.areas[s].live
  BY <1>1, AreaIs DEF SetupInv, Heap
<1>3. value \in Int
  BY EndsAre
<1>4. SideChanged(Heap, g, s)
  BY <1>2, <1>3, SideSetSound
<1> HIDE DEF g
<1>5. IsHeap(g) /\ g.commons = Heap.commons /\ g.tools = Heap.tools
  BY <1>4 DEF SideChanged, Sound, GoodHeap, PlaceOnly
<1>6. Heap' = g
  BY <1>1, <1>5, BecomesIs DEF Heap
<1> QED
  BY <1>1, <1>2, <1>4, <1>6, PlaceSet

\* XYDEFAULT
LEMMA DefaultSet ==
    ASSUME SetupInv, NEW s \in Sections, SetDefault(s)
    PROVE  AsSet(Heap, Heap', spun, spun')
<1> DEFINE h1 == SideSet(Heap, s, "topX", 0)
           h2 == SideSet(h1, s, "topY", 0)
           h3 == SideSet(h2, s, "bottomX", devs[s].maxX)
           h4 == SideSet(h3, s, "bottomY", devs[s].maxY)
<1>1. /\ devs[s].live /\ devs[s].toolarea /\ devs' = h4.devs /\ areas' = h4.areas
      /\ commons' = commons /\ tools' = tools /\ spun' = spun
  BY DEF SetDefault, Settable, Resized
<1>2. Sound(Heap) /\ Heap.devs[s].live /\ Heap.areas[s].live
  BY <1>1, AreaIs DEF SetupInv, Heap
<1>3. /\ devs[s].maxX \in Int /\ devs[s].maxY \in Int /\ 0 \in Int
      /\ {"topX", "topY", "bottomX", "bottomY"} \subseteq Sides
  BY <1>2 DEF Sound, Values, GoodDevice, Decent, Heap, Sides
<1>4. ASSUME NEW k, SideChanged(Heap, k, s)
      PROVE  Sound(k) /\ k.devs[s].live /\ k.areas[s].live
  BY <1>2, <1>4, KeptLinks DEF SideChanged
<1>5. SideChanged(Heap, h1, s)
  BY <1>2, <1>3, SideSetSound
<1> HIDE DEF h1
<1>6. SideChanged(Heap, h2, s)
  <2>1. SideChanged(h1, h2, s)
    BY <1>3, <1>4, <1>5, SideSetSound
  <2> HIDE DEF h2
  <2> QED
    BY <1>5, <2>1, SideThen
<1> HIDE DEF h2
<1>7. SideChanged(Heap, h3, s)
  <2>1. SideChanged(h2, h3, s)
    BY <1>3, <1>4, <1>6, SideSetSound
  <2> HIDE DEF h3
  <2> QED
    BY <1>6, <2>1, SideThen
<1> HIDE DEF h3
<1>8. SideChanged(Heap, h4, s)
  <2>1. SideChanged(h3, h4, s)
    BY <1>3, <1>4, <1>7, SideSetSound
  <2> HIDE DEF h4
  <2> QED
    BY <1>7, <2>1, SideThen
<1> HIDE DEF h4
<1>9. IsHeap(h4) /\ h4.commons = Heap.commons /\ h4.tools = Heap.tools
  BY <1>8 DEF SideChanged, Sound, GoodHeap, PlaceOnly
<1>10. Heap' = h4
  BY <1>1, <1>9, BecomesIs DEF Heap
<1> QED
  BY <1>1, <1>2, <1>8, <1>10, PlaceSet


\* What a turn of the tablet leaves: every device of it where it was.
AllStay(h, g, s, from, to) ==
    \A e \in Fellows(h, s) : SurfaceOf(g.devs[e], to) = SurfaceOf(h.devs[e], from)

\* Heap g is h with device s's tablet turned; this one joins those turned back
\* if it is.
TabletTurned(h, g, s, from, to, back, after) ==
    /\ AsSet(h, g, back, after) /\ AllStay(h, g, s, from, to)
    /\ g.tools = h.tools /\ g.commons[h.devs[s].common].rotate = to

\* What it takes: w is the tablet with its new rotation.
Turning(h, w, s, to) ==
    /\ Sound(h) /\ h.devs[s].live
    /\ \A e \in Fellows(h, s) : h.devs[e].toolarea
    /\ HasFields(w, CommonFields) /\ w.live = TRUE
    /\ w.devices = h.commons[h.devs[s].common].devices
    /\ w.tools = h.commons[h.devs[s].common].tools
    /\ w.min_maj = h.commons[h.devs[s].common].min_maj /\ w.rotate = to

\* The tablets that were turned back
After(h, s, to, back) == IF to = "none" THEN back \cup {h.devs[s].common} ELSE back

\* A client turns the tablet: every device of it is turned, and the tablet itself.
LEMMA TurnedSet ==
    ASSUME NEW h, NEW s \in Sections, NEW from \in Rotations, NEW to \in Rotations, NEW w,
           Turning(h, w, s, to), NEW k, k = WithCommon(h, h.devs[s].common, w),
           NEW g, g = AllTurned(k, s, from, to),
           NEW back, NEW after, after = After(h, s, to, back)
    PROVE  TabletTurned(h, g, s, from, to, back, after)
<1> DEFINE c == h.devs[s].common
<1>0. Sound(h) /\ h.devs[s].live /\ HasFields(w, CommonFields) /\ w.live = TRUE /\ w.rotate = to
  BY DEF Turning
<1>1. GoodHeap(h) /\ IsHeap(h) /\ c \in Sections /\ h.commons[c].live
  BY <1>0 DEF Sound, GoodHeap, Linked
<1>2. h.commons[c].live = TRUE
  BY <1>1 DEF GoodHeap, Shapes, Gone
<1>3. /\ w.devices = h.commons[c].devices /\ w.tools = h.commons[c].tools
      /\ w.min_maj = h.commons[c].min_maj /\ k = WithCommon(h, c, w)
      /\ to = "none" => c \in after
      /\ to # "none" => after = back
      /\ back \subseteq after
  BY DEF Turning, After
<1>4. Fellows(h, s) = Elements(h.commons[c].devices)
  BY DEF Fellows
<1> HIDE DEF c
<1>5. Kept(h, k)
  BY <1>0, <1>1, <1>2, <1>3, CommonKept
<1>6. /\ k.devs = h.devs /\ k.areas = h.areas /\ k.tools = h.tools /\ k.commons[c] = w
      /\ \A e \in Sections : e # c => k.commons[e] = h.commons[e]
  <2> DEFINE x == WithCommon(h, c, w)
  <2>1. /\ x.commons[c] = w /\ \A e \in Sections : e # c => x.commons[e] = h.commons[e]
        /\ x.devs = h.devs /\ x.tools = h.tools /\ x.areas = h.areas
    BY <1>1, CommonPut
  <2>2. k = x
    BY <1>3
  <2> HIDE DEF x
  <2> QED
    BY <2>1, <2>2
<1>7. Sound(k)
  <2>1. Values(k)
    BY <1>0, <1>6 DEF Values, Sound
  <2> QED
    BY <1>1, <1>5, <2>1, KeptGood DEF Sound
<1>8. Fellows(k, s) = Fellows(h, s)
  BY <1>3, <1>4, <1>6 DEF Fellows, c
<1>9. AsAllTurned(k, g, s, from, to)
  <2>1. k.devs[s].live /\ \A e \in Fellows(k, s) : k.devs[e].toolarea
    BY <1>0, <1>6, <1>8 DEF Turning
  <2> QED
    BY <1>7, <2>1, AllTurnedSound
<1>10. /\ Sound(g) /\ Kept(k, g) /\ g.commons = k.commons /\ g.tools = h.tools
       /\ \A e \in Sections \ Fellows(h, s) :
            g.devs[e] = h.devs[e] /\ g.areas[e] = h.areas[e]
       /\ \A e \in Fellows(h, s) :
            /\ Right(g.devs[e])
            /\ Only(h.devs[e], g.devs[e], PlaceFields \cup AxisFields)
            /\ to # "none" => g.areas[e].rect = g.devs[e].rect
            /\ SurfaceOf(g.devs[e], to) = SurfaceOf(h.devs[e], from)
  <2> DEFINE all == Fellows(h, s)
  <2>1. /\ Sound(g) /\ Kept(k, g) /\ g.commons = k.commons /\ g.tools = k.tools
        /\ \A e \in Sections \ all : g.devs[e] = k.devs[e] /\ g.areas[e] = k.areas[e]
        /\ \A e \in all :
             /\ Right(g.devs[e])
             /\ Only(k.devs[e], g.devs[e], PlaceFields \cup AxisFields)
             /\ to # "none" => g.areas[e].rect = g.devs[e].rect
             /\ SurfaceOf(g.devs[e], to) = SurfaceOf(k.devs[e], from)
    BY ZenonT(30), <1>8, <1>9 DEF AsAllTurned
  <2> HIDE DEF all
  <2>2. g.tools = h.tools
    BY <1>6, <2>1
  <2>3. ASSUME NEW e \in Sections \ all
        PROVE  g.devs[e] = h.devs[e] /\ g.areas[e] = h.areas[e]
    <3>1. g.devs[e] = k.devs[e] /\ g.areas[e] = k.areas[e]
      BY <2>1
    <3>2. k.devs[e] = h.devs[e] /\ k.areas[e] = h.areas[e]
      BY SMTT(15), <1>6
    <3> QED
      BY SMTT(15), <3>1, <3>2
  <2>4. ASSUME NEW e \in all
        PROVE  /\ Right(g.devs[e])
               /\ Only(h.devs[e], g.devs[e], PlaceFields \cup AxisFields)
               /\ to # "none" => g.areas[e].rect = g.devs[e].rect
               /\ SurfaceOf(g.devs[e], to) = SurfaceOf(h.devs[e], from)
    <3>1. k.devs[e] = h.devs[e]
      BY <1>6
    <3> QED
      BY <2>1, <3>1
  <2>5. Sound(g) /\ Kept(k, g) /\ g.commons = k.commons
    BY <2>1
  <2> QED
    BY ZenonT(30), <2>2, <2>3, <2>4, <2>5 DEF all
<1>11. Kept(h, g)
  BY <1>1, <1>5, <1>10, KeptThen
<1>12. \A e \in Fellows(h, s) : h.devs[e].common = c
  <2>1. \A e \in Elements(h.commons[c].devices) : h.devs[e].common = c
    BY <1>1 DEF GoodHeap, Linked
  <2> QED
    BY <1>4, <2>1
<1>13. \A e \in Fellows(h, s) : /\ g.devs[e].stage = h.devs[e].stage
                                /\ g.devs[e].source = h.devs[e].source
                                /\ g.devs[e].common = h.devs[e].common
  <2>1. {"stage", "source", "common"} \subseteq DeviceFields \ (PlaceFields \cup AxisFields)
    BY DEF PlaceFields, AxisFields, ViewFields, DeviceFields
  <2>2. \A e \in Fellows(h, s) : Only(h.devs[e], g.devs[e], PlaceFields \cup AxisFields)
    BY <1>10
  <2> QED
    BY <2>1, <2>2 DEF Only
<1>14. ASSUME NEW e \in Sections
       PROVE  /\ g.devs[e].stage = h.devs[e].stage
              /\ g.devs[e].source = h.devs[e].source
              /\ Agrees(h, e, back) => Agrees(g, e, after)
  <2>1. CASE e \in Fellows(h, s)
    <3>1. /\ h.devs[e].common = c /\ g.devs[e].common = c
          /\ g.devs[e].stage = h.devs[e].stage /\ g.devs[e].source = h.devs[e].source
      BY <1>12, <1>13, <2>1
    <3>2. Right(g.devs[e]) /\ (to # "none" => g.areas[e].rect = g.devs[e].rect)
      BY <1>10, <2>1
    <3> QED
      BY <1>3, <3>1, <3>2 DEF Agrees
  <2>2. CASE e \notin Fellows(h, s)
    <3>1. g.devs[e] = h.devs[e] /\ g.areas[e] = h.areas[e]
      BY <1>10, <2>2
    <3> QED
      BY <1>3, <3>1 DEF Agrees
  <2> QED
    BY <2>1, <2>2
<1>15. \A e \in Sections : g.commons[e].min_maj = h.commons[e].min_maj
  BY <1>3, <1>6, <1>10
<1>16. AsSet(h, g, back, after)
  BY ZenonT(30), <1>10, <1>11, <1>14, <1>15 DEF AsSet
<1>17. AllStay(h, g, s, from, to)
  BY SMTT(15), <1>10 DEF AllStay
<1>18. g.commons[h.devs[s].common].rotate = to
  BY <1>0, <1>6, <1>10 DEF c
<1> QED
  BY <1>10, <1>16, <1>17, <1>18 DEF TabletTurned

\* ROTATE
LEMMA RotateSet ==
    ASSUME SetupInv, NEW s \in Sections, NEW to \in Rotations, Rotate(s, to)
    PROVE  TabletTurned(Heap, Heap', s, commons[devs[s].common].rotate, to, spun, spun')
<1> DEFINE c == devs[s].common
           v == commons[c]
           w == [v EXCEPT !.rotate = to]
           k == WithCommon(Heap, c, w)
           from == v.rotate
           g == AllTurned(k, s, from, to)
<1>1. /\ Sound(Heap) /\ IsHeap(Heap) /\ Heap.devs = devs /\ Heap.commons = commons
      /\ Heap.tools = tools /\ Heap.areas = areas
  BY DEF SetupInv, Sound, GoodHeap, Heap
<1>2. [Heap EXCEPT !.commons[c].rotate = to] = k
  BY <1>1 DEF WithCommon, IsHeap, OnSections
<1>3. /\ devs[s].live /\ tools' = tools
      /\ \A e \in Elements(commons[c].devices) : devs[e].toolarea
      /\ spun' = IF to = "none" THEN spun \cup {c} ELSE spun
  BY DEF Rotate, Settable
<1>4. devs' = g.devs /\ commons' = g.commons /\ areas' = g.areas
  <2> DEFINE x == [Heap EXCEPT !.commons[c].rotate = to]
             y == AllTurned(x, s, from, to)
  <2>1. devs' = y.devs /\ commons' = y.commons /\ areas' = y.areas
    BY DEF Rotate
  <2>2. x = k
    BY <1>2
  <2> HIDE DEF x, k
  <2> QED
    BY <2>1, <2>2
<1>5. \A e \in Fellows(Heap, s) : Heap.devs[e].toolarea
  BY <1>1, <1>3 DEF Fellows
<1>6. v.live = TRUE /\ HasFields(v, CommonFields) /\ v.rotate \in Rotations
  <2>1. c \in Sections /\ v.live
    BY <1>1, <1>3 DEF Sound, GoodHeap, Linked
  <2>2. v.live = TRUE /\ HasFields(v, CommonFields)
    BY <1>1, <2>1 DEF Sound, GoodHeap, Shapes, Gone
  <2>3. v.rotate \in Rotations
    BY <1>1, <2>1 DEF Sound, Values
  <2> QED
    BY <2>2, <2>3
<1>7. /\ HasFields(w, CommonFields) /\ w.live = TRUE /\ w.devices = v.devices
      /\ w.tools = v.tools /\ w.rotate = to /\ w.min_maj = v.min_maj
  <2> HIDE DEF v
  <2> QED
    BY <1>6 DEF HasFields, CommonFields
<1>8. TabletTurned(Heap, g, s, from, to, spun, spun')
  <2> DEFINE h == Heap
             after == spun'
             back == spun
  <2>1. /\ w.devices = h.commons[h.devs[s].common].devices
        /\ w.tools = h.commons[h.devs[s].common].tools
        /\ w.min_maj = h.commons[h.devs[s].common].min_maj
        /\ k = WithCommon(h, h.devs[s].common, w)
        /\ g = AllTurned(k, s, from, to) /\ h.devs[s].live
        /\ from \in Rotations
    BY <1>1, <1>3, <1>6, <1>7
  <2>2. Sound(h) /\ \A e \in Fellows(h, s) : h.devs[e].toolarea
    BY <1>1, <1>5
  <2>3. after = After(h, s, to, back)
    BY <1>1, <1>3 DEF After
  <2>4. Turning(h, w, s, to)
    BY <1>7, <2>1, <2>2 DEF Turning
  <2> HIDE DEF h, after, back, g, k, w, from
  <2>5. TabletTurned(h, g, s, from, to, back, after)
    BY <2>1, <2>3, <2>4, TurnedSet
  <2> QED
    BY <2>5 DEF h, after, back
<1> HIDE DEF g
<1>9. IsHeap(g) /\ g.tools = tools
  BY <1>1, <1>8 DEF TabletTurned, AsSet, Sound, GoodHeap
<1>10. Heap' = g
  BY <1>3, <1>4, <1>9, BecomesIs
<1> QED
  BY <1>8, <1>10

\* A tool is moved.
LEMMA MoveSet ==
    ASSUME SetupInv, NEW s \in Sections, NEW v0, NEW v1, Move(s, v0, v1)
    PROVE  AsSet(Heap, Heap', spun, spun')
<1> DEFINE v == devs[s]
           w == SetScreen(v, v.core, v0, v1, screens, pointer).v
<1>1. /\ v.live /\ devs' = [devs EXCEPT ![s] = w]
      /\ UNCHANGED <<commons, tools, areas, spun>>
  BY DEF Move
<1>2. Sound(Heap) /\ GoodDevice(v)
  BY <1>1 DEF SetupInv, Sound, Values, Heap
<1>3. Setted(v, w) /\ w.rect = v.rect
  <2> HIDE DEF v
  <2> QED
    BY <1>2, MovedGood
<1> HIDE DEF w
<1> QED
  BY <1>1, <1>2, <1>3, TurnsSet


-----------------------------------------------------------------------------
(* Starting, stopping and removing devices.                                *)

\* Heap o is h with device s's tablet open: its number is there, unless that
\* is at risk.
Opening(h, o, s) ==
    /\ Sound(o) /\ Kept(h, o) /\ o.devs = h.devs /\ o.areas = h.areas /\ o.tools = h.tools
    /\ "no_number" \notin Risks =>
         /\ \A c \in Sections : h.commons[c].min_maj => o.commons[c].min_maj
         /\ h.commons[h.devs[s].common].min_maj \/ ~InUse(h.devs[s].common) =>
              o.commons[h.devs[s].common].min_maj

\* What opening a device may come to, with the screens, the tablet and the areas as they
\* are
LEMMA OpeningIs ==
    ASSUME Sound(Heap), NEW s \in Sections, devs[s].live, NEW o \in Openings(s)
    PROVE  Opening(Heap, o, s)
<1> DEFINE h == Heap
           c == devs[s].common
<1>1. /\ h.devs[s].live /\ Sound(h) /\ h.devs = devs /\ c = h.devs[s].common
  BY DEF Heap
<1>2. CASE InUse(c)
  <2>1. o = h
    BY <1>2 DEF Openings
  <2>2. Kept(h, h)
    BY <1>1 DEF Kept, Sound, GoodHeap
  <2> HIDE DEF h
  <2>3. Opening(h, o, s)
    BY <1>1, <1>2, <2>1, <2>2 DEF Opening
  <2> QED
    BY <2>3 DEF h
<1>3. ASSUME NEW b, o = Numbered(h, s, b), "no_number" \notin Risks => b = TRUE
      PROVE  Opening(Heap, o, s)
  <2> HIDE DEF h
  <2>1. /\ Sound(o) /\ Kept(h, o)
        /\ o.devs = h.devs /\ o.areas = h.areas /\ o.tools = h.tools
        /\ o.commons[h.devs[s].common].min_maj = b
        /\ \A x \in Sections : x # h.devs[s].common => o.commons[x] = h.commons[x]
    BY <1>1, <1>3, NumberedSound
  <2>2. Opening(h, o, s)
    BY <1>3, <2>1 DEF Opening
  <2> QED
    BY <2>2 DEF h
<1>4. CASE ~InUse(c)
  <2>1. \/ o = Opened(h, s)
        \/ "no_number" \in Risks /\ o = [h EXCEPT !.commons[c].min_maj = FALSE]
    BY <1>4 DEF Openings
  <2>2. Opened(h, s) = Numbered(h, s, TRUE)
    BY DEF Opened, Numbered
  <2>3. [h EXCEPT !.commons[c].min_maj = FALSE] = Numbered(h, s, FALSE)
    BY <1>1 DEF Numbered
  <2> HIDE DEF h
  <2> QED
    BY <1>3, <2>1, <2>2, <2>3
<1> QED
  BY <1>2, <1>4

\* What becomes of a device that is started
Started(h, g, s, failed, back) ==
    /\ Sound(g)
    /\ \A e \in Sections \ {s} :
         /\ g.devs[e] = h.devs[e]
         /\ Ended(h.areas[e].rect) => g.areas[e].rect = h.areas[e].rect
    /\ g.devs[s].live /\ g.devs[s].source = h.devs[s].source
    /\ g.devs[s].common = h.devs[s].common
    /\ "no_number" \notin Risks =>
         \A c \in Sections : h.commons[c].min_maj => g.commons[c].min_maj
    /\ \/ /\ g.devs[s].stage = failed
          /\ g.devs[s].toolarea /\ Agrees(h, s, back) => Agrees(g, s, back)
       \/ /\ g.devs[s].stage = "on" /\ g.areas[s].rect = g.devs[s].rect
          /\ ~Bamboo => Right(g.devs[s])
          /\ "no_number" \notin Risks
               /\ (h.commons[h.devs[s].common].min_maj \/ ~InUse(h.devs[s].common)) =>
                  g.commons[g.devs[s].common].min_maj

\* A device's stage is all that changes.
LEMMA StageAgrees ==
    ASSUME NEW h, Sound(h), NEW s \in Sections, h.devs[s].live, NEW x, NEW g, g = Stage(h, s, x),
           NEW back
    PROVE  /\ Sound(g) /\ Kept(h, g) /\ DevOnly(h, g, s) /\ g.devs[s].stage = x
           /\ g.devs[s].source = h.devs[s].source /\ g.devs[s].common = h.devs[s].common
           /\ g.devs[s].live /\ Agrees(h, s, back) => Agrees(g, s, back)
<1>1. /\ Sound(g) /\ Kept(h, g) /\ DevOnly(h, g, s)
      /\ Only(h.devs[s], g.devs[s], {"stage"}) /\ g.devs[s].stage = x
  BY Staged
<1> DEFINE v == h.devs[s]
           w == g.devs[s]
<1> HIDE DEF v, w
<1>2. Only(v, w, {"stage"})
  BY <1>1 DEF v, w
<1>3. \A f \in {"source", "common", "rect", "live"} : w[f] = v[f]
  BY <1>2 DEF Only, DeviceFields
<1>4. w.source = v.source /\ w.common = v.common /\ w.rect = v.rect /\ w.live = v.live
  BY <1>3
<1>5. Right(v) => Right(w)
  <2>1. {"stage"} \cap ValueFields = {} /\ "type" \notin {"stage"}
    BY DEF ValueFields
  <2> QED
    BY <1>2, <2>1, RightStays
<1>6. g.areas = h.areas
  BY <1>1 DEF DevOnly
<1>7. Agrees(h, s, back) => Agrees(g, s, back)
  BY <1>4, <1>5, <1>6 DEF Agrees, v, w
<1> QED
  BY <1>1, <1>4, <1>7 DEF v, w

\* A device that cannot open its tablet
LEMMA NotOpened ==
    ASSUME NEW h, Sound(h), NEW s \in Sections, h.devs[s].live, NEW failed, NEW g,
           g = Stage(h, s, failed), NEW back
    PROVE  Started(h, g, s, failed, back)
<1>1. /\ Sound(g) /\ DevOnly(h, g, s) /\ g.devs[s].stage = failed
      /\ g.devs[s].source = h.devs[s].source /\ g.devs[s].common = h.devs[s].common
      /\ g.devs[s].live /\ Agrees(h, s, back) => Agrees(g, s, back)
  BY StageAgrees
<1>2. g.devs[s].live
  BY Staged, KeptLinks
<1> QED
  BY <1>1, <1>2 DEF Started, DevOnly

\* A device that can
LEMMA TriedStarted ==
    ASSUME NEW h, Sound(h), NEW s \in Sections, h.devs[s].live, NEW o, Opening(h, o, s),
           NEW failed, NEW g, Tried(o, g, s, failed), NEW back
    PROVE  Started(h, g, s, failed, back)
<1>1. /\ o.devs = h.devs /\ o.areas = h.areas
      /\ "no_number" \notin Risks =>
           /\ \A c \in Sections : h.commons[c].min_maj => o.commons[c].min_maj
           /\ h.commons[h.devs[s].common].min_maj \/ ~InUse(h.devs[s].common) =>
                o.commons[h.devs[s].common].min_maj
  BY DEF Opening
<1>2. /\ Sound(g)
      /\ Only(o.devs[s], g.devs[s], RegisterFields)
      /\ \A c \in Sections : g.commons[c].min_maj = o.commons[c].min_maj
      /\ \A e \in Sections \ {s} :
           /\ g.devs[e] = o.devs[e]
           /\ Ended(o.areas[e].rect) => g.areas[e].rect = o.areas[e].rect
      /\ \/ g.devs[s].stage = failed /\ g.devs[s].toolarea = FALSE
         \/ /\ g.devs[s].stage = "on" /\ g.areas[s].rect = g.devs[s].rect
            /\ ~Bamboo => Right(g.devs[s])
  BY DEF Tried
<1> DEFINE v == h.devs[s]
           w == g.devs[s]
<1> HIDE DEF v, w
<1>3. \A f \in {"source", "common", "live"} : w[f] = v[f]
  <2>1. {"source", "common", "live"} \subseteq DeviceFields \ RegisterFields
    BY DEF RegisterFields, FitFields, ScreenFields, PlaceFields, AxisFields, ViewFields,
           DeviceFields
  <2> QED
    BY <1>1, <1>2, <2>1 DEF Only, v, w
<1>4. w.source = v.source /\ w.common = v.common /\ w.live
  BY <1>3 DEF v
<1>5. v.common \in Sections
  BY DEF Sound, GoodHeap, Linked, v
<1>6. \A e \in Sections \ {s} :
         /\ g.devs[e] = h.devs[e]
         /\ Ended(h.areas[e].rect) => g.areas[e].rect = h.areas[e].rect
  BY <1>1, <1>2
<1>7. "no_number" \notin Risks =>
        \A c \in Sections : h.commons[c].min_maj => g.commons[c].min_maj
  BY <1>1, <1>2
<1>8. "no_number" \notin Risks
        /\ (h.commons[v.common].min_maj \/ ~InUse(v.common)) => g.commons[w.common].min_maj
  BY <1>1, <1>2, <1>4, <1>5 DEF v
<1> QED
  BY <1>2, <1>4, <1>6, <1>7, <1>8 DEF Started, v, w

\* DEVICE_INIT and DEVICE_ON
LEMMA RegisterStarts ==
    ASSUME SetupInv, NEW s \in Sections, NEW failed, Register(s, failed)
    PROVE  Started(Heap, Heap', s, failed, spun) /\ spun' = spun /\ screens' = screens
<1> DEFINE h == Heap
<1>1. /\ Sound(h) /\ IsServer(screens) /\ h.devs[s].live /\ h.devs[s].toolarea /\ h.devs = devs
      /\ spun' = spun /\ screens' = screens
  BY DEF SetupInv, Register, Intact, Heap
<1>2. ASSUME NEW g, Becomes(g), Started(h, g, s, failed, spun)
      PROVE  Started(Heap, Heap', s, failed, spun)
  <2>1. IsHeap(g)
    BY <1>2 DEF Started, Sound, GoodHeap
  <2>2. Heap' = g
    BY <1>2, <2>1, BecomesIs DEF Becomes
  <2> QED
    BY <1>2, <2>2
<1>3. CASE Becomes(Stage(Heap, s, failed))
  <2> DEFINE g == Stage(h, s, failed)
             back == spun
  <2>1. Becomes(g)
    BY <1>3
  <2>2. Started(h, g, s, failed, back)
    <3> HIDE DEF h, back
    <3> QED
      BY <1>1, NotOpened
  <2> HIDE DEF g
  <2> QED
    BY <1>1, <1>2, <2>1, <2>2
<1>4. ASSUME NEW o \in Openings(s),
             LET k == Sized(InitialToolSize(o, s), s)
             IN  Becomes(IF Refuses(k, s) THEN Stage(Refused(k, s), s, failed)
                         ELSE Stage(Registered(k, s), s, "on"))
      PROVE  Started(Heap, Heap', s, failed, spun)
  <2> DEFINE k == Sized(InitialToolSize(o, s), s)
             g == IF Refuses(k, s) THEN Stage(Refused(k, s), s, failed)
                  ELSE Stage(Registered(k, s), s, "on")
             back == spun
  <2>1. Becomes(g)
    BY <1>4
  <2>2. Opening(h, o, s)
    BY <1>1, OpeningIs
  <2>3. Sound(o) /\ o.devs = h.devs
    BY <2>2 DEF Opening
  <2> HIDE DEF h
  <2>4. Tried(o, g, s, failed)
    <3> DEFINE kk == k
               gg == g
    <3>1. /\ kk = Sized(InitialToolSize(o, s), s)
          /\ gg = IF Refuses(kk, s) THEN Stage(Refused(kk, s), s, failed)
                  ELSE Stage(Registered(kk, s), s, "on")
      OBVIOUS
    <3>2. o.devs[s].live /\ o.devs[s].toolarea /\ Sound(o) /\ IsServer(screens)
      BY <1>1, <2>3
    <3> HIDE DEF kk, gg
    <3>3. Tried(o, gg, s, failed)
      BY <3>1, <3>2, TriedSound
    <3> QED
      BY <3>3 DEF gg, kk
  <2> HIDE DEF g, back
  <2>5. Started(h, g, s, failed, back)
    BY <1>1, <2>2, <2>4, TriedStarted
  <2> QED
    BY <1>2, <2>1, <2>5 DEF back
<1>5. \/ Becomes(Stage(Heap, s, failed))
      \/ \E o \in Openings(s) :
           LET k == Sized(InitialToolSize(o, s), s)
           IN  Becomes(IF Refuses(k, s) THEN Stage(Refused(k, s), s, failed)
                       ELSE Stage(Registered(k, s), s, "on"))
  BY DEF Register
<1>6. Started(Heap, Heap', s, failed, spun)
  BY <1>3, <1>4, <1>5
<1> QED
  BY <1>1, <1>6


\* What becomes of a device that is disabled
Stopped(h, g, s, back) ==
    /\ Sound(g) /\ g.areas = h.areas /\ g.commons = h.commons
    /\ \A e \in Sections \ {s} : g.devs[e] = h.devs[e]
    /\ g.devs[s].live /\ g.devs[s].stage = "off" /\ g.devs[s].source = h.devs[s].source
    /\ g.devs[s].common = h.devs[s].common
    /\ g.devs[s].toolarea = h.devs[s].toolarea
    /\ Agrees(h, s, back) => Agrees(g, s, back)

\* DEVICE_OFF
LEMMA OffStops ==
    ASSUME SetupInv, NEW s \in Sections, DeviceOff(s)
    PROVE  /\ Stopped(Heap, Heap', s, spun) /\ spun' = spun /\ screens' = screens
           /\ devs[s].live /\ devs[s].stage = "on"
<1> DEFINE h == Heap
           g == Stage(h, s, "off")
           back == spun
<1>1. /\ Sound(h) /\ h.devs[s].live /\ Becomes(g) /\ spun' = spun /\ screens' = screens
      /\ devs[s].live /\ devs[s].stage = "on"
  BY DEF SetupInv, DeviceOff, Heap
<1>2. Stopped(h, g, s, back) /\ IsHeap(g)
  <2> DEFINE gg == g
  <2>1. gg = Stage(h, s, "off")
    OBVIOUS
  <2> HIDE DEF gg, h, back
  <2>2. /\ Sound(gg) /\ Kept(h, gg) /\ DevOnly(h, gg, s) /\ gg.devs[s].stage = "off"
        /\ gg.devs[s].source = h.devs[s].source /\ gg.devs[s].common = h.devs[s].common
        /\ gg.devs[s].live /\ Agrees(h, s, back) => Agrees(gg, s, back)
    BY <1>1, <2>1, StageAgrees
  <2>3. gg.devs[s].live /\ gg.devs[s].toolarea = h.devs[s].toolarea
    <3>1. Kept(h, gg)
      BY <1>1, <2>1, Staged
    <3> QED
      BY <1>1, <3>1, KeptLinks
  <2>4. Stopped(h, gg, s, back)
    BY <2>2, <2>3 DEF Stopped, DevOnly
  <2>5. IsHeap(gg)
    BY <2>2 DEF Sound, GoodHeap
  <2> QED
    BY <2>4, <2>5 DEF gg
<1> HIDE DEF g
<1>3. Heap' = g
  BY <1>1, <1>2, BecomesIs DEF Becomes
<1> QED
  BY <1>1, <1>2, <1>3

\* What is left when a device is removed
Removed(h, g, s) ==
    /\ Sound(g)
    /\ g.devs[s] = Gone
    /\ \A e \in Sections \ {s} : g.devs[e] = h.devs[e] /\ g.areas[e] = h.areas[e]
    /\ \A c \in Sections : g.commons[c].live => g.commons[c].min_maj = h.commons[c].min_maj

\* xf86WcmUninit
LEMMA UninitRemoves ==
    ASSUME SetupInv, "shared_removed" \notin Risks, NEW s \in Sections, Uninit(s)
    PROVE  Removed(Heap, Heap', s) /\ spun' = spun /\ screens' = screens
<1> DEFINE h == Heap
           g == CommonFreed(DeviceFreed(ToolFreed(AreaFreed(h, s), s), s), h.devs[s].common)
<1>1. /\ Sound(h) /\ h.devs[s].live /\ spun' = spun /\ screens' = screens /\ h.devs = devs
  BY DEF SetupInv, Uninit, Intact, Heap
<1>2. Becomes(g)
  BY DEF Uninit, Heap
<1>3. Alone(h, s)
  BY <1>1 DEF Alone, Uninit, SharesTool
<1>4. Removed(h, g, s)
  <2> DEFINE k == g
  <2>1. k = CommonFreed(DeviceFreed(ToolFreed(AreaFreed(h, s), s), s), h.devs[s].common)
    OBVIOUS
  <2> HIDE DEF k, h
  <2>2. GoodHeap(h) /\ Values(h)
    BY <1>1 DEF Sound
  <2>3. /\ GoodHeap(k)
        /\ k.devs[s] = Gone /\ \A e \in Sections \ {s} : k.devs[e] = h.devs[e]
        /\ \A e \in Sections \ {s} : k.areas[e] = h.areas[e]
        /\ \A e \in Sections : k.commons[e].live =>
             h.commons[e].live /\ k.commons[e].rotate = h.commons[e].rotate
             /\ k.commons[e].min_maj = h.commons[e].min_maj
    BY <1>1, <1>3, <2>1, <2>2, RemovedGood
  <2>4. Values(k)
    BY <2>2, <2>3 DEF Values, Gone
  <2>5. Removed(h, k, s)
    BY <2>3, <2>4 DEF Removed, Sound
  <2> QED
    BY <2>5 DEF k
<1> HIDE DEF g
<1>5. IsHeap(g)
  BY <1>4 DEF Removed, Sound, GoodHeap
<1>6. Heap' = g
  BY <1>2, <1>5, BecomesIs DEF Becomes
<1> QED
  BY <1>1, <1>4, <1>6

\* xf86WcmInit
LEMMA ConfigureAdds ==
    ASSUME SetupInv, "no_tablet" \notin Risks, NEW s \in Sections, NEW o \in Options[s],
           Configure(s, o)
    PROVE  AsConfigured(Heap, Heap', s, o) /\ spun' = spun /\ screens' = screens
<1>1. Sound(Heap) /\ NameFree(s) /\ spun' = spun /\ screens' = screens
  BY DEF SetupInv, Configure
<1>2. \E keys \in TypeKeys(o.path) :
        LET h == Allocated(s, o, ValidKeys(o, keys))
        IN  Becomes(Joined(Optioned(SpecOptions(Matched(h, s), s, o), s, o), s))
  BY DEF Configure
<1>3. PICK keys \in TypeKeys(o.path) :
        LET h == Allocated(s, o, ValidKeys(o, keys))
        IN  Becomes(Joined(Optioned(SpecOptions(Matched(h, s), s, o), s, o), s))
  BY <1>2
<1> DEFINE all == ValidKeys(o, keys)
           h == Allocated(s, o, all)
           g == Joined(Optioned(SpecOptions(Matched(h, s), s, o), s, o), s)
<1>4. Becomes(g)
  BY <1>3
<1> HIDE DEF all
<1>5. AsConfigured(Heap, g, s, o)
  <2> DEFINE hh == h
             gg == g
  <2>1. /\ hh = Allocated(s, o, all)
        /\ gg = Joined(Optioned(SpecOptions(Matched(hh, s), s, o), s, o), s)
    OBVIOUS
  <2> HIDE DEF hh, gg
  <2>2. AsConfigured(Heap, gg, s, o)
    BY <1>1, <2>1, MadeConfigured
  <2> QED
    BY <2>2 DEF gg, hh
<1> HIDE DEF g
<1>6. IsHeap(g)
  BY <1>5 DEF AsConfigured, Sound, GoodHeap
<1>7. Heap' = g
  BY <1>4, <1>6, BecomesIs DEF Becomes
<1> QED
  BY <1>1, <1>5, <1>7

-----------------------------------------------------------------------------
(* The steps of the specification.                                         *)

\* A known error in the code is not met: a device without a tablet, and the
\* removal of one of two devices that share a tool.
CarefulSetup == "no_tablet" \notin Risks /\ "shared_removed" \notin Risks

\* Devices are configured, started, stopped and removed.
Lifecycle(s) ==
    /\ spun' = spun
    /\ \/ \E o \in Options[s] : Configure(s, o) /\ AsConfigured(Heap, Heap', s, o)
       \/ Removed(Heap, Heap', s)
       \/ /\ devs[s].live /\ devs[s].stage = "configured" /\ devs[s].toolarea
          /\ Started(Heap, Heap', s, "failed", spun)
       \/ /\ devs[s].live /\ devs[s].stage = "off" /\ devs[s].toolarea
          /\ Started(Heap, Heap', s, "off", spun)
       \/ /\ devs[s].live /\ devs[s].stage = "on"
          /\ Stopped(Heap, Heap', s, spun)

\* A client's setting leaves the heap sound, and the rectangles where they were or turned.
LEMMA SettingSets ==
    ASSUME SetupInv, NEW s \in Sections, Setting(s)
    PROVE  AsSet(Heap, Heap', spun, spun') /\ screens' = screens
<1>1. screens' = screens
  BY DEF Setting, SetSide, SetDefault, Rotate, SwitchMode, SetMMonitor, SetCore, SetScreenNo,
         SetTwinView, SetTVResolution, Settable
<1>2. CASE \E side \in Sides, value \in Ends : SetSide(s, side, value)
  BY <1>1, <1>2, SideSetSet
<1>3. CASE SetDefault(s)
  BY <1>1, <1>3, DefaultSet
<1>4. CASE \E to \in Rotations : Rotate(s, to)
  BY <1>1, <1>4, RotateSet DEF TabletTurned
<1>5. CASE \/ \E b \in BOOLEAN : SwitchMode(s, b) \/ SetMMonitor(s, b) \/ SetCore(s, b)
           \/ \E n \in {-1, 0, 1} : SetScreenNo(s, n)
           \/ \E t \in TwinViews : SetTwinView(s, t)
           \/ \E n \in {0, 1}, wh \in Halves : SetTVResolution(s, n, wh[1], wh[2])
  BY <1>1, <1>5, DeviceSet
<1> QED
  BY <1>2, <1>3, <1>4, <1>5 DEF Setting

\* A step is a setting, or a step in one device's life.
LEMMA StepsAre ==
    ASSUME CarefulSetup, SetupInv, SetupNext
    PROVE  /\ screens' = screens
           /\ AsSet(Heap, Heap', spun, spun') \/ \E s \in Sections : Lifecycle(s)
<1>1. PICK s \in Sections :
        \/ \E o \in Options[s] : Configure(s, o)
        \/ Uninit(s) \/ DeviceInit(s) \/ DeviceOn(s) \/ DeviceOff(s)
        \/ Setting(s)
        \/ \E at \in Places : Move(s, at[1], at[2])
  BY DEF SetupNext
<1>2. ASSUME NEW o \in Options[s], Configure(s, o)
      PROVE  Lifecycle(s) /\ screens' = screens
  BY <1>2, ConfigureAdds DEF Lifecycle, CarefulSetup
<1>3. CASE Uninit(s)
  BY <1>3, UninitRemoves DEF Lifecycle, CarefulSetup
<1>4. CASE DeviceInit(s)
  BY <1>4, RegisterStarts DEF Lifecycle, DeviceInit, Register
<1>5. CASE DeviceOn(s)
  BY <1>5, RegisterStarts DEF Lifecycle, DeviceOn, Register
<1>6. CASE DeviceOff(s)
  BY <1>6, OffStops DEF Lifecycle
<1>7. CASE Setting(s)
  BY <1>7, SettingSets
<1>8. ASSUME NEW at \in Places, Move(s, at[1], at[2])
      PROVE  AsSet(Heap, Heap', spun, spun') /\ screens' = screens
  <2>1. screens' = screens
    BY <1>8 DEF Move
  <2> QED
    BY <1>8, <2>1, MoveSet
<1> QED
  BY <1>1, <1>2, <1>3, <1>4, <1>5, <1>6, <1>7, <1>8

\* The driver's records stay in order.
LEMMA SetupKept ==
    ASSUME CarefulSetup, SetupInv, [SetupNext]_setupVars
    PROVE  SetupInv'
<1>1. CASE UNCHANGED setupVars
  BY <1>1 DEF SetupInv, Heap, setupVars, heapVars
<1>2. CASE SetupNext
  <2>1. Sound(Heap') /\ screens' = screens
    BY <1>2, StepsAre DEF AsSet, Lifecycle, AsConfigured, Removed, Started, Stopped
  <2>2. IsServer(screens)
    BY DEF SetupInv
  <2> QED
    BY <2>1, <2>2 DEF SetupInv
<1> QED
  BY <1>1, <1>2

\* There is nothing at first.
LEMMA SetupStarts ==
    ASSUME SetupInit
    PROVE  SetupInv
<1>1. IsHeap(Heap)
  BY DEF SetupInit, IsHeap, OnSections, Heap
<1>2. \A s \in Sections : /\ Heap.devs[s] = Gone /\ Heap.commons[s] = Gone
                          /\ Heap.tools[s] = Gone /\ Heap.areas[s] = Gone
  BY DEF SetupInit, Heap
<1>3. Gone.live = FALSE
  BY DEF Gone
<1>4. Sound(Heap)
  BY <1>1, <1>2, <1>3 DEF Sound, GoodHeap, Shapes, Linked, Values
<1>5. IsServer(screens)
  BY SetupAssumption DEF SetupInit, IsServer
<1> QED
  BY <1>4, <1>5 DEF SetupInv

\* xf86WcmInit, DevConvert, xf86WcmUninit and the clients' settings keep the lists of
\* devices, tools and areas sound: what is linked is live, what is live is linked back,
\* and the values a device holds are good enough for the next step to compute with.
THEOREM SetupSafe == ASSUME CarefulSetup PROVE SetupSpec => []SetupInv
<1>1. SetupInit => SetupInv
  BY SetupStarts
<1>2. SetupInv /\ [SetupNext]_setupVars => SetupInv'
  BY SetupKept
<1> QED
  BY <1>1, <1>2, PTL DEF SetupSpec

\* Nothing in the driver or the server points to what was freed.
LEMMA SoundPoints ==
    ASSUME SetupInv
    PROVE  NothingDangles
<1>1. Linked(Heap) /\ Shapes(Heap)
  BY DEF SetupInv, Sound, GoodHeap
<1>2. \A s \in Sections : devs[s].listed => devs[s].live
  BY <1>1 DEF Shapes, Heap, Gone
<1>3. \A s \in Live :
         /\ commons[devs[s].common].live
         /\ tools[devs[s].tool].live
         /\ devs[s].tool \in Elements(commons[devs[s].common].tools)
         /\ devs[s].toolarea =>
              /\ areas[s].live
              /\ s \in Elements(tools[devs[s].tool].areas)
              /\ s \in Elements(commons[devs[s].common].devices)
  BY <1>1 DEF Linked, Heap, Live
<1>4. ASSUME NEW c \in Sections, commons[c].live
      PROVE  /\ \A e \in Elements(commons[c].devices) : devs[e].live
             /\ \A t \in Elements(commons[c].tools) :
                  tools[t].live /\ \A a \in Elements(tools[t].areas) : areas[a].live /\ devs[a].live
  <2>1. /\ List(commons[c].tools)
        /\ \A e \in Elements(commons[c].devices) : devs[e].live
        /\ \A t \in Elements(commons[c].tools) : tools[t].live
    BY <1>1, <1>4 DEF Linked, Heap
  <2>2. ASSUME NEW t \in Elements(commons[c].tools), NEW a \in Elements(tools[t].areas)
        PROVE  areas[a].live /\ devs[a].live
    <3>1. t \in Sections /\ tools[t].live
      BY <2>1, ElementsIn
    <3>2. List(tools[t].areas) /\ devs[a].live /\ devs[a].toolarea
      BY <1>1, <3>1 DEF Linked, Heap
    <3>3. a \in Sections
      BY <3>2, ElementsIn
    <3> QED
      BY <1>1, <3>2, <3>3 DEF Linked, Heap
  <2> QED
    BY <2>1, <2>2
<1> QED
  BY <1>2, <1>3, <1>4 DEF NothingDangles

\* No record is used after free(): what a device, a tablet or a tool points to is live,
\* and who is listed points back, whatever is configured, plugged in, set or removed.
THEOREM NeverDangles == ASSUME CarefulSetup PROVE SetupSpec => []NothingDangles
<1>1. SetupSpec => []SetupInv
  BY SetupSafe
<1>2. SetupInv => NothingDangles
  BY SoundPoints
<1> QED
  BY <1>1, <1>2, PTL


\* Every device of a tablet that a client turns has the part of the surface it
\* had.
PlaceKept ==
    \A s \in Live : \A to \in Rotations : Rotate(s, to) =>
      LET c == devs[s].common
      IN  \A e \in Elements(commons[c].devices) :
             SurfaceOf(devs[e], commons[c].rotate)' = SurfaceOf(devs[e], commons[c].rotate)

\* It is a property of each step.
LEMMA TurnKeepsPlace ==
    ASSUME SetupInv
    PROVE  PlaceKept
<1> SUFFICES ASSUME NEW s \in Sections, NEW to \in Rotations, Rotate(s, to),
                    NEW e \in Elements(commons[devs[s].common].devices)
             PROVE  SurfaceOf(devs'[e], commons'[devs'[s].common].rotate)
                      = SurfaceOf(devs[e], commons[devs[s].common].rotate)
  BY DEF PlaceKept, SurfaceOf, Live
<1>1. /\ Kept(Heap, Heap') /\ AllStay(Heap, Heap', s, commons[devs[s].common].rotate, to)
      /\ commons'[devs[s].common].rotate = to
  BY RotateSet DEF TabletTurned, AsSet, Heap
<1>2. devs'[s].common = devs[s].common
  <2>1. Heap'.devs[s].common = Heap.devs[s].common
    BY <1>1, KeptLinks
  <2> QED
    BY <2>1 DEF Heap
<1>3. SurfaceOf(devs'[e], to) = SurfaceOf(devs[e], commons[devs[s].common].rotate)
  BY <1>1 DEF AllStay, Fellows, Heap
<1> QED
  BY <1>1, <1>2, <1>3

\* "rotate all devices at once! else they get misaligned": whoever turns a
\* tablet, and whatever was configured, every device of it keeps its place.
THEOREM TurnsTogether == ASSUME CarefulSetup PROVE SetupSpec => RotatingKeepsPlace
<1>1. SetupSpec => []SetupInv
  BY SetupSafe
<1>2. SetupInv => PlaceKept
  BY TurnKeepsPlace
<1>3. RotatingKeepsPlace <=> [][PlaceKept]_setupVars
  BY DEF RotatingKeepsPlace, PlaceKept
<1> HIDE DEF PlaceKept
<1> QED
  BY <1>1, <1>2, <1>3, PTL

-----------------------------------------------------------------------------
(* One source.                                                             *)

\* What is plugged in comes with its device's path.
PluggedByPath ==
    \A s \in Sections : \A o \in Options[s] : o.source = "hotplug" => o.path \in {"event", "link"}

\* A device that was initialised has a tablet whose number is known; a section
\* of the configuration has failed if one that was plugged in is there.
Sources ==
    \A s \in Sections : devs[s].live =>
        /\ devs[s].source \in {"conf", "hotplug"}
        /\ devs[s].stage \in {"configured", "on", "off", "failed"}
        /\ devs[s].stage \in {"on", "off"} => commons[devs[s].common].min_maj
        /\ devs[s].source = "conf" =>
             \A e \in Sections :
               devs[e].live /\ devs[e].source = "hotplug" => devs[s].stage = "failed"

\* A section is configured.
LEMMA ConfigureOneSource ==
    ASSUME PluggedByPath, SetupInv, Sources, NEW s \in Sections, NEW o \in Options[s],
           Configure(s, o), AsConfigured(Heap, Heap', s, o)
    PROVE  Sources'
<1>1. /\ \A e \in Sections \ {s} : /\ devs'[e] = devs[e]
                                   /\ commons[e].live => commons'[e].min_maj = commons[e].min_maj
      /\ devs'[s].stage = "configured" /\ devs'[s].source = o.source
  BY DEF AsConfigured, Heap
<1>2. ~commons[s].live /\ InTurn(o) /\ ~IsDuplicate(s, o)
  BY DEF Configure, NameFree
<1>3. \A e \in Sections : devs[e].live =>
        devs[e].common \in Sections /\ commons[devs[e].common].live
  BY DEF SetupInv, Sound, GoodHeap, Linked, Heap
<1>4. o.source \in {"conf", "hotplug"}
  BY SectionIs
<1>5. ASSUME NEW e \in Sections, devs'[e].live
      PROVE  /\ devs'[e].source \in {"conf", "hotplug"}
             /\ devs'[e].stage \in {"configured", "on", "off", "failed"}
             /\ devs'[e].stage \in {"on", "off"} => commons'[devs'[e].common].min_maj
  <2>1. CASE e = s
    BY <1>1, <1>4, <2>1
  <2>2. CASE e # s
    <3>1. devs'[e] = devs[e] /\ devs[e].live
      BY <1>1, <1>5, <2>2
    <3>2. devs[e].common # s /\ commons[devs[e].common].live
      BY <1>2, <1>3, <3>1
    <3>3. commons'[devs[e].common].min_maj = commons[devs[e].common].min_maj
      BY <1>1, <1>3, <3>1, <3>2
    <3> QED
      BY <3>1, <3>3 DEF Sources
  <2> QED
    BY <2>1, <2>2
<1>6. ASSUME NEW e \in Sections, devs'[e].live, devs'[e].source = "conf",
             NEW d \in Sections, devs'[d].live, devs'[d].source = "hotplug"
      PROVE  devs'[e].stage = "failed"
  <2>1. CASE o.source = "conf"
    <3>1. d # s /\ devs[d].live /\ devs[d].source = "hotplug"
      BY <1>1, <1>6, <2>1
    <3> QED
      BY <1>2, <2>1, <3>1 DEF InTurn
  <2>2. CASE o.source = "hotplug"
    <3>1. e # s /\ devs'[e] = devs[e] /\ devs[e].live /\ devs[e].source = "conf"
      BY <1>1, <1>6, <2>2
    <3>2. devs[e].stage # "configured"
      BY <1>2, <2>2, <3>1 DEF InTurn
    <3>3. o.path \in {"event", "link"}
      BY <2>2 DEF PluggedByPath
    <3>4. ~commons[devs[e].common].min_maj
      BY <1>2, <2>2, <3>1, <3>3 DEF IsDuplicate
    <3> QED
      BY <3>1, <3>2, <3>4 DEF Sources
  <2> QED
    BY <1>4, <2>1, <2>2
<1> QED
  BY <1>5, <1>6 DEF Sources

\* A device is started, or fails to be: it had not failed before.
LEMMA StartedOneSource ==
    ASSUME "no_number" \notin Risks, SetupInv, Sources, NEW s \in Sections, NEW failed,
           devs[s].live, \/ devs[s].stage = "configured" /\ failed = "failed"
                         \/ devs[s].stage = "off" /\ failed = "off",
           Started(Heap, Heap', s, failed, spun)
    PROVE  Sources'
<1>1. /\ \A e \in Sections \ {s} : devs'[e] = devs[e]
      /\ devs'[s].source = devs[s].source /\ devs'[s].common = devs[s].common
      /\ \A c \in Sections : commons[c].min_maj => commons'[c].min_maj
      /\ \/ devs'[s].stage = failed
         \/ /\ devs'[s].stage = "on"
            /\ commons[devs[s].common].min_maj \/ ~InUse(devs[s].common) =>
                 commons'[devs'[s].common].min_maj
  BY DEF Started, Heap
<1>2. \A e \in Sections : devs[e].live => devs[e].common \in Sections
  BY DEF SetupInv, Sound, GoodHeap, Linked, Heap
<1>3. InUse(devs[s].common) => commons[devs[s].common].min_maj
  BY DEF InUse, Sources
<1>4. devs'[s].stage \in {"on", "off"} => commons'[devs'[s].common].min_maj
  BY <1>1, <1>2, <1>3 DEF Sources
<1>5. \A e \in Sections \ {s} : devs'[e].live =>
        (devs'[e].stage \in {"on", "off"} => commons'[devs'[e].common].min_maj)
  BY <1>1, <1>2 DEF Sources
<1>6. devs[s].source = "conf" =>
        \A e \in Sections : ~(devs[e].live /\ devs[e].source = "hotplug")
  BY DEF Sources
<1>7. \A e \in Sections : devs'[e].live =>
        /\ devs'[e].source \in {"conf", "hotplug"}
        /\ devs'[e].stage \in {"configured", "on", "off", "failed"}
  BY <1>1 DEF Sources
<1>8. ASSUME NEW e \in Sections, devs'[e].live, devs'[e].source = "conf",
             NEW d \in Sections, devs'[d].live, devs'[d].source = "hotplug"
      PROVE  devs'[e].stage = "failed"
  <2>1. devs[d].live /\ devs[d].source = "hotplug" /\ devs[e].live /\ devs[e].source = "conf"
    BY <1>1, <1>8
  <2>2. e # s
    BY <1>6, <2>1
  <2> QED
    BY <1>1, <2>1, <2>2 DEF Sources
<1> QED
  BY <1>4, <1>5, <1>7, <1>8 DEF Sources

\* Every step keeps to it.
LEMMA SourcesKept ==
    ASSUME CarefulSetup, PluggedByPath, "no_number" \notin Risks, SetupInv, Sources,
           [SetupNext]_setupVars
    PROVE  Sources'
<1>1. CASE UNCHANGED setupVars
  BY <1>1 DEF Sources, setupVars, heapVars
<1>2. CASE AsSet(Heap, Heap', spun, spun')
  <2>1. Kept(Heap, Heap') /\ \A e \in Sections : devs[e].live =>
          devs'[e].stage = devs[e].stage /\ devs'[e].source = devs[e].source
    BY <1>2 DEF AsSet, Heap
  <2>2. \A e \in Sections : devs'[e].live = devs[e].live /\ devs'[e].common = devs[e].common
    <3>1. \A e \in Sections : /\ Heap'.devs[e].live = Heap.devs[e].live
                              /\ Heap'.devs[e].common = Heap.devs[e].common
      BY <2>1, KeptLinks
    <3> QED
      BY <3>1 DEF Heap
  <2>3. \A c \in Sections : commons'[c].min_maj = commons[c].min_maj
    BY <1>2 DEF AsSet, Heap
  <2>4. \A e \in Sections : devs[e].live => devs[e].common \in Sections
    BY DEF SetupInv, Sound, GoodHeap, Linked, Heap
  <2> QED
    BY <2>1, <2>2, <2>3, <2>4 DEF Sources
<1>3. ASSUME NEW s \in Sections, Removed(Heap, Heap', s)
      PROVE  Sources'
  <2>1. /\ ~devs'[s].live /\ \A e \in Sections \ {s} : devs'[e] = devs[e]
        /\ \A c \in Sections : commons'[c].live => commons'[c].min_maj = commons[c].min_maj
    BY <1>3 DEF Removed, Heap, Gone
  <2>2. \A e \in Sections : devs'[e].live =>
          devs'[e].common \in Sections /\ commons'[devs'[e].common].live
    BY <1>3 DEF Removed, Sound, GoodHeap, Linked, Heap
  <2> QED
    BY <2>1, <2>2 DEF Sources
<1>4. ASSUME NEW s \in Sections, devs[s].live, devs[s].stage = "on", Stopped(Heap, Heap', s, spun)
      PROVE  Sources'
  <2>1. /\ \A e \in Sections \ {s} : devs'[e] = devs[e]
        /\ devs'[s].stage = "off" /\ devs'[s].source = devs[s].source
        /\ devs'[s].common = devs[s].common /\ commons' = commons
    BY <1>4 DEF Stopped, Heap
  <2> QED
    BY <1>4, <2>1 DEF Sources
<1>5. ASSUME NEW s \in Sections, Lifecycle(s)
      PROVE  Sources'
  BY <1>3, <1>4, <1>5, ConfigureOneSource, StartedOneSource DEF Lifecycle
<1> QED
  BY <1>1, <1>2, <1>5, StepsAre

\* "don't add the tool by hal/udev if user has defined at least one tool for
\* the device in xorg.conf": the working devices of a tablet come from one
\* source, if what is plugged in comes with its device's path and the tablet's
\* number can be had.
THEOREM OneSourceWorks ==
    ASSUME CarefulSetup, PluggedByPath, "no_number" \notin Risks
    PROVE  SetupSpec => []OneSource
<1>1. SetupSpec => []SetupInv
  BY SetupSafe
<1>2. SetupInit => Sources
  BY DEF SetupInit, Sources, Gone
<1>3. SetupInv /\ Sources /\ [SetupNext]_setupVars => Sources'
  BY SourcesKept
<1>4. Sources => OneSource
  BY DEF Sources, OneSource, Working, Live
<1> QED
  BY <1>1, <1>2, <1>3, <1>4, PTL DEF SetupSpec

-----------------------------------------------------------------------------
(* One rectangle.                                                          *)

\* The ends of the devices' parts of the tablet are given: zero stands for the
\* tablet's end, and is filled in anew whenever a device of it is registered.
EndsGiven == \A s \in Placed : devs[s].rect.bottomX # 0 /\ devs[s].rect.bottomY # 0

\* The copies agree for every device that has a place.
PlacesAgree == \A s \in Placed : Agrees(Heap, s, spun)

\* A device that was started
LEMMA StartedAgrees ==
    ASSUME ~Bamboo, SetupInv, PlacesAgree, EndsGiven, NEW s \in Sections, NEW failed,
           devs[s].live, devs[s].toolarea,
           \/ devs[s].stage = "configured" /\ failed = "failed"
           \/ devs[s].stage = "off" /\ failed = "off",
           Started(Heap, Heap', s, failed, spun), spun' = spun
    PROVE  PlacesAgree'
<1>1. /\ \A e \in Sections \ {s} :
            /\ devs'[e] = devs[e]
            /\ Ended(areas[e].rect) => areas'[e].rect = areas[e].rect
      /\ devs'[s].live
      /\ \/ /\ devs'[s].stage = failed
            /\ devs'[s].toolarea /\ Agrees(Heap, s, spun) => Agrees(Heap', s, spun)
         \/ /\ devs'[s].stage = "on" /\ areas'[s].rect = devs'[s].rect
            /\ Right(devs'[s])
  BY DEF Started, Heap
<1>2. ASSUME NEW e \in Placed', e # s
      PROVE  Agrees(Heap', e, spun)
  <2>1. devs'[e] = devs[e] /\ e \in Placed
    BY <1>1, <1>2 DEF Placed, Initialised, Live
  <2>2. Agrees(Heap, e, spun)
    BY <2>1 DEF PlacesAgree
  <2>3. devs[e].common \notin spun => areas'[e].rect = areas[e].rect
    <3>1. devs[e].rect \in Rects
      BY <2>1 DEF SetupInv, Sound, Values, GoodDevice, Decent, Heap, Placed, Initialised, Live
    <3>2. Ended(devs[e].rect)
      BY <2>1, <3>1 DEF Ended, EndsGiven
    <3>3. e \in Sections \ {s}
      BY <1>2 DEF Placed, Initialised, Live
    <3> QED
      BY <1>1, <2>2, <3>2, <3>3 DEF Agrees, Heap
  <2> QED
    BY <2>1, <2>2, <2>3 DEF Agrees, Heap
<1>3. ASSUME s \in Placed'
      PROVE  Agrees(Heap', s, spun)
  <2>1. devs'[s].stage \in {"on", "off"} /\ devs'[s].toolarea
    BY <1>3 DEF Placed, Initialised, Live
  <2>2. CASE devs'[s].stage = "on" /\ areas'[s].rect = devs'[s].rect /\ Right(devs'[s])
    BY <2>2 DEF Agrees, Heap
  <2>3. CASE /\ devs'[s].stage = failed
             /\ devs'[s].toolarea /\ Agrees(Heap, s, spun) => Agrees(Heap', s, spun)
    <3>1. s \in Placed
      BY <2>1, <2>3 DEF Placed, Initialised, Live
    <3> QED
      BY <2>1, <2>3, <3>1 DEF PlacesAgree
  <2> QED
    BY <1>1, <2>2, <2>3
<1> QED
  BY <1>2, <1>3 DEF PlacesAgree

\* Every step
LEMMA PlacesKept ==
    ASSUME CarefulSetup, ~Bamboo, SetupInv, PlacesAgree, EndsGiven, [SetupNext]_setupVars
    PROVE  PlacesAgree'
<1>1. CASE UNCHANGED setupVars
  BY <1>1 DEF PlacesAgree, Placed, Initialised, Live, Heap, setupVars, heapVars
<1>2. CASE AsSet(Heap, Heap', spun, spun')
  <2>1. Kept(Heap, Heap') /\ \A e \in Sections : devs[e].live =>
          /\ devs'[e].stage = devs[e].stage
          /\ devs[e].toolarea /\ Agrees(Heap, e, spun) => Agrees(Heap', e, spun')
    BY <1>2 DEF AsSet, Heap
  <2>2. \A e \in Sections : devs'[e].live = devs[e].live /\ devs'[e].toolarea = devs[e].toolarea
    <3>1. \A e \in Sections : /\ Heap'.devs[e].live = Heap.devs[e].live
                              /\ Heap'.devs[e].toolarea = Heap.devs[e].toolarea
      BY <2>1, KeptLinks
    <3> QED
      BY <3>1 DEF Heap
  <2> QED
    BY <2>1, <2>2 DEF PlacesAgree, Placed, Initialised, Live
<1>3. ASSUME NEW s \in Sections, spun' = spun, s \notin Placed',
             \A e \in Sections \ {s} : devs'[e] = devs[e] /\ areas'[e] = areas[e]
      PROVE  PlacesAgree'
  BY <1>3 DEF PlacesAgree, Placed, Initialised, Live, Agrees, Heap
<1>4. ASSUME NEW s \in Sections, Lifecycle(s)
      PROVE  PlacesAgree'
  <2>1. spun' = spun
    BY <1>4 DEF Lifecycle
  <2>2. ASSUME NEW o \in Options[s], AsConfigured(Heap, Heap', s, o)
        PROVE  PlacesAgree'
    <3>1. /\ \A e \in Sections \ {s} : devs'[e] = devs[e] /\ areas'[e] = areas[e]
          /\ devs'[s].stage = "configured"
      BY <2>2 DEF AsConfigured, Heap
    <3> QED
      BY <1>3, <2>1, <3>1 DEF Placed, Initialised, Live
  <2>3. CASE Removed(Heap, Heap', s)
    <3>1. /\ \A e \in Sections \ {s} : devs'[e] = devs[e] /\ areas'[e] = areas[e]
          /\ ~devs'[s].live
      BY <2>3 DEF Removed, Heap, Gone
    <3> QED
      BY <1>3, <2>1, <3>1 DEF Placed, Initialised, Live
  <2>4. CASE devs[s].live /\ devs[s].stage = "on" /\ Stopped(Heap, Heap', s, spun)
    <3>1. /\ \A e \in Sections \ {s} : devs'[e] = devs[e] /\ areas'[e] = areas[e]
          /\ devs'[s].toolarea = devs[s].toolarea
          /\ Agrees(Heap, s, spun) => Agrees(Heap', s, spun)
      BY <2>4 DEF Stopped, Heap
    <3>2. s \in Placed' => Agrees(Heap', s, spun)
      BY <2>4, <3>1 DEF PlacesAgree, Placed, Initialised, Live
    <3> QED
      BY <2>1, <3>1, <3>2 DEF PlacesAgree, Placed, Initialised, Live, Agrees, Heap
  <2> QED
    BY <1>4, <2>1, <2>2, <2>3, <2>4, StartedAgrees DEF Lifecycle
<1> QED
  BY <1>1, <1>2, <1>4, StepsAre

\* The rectangle of the axes
LEMMA AgreesSays ==
    ASSUME PlacesAgree
    PROVE  OneRectangle
<1> SUFFICES ASSUME NEW s \in Placed
             PROVE  LET d == devs[s]
                        right == IF d.absolute THEN d.rect ELSE Area(0, 0, d.maxX, d.maxY)
                    IN  /\ d.common \notin spun => areas[s].rect = d.rect
                        /\ ~Twin(d) /\ d.type # "pad" =>
                             d.axes = [x |-> <<right.topX, right.bottomX>>,
                                       y |-> <<right.topY, right.bottomY>>]
  BY DEF OneRectangle
<1>1. Right(devs[s]) /\ (devs[s].common \notin spun => areas[s].rect = devs[s].rect)
  BY DEF PlacesAgree, Agrees, Heap
<1> QED
  BY <1>1 DEF Right, AxisX, AxisY, Area

\* However a device's part of the tablet is set, turned, registered again or
\* refused, its three copies agree, while no end of it is at zero.
THEOREM RectanglesAgree ==
    ASSUME CarefulSetup, ~Bamboo
    PROVE  SetupSpec /\ []EndsGiven => []OneRectangle
<1>1. SetupSpec => []SetupInv
  BY SetupSafe
<1>2. SetupInit => PlacesAgree
  BY DEF SetupInit, PlacesAgree, Placed, Initialised, Live, Gone
<1>3. SetupInv /\ PlacesAgree /\ EndsGiven /\ [SetupNext]_setupVars => PlacesAgree'
  BY PlacesKept
<1>4. PlacesAgree => OneRectangle
  BY AgreesSays
<1> QED
  BY <1>1, <1>2, <1>3, <1>4, PTL DEF SetupSpec

=============================================================================
