----------------------------- MODULE WacomAreas -----------------------------
(***************************************************************************)
(* The part of a tablet a tool is used on: when two parts overlap          *)
(* (src/xdrv/wcmConfig.c), how a part is verified before it is used, and   *)
(* how it turns with the tablet (src/xdrv/wcmMapping.c).                   *)
(***************************************************************************)
EXTENDS Integers

\* The rectangle of a WacomToolArea, of which 0 as the bottom is "to the end".
Area(left, top, right, bottom) ==
    [topX |-> left, topY |-> top, bottomX |-> right, bottomY |-> bottom]

Sides == {"topX", "topY", "bottomX", "bottomY"}
Whole == Area(0, 0, 0, 0)

\* xf86WcmPointInArea
PointInArea(a, x, y) == a.topX <= x /\ x <= a.bottomX /\ a.topY <= y /\ y <= a.bottomY

CornerIn(a, b) == \E x \in {b.topX, b.bottomX}, y \in {b.topY, b.bottomY} : PointInArea(a, x, y)

\* xf86WcmAreasOverlap: a corner of one is in the other.
AreasOverlap(a, b) == CornerIn(a, b) \/ CornerIn(b, a)

\* What overlapping means.
Meet(a, b) ==
    /\ a.topX <= b.bottomX /\ b.topX <= a.bottomX
    /\ a.topY <= b.bottomY /\ b.topY <= a.bottomY

-----------------------------------------------------------------------------
\* InitArea: the rectangle is made to fit, before its shape is kept.  A device
\* is a record with the fields rect, maxX and maxY here.
Verified(v) ==
    LET r == v.rect
        left == IF r.topX > v.maxX THEN 0 ELSE r.topX
        top  == IF r.topY > v.maxY THEN 0 ELSE r.topY
    IN  Area(left, top,
             IF r.bottomX < left \/ r.bottomX = 0 THEN v.maxX ELSE r.bottomX,
             IF r.bottomY < top \/ r.bottomY = 0 THEN v.maxY ELSE r.bottomY)

\* KEEP_SHAPE_FLAG: what is left of the tablet, in the shape of a desktop of
\* this width and height.
Shaped(v, r, width, height) ==
    LET w == v.maxX - r.topX
        h == v.maxY - r.topY
    IN  IF width * h > w * height
        THEN Area(r.topX, r.topY, v.maxX, r.topY + (w * height) \div width)
        ELSE Area(r.topX, r.topY, r.topX + (h * width) \div height, v.maxY)

-----------------------------------------------------------------------------
Rotations == {"none", "cw", "ccw", "half"}
Turns(rotate) == rotate \in {"cw", "ccw"}

\* The logical size after a quarter turn
Turned(v, rotate) ==
    IF Turns(rotate) THEN [x |-> v.maxY, y |-> v.maxX] ELSE [x |-> v.maxX, y |-> v.maxY]

\* rotateOneTool: rectangle r on a tablet of size x by y, as it is turned.
Rotated(r, x, y, rotate) ==
    CASE rotate = "cw"   -> Area(r.topY, x - r.bottomX, r.bottomY, x - r.topX)
      [] rotate = "ccw"  -> Area(y - r.bottomY, r.topX, y - r.topY, r.bottomX)
      [] rotate = "half" -> Area(x - r.bottomX, y - r.bottomY, x - r.topX, y - r.topY)
      [] rotate = "none" -> r

\* xf86WcmRotateTablet: and as it was before it was turned.
Unrotated(r, x, y, rotate) ==
    CASE rotate = "cw"   -> Area(y - r.bottomY, r.topX, y - r.topY, r.bottomX)
      [] rotate = "ccw"  -> Area(r.topY, x - r.bottomX, r.bottomY, x - r.topX)
      [] rotate = "half" -> Area(x - r.bottomX, y - r.bottomY, x - r.topX, y - r.topY)
      [] rotate = "none" -> r
=============================================================================
