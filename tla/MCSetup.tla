------------------------------- MODULE MCSetup -------------------------------
(***************************************************************************)
(* Instances of WacomSetup: a tablet of 240 by 160 points with up to three *)
(* sections, on one server screen or two.                                  *)
(***************************************************************************)
EXTENDS WacomSetup

CONSTANTS pen, pen2, finger

MCSections == {pen, pen2, finger}
MCSize == [x |-> 240, y |-> 160]
MCTouchSize == [x |-> 200, y |-> 120]
OneScreen == <<Area(0, 0, 100, 80)>>
TwoScreens == <<Area(0, 0, 100, 80), Area(100, 0, 180, 60)>>
MCLayouts == {OneScreen, TwoScreens}

Left == Area(0, 0, 119, 0)
Right == Area(120, 0, 240, 0)

Section(type, source) ==
    [type |-> type, path |-> "event", source |-> source, serial |-> 0, core |-> TRUE,
     rect |-> Whole, rotate |-> "none", mode |-> "default", twinview |-> "none",
     screen_no |-> -1, shape |-> FALSE, touch |-> "default"]

Stylus == Section("stylus", "conf")

MCOptions == [s \in MCSections |->
    CASE s = pen -> {Stylus, [Stylus EXCEPT !.rect = Left, !.rotate = "cw"]}
      [] s = pen2 -> {[Stylus EXCEPT !.rect = Right, !.shape = TRUE],
                      [Section("stylus", "hotplug") EXCEPT
                          !.serial = 1, !.path = "link", !.screen_no = 1, !.twinview = "left_right"]}
      [] s = finger -> {[Section("touch", "conf") EXCEPT !.path = "absent", !.core = FALSE]}]

\* Two parts of a tablet that cross
MCCrossing == [s \in MCSections |->
    CASE s = pen -> {[Stylus EXCEPT !.rect = Area(80, 0, 160, 0)]}
      [] s = pen2 -> {[Stylus EXCEPT !.rect = Area(0, 50, 0, 110)]}
      [] s = finger -> {}]
=============================================================================
