----------------------------- MODULE WacomModels -----------------------------
(***************************************************************************)
(* What the kernel driver and the X driver each know of the USB tablets:   *)
(* the type a product has in the kernel (wacom_features, wacom_ids), the   *)
(* input events its device declares (wacom_setup_input_capabilities), the  *)
(* model and protocol the X driver takes it for (WacomModelDesc), and how  *)
(* each reads a tool id of protocol 5.  An event code is a string; numbers *)
(* are product and tool ids.                                               *)
(***************************************************************************)
EXTENDS Integers, Sequences

\* The product ids of wacom_ids, by the type of their wacom_features.
ProductsOf == [
    PENPARTNER |-> {\h00},
    GRAPHIRE |-> {\h10, \h11, \h12, \h13, \h14, \h19, \h60, \h61, \h62, \h63, \h64, \h69},
    WACOM_G4 |-> {\h15, \h16},
    WACOM_MO |-> {\h17, \h18, \h65},
    BAMBOO_PT |-> {\hD0, \hD1, \hD2, \hD3, \hD4},
    INTUOS |-> {\h20, \h21, \h22, \h23, \h24, \h41, \h42, \h43, \h44, \h45, \h47},
    PL |-> {\h30, \h31, \h32, \h33, \h34, \h35, \h37, \h38, \h39, \hC0, \hC2, \hC4, \hC7},
    PTU |-> {\h03},
    INTUOS3S |-> {\hB0, \hB7}, INTUOS3 |-> {\hB1, \hB2, \hB5}, INTUOS3L |-> {\hB3, \hB4},
    INTUOS4S |-> {\hB8}, INTUOS4 |-> {\hB9, \hBC}, INTUOS4L |-> {\hBA, \hBB},
    INTUOS5S |-> {\h26, \h29}, INTUOS5 |-> {\h27, \h2A}, INTUOS5L |-> {\h28},
    INTUOSPS |-> {\h314}, INTUOSPM |-> {\h315}, INTUOSPL |-> {\h317},
    CINTIQ |-> {\h3F}, WACOM_BEE |-> {\hC5, \hC6}, WACOM_13HD |-> {\h304},
    DTU |-> {\hCE, \hF0}, DTUS |-> {\hFB}, DTK |-> {\h57, \h59},
    WACOM_24HD |-> {\hF4, \hF8}, WACOM_21UX2 |-> {\hCC}, WACOM_22HD |-> {\hFA, \h5B},
    TABLETPC |-> {\h90, \h93, \h9A, \h9F}, TABLETPC2FG |-> {\hE2, \hE3}]

ProductIds == UNION {ProductsOf[t] : t \in DOMAIN ProductsOf}
TypeOf == [product \in ProductIds |->
              CHOOSE t \in DOMAIN ProductsOf : product \in ProductsOf[t]]

Intuos3 == {"INTUOS3S", "INTUOS3", "INTUOS3L"}
Intuos4 == {"INTUOS4S", "INTUOS4", "INTUOS4L"}
Intuos5 == {"INTUOS5S", "INTUOS5", "INTUOS5L", "INTUOSPS", "INTUOSPM", "INTUOSPL"}
Displays == {"CINTIQ", "WACOM_BEE", "WACOM_13HD", "WACOM_21UX2", "WACOM_22HD",
             "WACOM_24HD", "DTK"}

\* The types of wacom_intuos_irq, whose tools have serial numbers.
IntuosTypes == {"INTUOS"} \cup Intuos3 \cup Intuos4 \cup Intuos5 \cup Displays

\* The types whose handlers know a pen and an eraser without serial number.
PenDisplays == {"PENPARTNER", "PL", "PTU", "DTU", "DTUS"}

-----------------------------------------------------------------------------
(* wacom_setup_input_capabilities                                          *)

Keys(n) == [i \in 0 .. 9 |-> <<"BTN_0", "BTN_1", "BTN_2", "BTN_3", "BTN_4", "BTN_5",
                               "BTN_6", "BTN_7", "BTN_8", "BTN_9">>[i + 1]][n]
KeysTo(n) == {Keys(i) : i \in 0 .. n}
LetterKeys == {"BTN_A", "BTN_B", "BTN_C", "BTN_X", "BTN_Y", "BTN_Z", "BTN_BASE", "BTN_BASE2"}
ProgKeys == {"KEY_PROG1", "KEY_PROG2", "KEY_PROG3"}
ExpressKeys == KeysTo(9) \cup LetterKeys \cup {"BTN_BASE3"} \cup ProgKeys
PuckButtons == {"BTN_LEFT", "BTN_RIGHT", "BTN_MIDDLE", "BTN_SIDE", "BTN_EXTRA"}
PenButtons == {"BTN_STYLUS", "BTN_STYLUS2"}

CintiqEvents ==
    {"BTN_TOOL_RUBBER", "BTN_TOOL_PEN", "BTN_TOOL_BRUSH", "BTN_TOOL_PENCIL",
     "BTN_TOOL_AIRBRUSH", "MSC_SERIAL"} \cup PenButtons
IntuosEvents == PuckButtons \cup CintiqEvents \cup {"BTN_TOOL_MOUSE", "BTN_TOOL_LENS"}

\* ABS_Z is the rotation of a pen.
PadEvents(t) ==
    CASE t = "WACOM_24HD" -> KeysTo(9) \cup LetterKeys \cup {"BTN_BASE3", "ABS_Z"}
      [] t = "DTK" -> KeysTo(5)
      [] t = "WACOM_22HD" -> KeysTo(9) \cup LetterKeys \cup ProgKeys \cup {"ABS_Z"}
      [] t = "WACOM_21UX2" -> KeysTo(9) \cup LetterKeys \cup {"ABS_Z"}
      [] t = "WACOM_BEE" -> KeysTo(9) \cup {"ABS_Z"}
      [] t = "CINTIQ" -> KeysTo(7) \cup {"ABS_Z"}
      [] t = "WACOM_13HD" -> KeysTo(8)
      [] t \in {"INTUOS3", "INTUOS3L"} -> KeysTo(7) \cup {"ABS_Z"}
      [] t = "INTUOS3S" -> KeysTo(3) \cup {"ABS_Z"}
      [] t \in {"INTUOS4S", "INTUOS5S", "INTUOSPS"} -> KeysTo(6) \cup {"ABS_Z"}
      [] t \in (Intuos4 \cup Intuos5) \ {"INTUOS4S", "INTUOS5S", "INTUOSPS"} -> KeysTo(8) \cup {"ABS_Z"}
      [] t = "DTUS" -> KeysTo(3)
      [] OTHER -> {}

Capabilities == [t \in DOMAIN ProductsOf |->
    {"ABS_PRESSURE", "ABS_MISC"} \cup PadEvents(t)
    \cup (IF t \in IntuosTypes \ {"INTUOS"} THEN {"BTN_TOOL_FINGER"} ELSE {})
    \cup (IF t \in Displays THEN CintiqEvents ELSE {})
    \cup (IF t \in IntuosTypes \ Displays THEN IntuosEvents ELSE {})
    \cup (IF t \in {"DTUS", "PL", "PTU", "DTU"}
          THEN PenButtons \cup {"BTN_TOOL_PEN", "BTN_TOOL_RUBBER"} ELSE {})
    \cup (IF t = "DTUS" THEN {"MSC_SERIAL"} ELSE {})
    \cup (IF t = "PENPARTNER" THEN {"BTN_TOOL_RUBBER"} ELSE {})]

-----------------------------------------------------------------------------
(* The X driver's view.                                                    *)

\* WacomModelDesc; a product that is not listed is usbUnknown.
ModelOf(product) ==
    CASE product = \h00 -> "usbPenPartner"
      [] product \in {\h10, \h11, \h12, \h13, \h14} -> "usbGraphire"
      [] product \in {\h15, \h16, \h81} -> "usbGraphire4"
      [] product \in {\h17, \h18} -> "usbBambooFun"
      [] product \in {\h19, \h69} -> "usbBamboo1"
      [] product \in {\h65, \hD0, \hD1, \hD2, \hD3, \hD4} -> "usbBamboo"
      [] product \in \h20 .. \h24 -> "usbIntuos1"
      [] product \in {\h03} -> "usbCintiqPartner"
      [] product \in {\h30, \h31, \h32, \h33, \h34, \h35, \h37, \h38, \h39, \hC0, \hC2, \hC4,
                      \hC7, \hCE, \hF0, \hFB} -> "usbCintiq"
      [] product \in {\h41, \h42, \h43, \h44, \h45, \h47} -> "usbIntuos2"
      [] product \in \h60 .. \h64 -> "usbVolito"
      [] product \in {\hB0, \hB1, \hB2, \hB3, \hB4, \hB5, \hB7} -> "usbIntuos3"
      [] product \in {\hB8, \hB9, \hBA, \hBB, \hBC, \hBD} -> "usbIntuos4"
      [] product \in \h26 .. \h2A -> "usbIntuos5"
      [] product \in {\h314, \h315, \h317} -> "usbIntuosPro"
      [] product \in {\h3F, \hF4, \hC5, \hC6, \hCC, \h5B, \hFA, \h57, \h59, \h304}
           -> "usbCintiqV5"
      [] product \in {\h90, \h93, \h9A, \h9F, \hE2, \hE3} -> "usbTabletPC"
      [] OTHER -> "usbUnknown"

\* The models whose Initialize is usbInitProtocol5, and an unknown tablet,
\* which is taken for one of protocol 5 ("assume the best").
Protocol5Models == {"usbIntuos1", "usbIntuos2", "usbIntuos3", "usbIntuos4", "usbIntuos5",
                    "usbIntuosPro", "usbCintiqV5", "usbUnknown"}

ProtocolLevel == [product \in ProductIds |->
    IF ModelOf(product) \in Protocol5Models THEN 5 ELSE 4]

\* The models for which usbChooseChannel supports dual input
DualInput == [product \in ProductIds |-> ModelOf(product) \in {"usbIntuos1", "usbIntuos2"}]

-----------------------------------------------------------------------------
(* Tool ids.                                                               *)

STYLUS_DEVICE_ID == \h02
TOUCH_DEVICE_ID == \h03
CURSOR_DEVICE_ID == \h06
ERASER_DEVICE_ID == \h0A
PAD_DEVICE_ID == \h0F

\* wacom_intuos_inout: the key that stands for a tool; an unknown one is a pen.
ToolKeyOf(id) ==
    CASE id \in {\h812, \h801, \h120802, \h012} -> "BTN_TOOL_PENCIL"
      [] id \in {\h832, \h032} -> "BTN_TOOL_BRUSH"
      [] id \in {\h007, \h09C, \h094, \h017, \h806} -> "BTN_TOOL_MOUSE"
      [] id \in {\h096, \h097, \h006} -> "BTN_TOOL_LENS"
      [] id \in {\h82A, \h85A, \h91A, \hD1A, \h0FA, \h82B, \h81B, \h91B, \h80C, \h80A, \h90A,
                 \h14080A, \h10090A, \h10080C, \h16080A, \h18080A, \h10080A}
           -> "BTN_TOOL_RUBBER"
      [] id \in {\hD12, \h912, \h112, \h913, \h902, \h100902} -> "BTN_TOOL_AIRBRUSH"
      [] OTHER -> "BTN_TOOL_PEN"

\* wcmTypeToKey, in the order it is searched
TypeToKey == <<
    <<"STYLUS", "BTN_TOOL_PEN">>, <<"STYLUS", "BTN_TOOL_PENCIL">>,
    <<"STYLUS", "BTN_TOOL_BRUSH">>, <<"STYLUS", "BTN_TOOL_AIRBRUSH">>,
    <<"ERASER", "BTN_TOOL_RUBBER">>, <<"CURSOR", "BTN_TOOL_MOUSE">>,
    <<"CURSOR", "BTN_TOOL_LENS">>, <<"PAD", "BTN_TOOL_FINGER">> >>

ToolKeys == {TypeToKey[i][2] : i \in DOMAIN TypeToKey}
KeyType == [key \in ToolKeys |->
              TypeToKey[CHOOSE i \in DOMAIN TypeToKey : TypeToKey[i][2] = key][1]]

\* usbIdToType: ERASER_BIT, PUCK_BITS, PUCK_EXCEPTION
IdToType(id) ==
    IF (id \div 8) % 2 = 1 THEN "ERASER"
    ELSE IF (id \div 256) % 16 = 0 \/ id = \h806 THEN "CURSOR" ELSE "STYLUS"

\* usbFindDeviceType for an id that is not 0
FindDeviceType(id) ==
    CASE id = STYLUS_DEVICE_ID -> "STYLUS"
      [] id = ERASER_DEVICE_ID -> "ERASER"
      [] id = CURSOR_DEVICE_ID -> "CURSOR"
      [] id = TOUCH_DEVICE_ID -> "TOUCH"
      [] id = PAD_DEVICE_ID -> "PAD"
      [] OTHER -> IdToType(id)
=============================================================================
