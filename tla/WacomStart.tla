------------------------------ MODULE WacomStart ------------------------------
(***************************************************************************)
(* Starting a serial tablet (src/xdrv/wcmSerial.c) or a Tablet PC's        *)
(* digitizer (src/xdrv/wcmISDV4.c): the dialogue that finds the speed of   *)
(* the link, the model of the tablet and the length of its packets         *)
(* (serialInit, isdv4Init, xf86WcmInitTablet).  A tablet hears what is     *)
(* written at its own speed only, and an answer may come after the driver  *)
(* has stopped waiting for it.                                             *)
(***************************************************************************)
EXTENDS Integers, Sequences

CONSTANTS
    Tablets,     \* the tablets that may be on the port
    LinkSpeeds,  \* values of the BaudRate option
    TouchModes,  \* values of the Touch option
    MayBeLate    \* TRUE: answers may come late, and writes may fail

\* A serial tablet by the first letters of its model, or a Tablet PC ("TPC")
\* with or without a pen and with one of the sensors 0 .. 5 for fingers.
Serial == {"GD", "XD", "PL", "CT", "ET", "UD"}
NoSensor == 6
Speeds == {9600, 19200, 38400}
Tablet == [kind: Serial \cup {"TPC"}, pen: BOOLEAN, sensor: 0 .. NoSensor,
           old: BOOLEAN,          \* an Intuos ROM before 2.0
           speed: Speeds, streaming: BOOLEAN]

ASSUME StartAssumption ==
    /\ Tablets \subseteq Tablet
    /\ \A t \in Tablets :
         /\ ~t.streaming
         /\ t.old => t.kind = "GD"
         /\ t.kind = "TPC" => t.pen \/ t.sensor # NoSensor
         /\ t.kind = "TPC" => t.speed \in {19200, 38400}
    /\ LinkSpeeds \subseteq Speeds /\ TouchModes \subseteq BOOLEAN
    /\ MayBeLate \in BOOLEAN

VARIABLES
    tablet,    \* the hardware
    port,      \* the speed of the port
    answers,   \* answers on their way, or read by nobody yet
    step,      \* where the dialogue is
    penFound,  \* isdv4GetRanges: the pen query had an answer
    trouble,   \* since the open an answer was late, or a write or the like failed
    common     \* the WacomCommonRec

startVars == <<tablet, port, answers, step, penFound, trouble, common>>

Steps == {"closed", "failed", "reset38400", "reset19200", "reset9600", "model", "config",
          "coord", "setup", "speed", "penQuery", "touchQuery", "start", "running"}

NoModel == "none"
PacketLengths == {5, 7, 9, 13}
StartTypeOK ==
    /\ tablet \in Tablet
    /\ port \in Speeds
    /\ answers \in Seq({"model", "config", "coord", "pen", "touch", "data"})
    /\ step \in Steps
    /\ penFound \in BOOLEAN /\ trouble \in BOOLEAN
    /\ common \in [model: Serial \cup {"TPC", NoModel}, tablet_id: 0 .. \hFF,
                   pktLength: PacketLengths, isdv4Speed: {19200, 38400}, linkSpeed: Speeds,
                   ranges: BOOLEAN, resolution: BOOLEAN, wcmTouch: BOOLEAN]

Heard == port = tablet.speed
At(s) == step = s

\* What a write does to the tablet, if it hears it.
Written(change) == tablet' = IF Heard THEN change ELSE tablet

-----------------------------------------------------------------------------
(* Requests and answers.                                                   *)

NoAnswer == "none"

\* The k-th answer of those there are is taken, and the first n are read.
Reply(queue, k, n) ==
    [answer |-> queue[k], left |-> SubSeq(queue, n + 1, Len(queue)), late |-> FALSE]

\* The driver waits in vain.
Silence(queue) ==
    IF queue = <<>> \/ MayBeLate
    THEN {[answer |-> NoAnswer, left |-> queue, late |-> queue # <<>>]} ELSE {}

\* The answer to a request comes after those not yet read; the driver takes
\* the first there is; what follows it in time is read with it.
\* xf86WcmSendRequest compares the second letter of an answer with
\* its request's, but accepts an answer where they differ.
Requested(req) ==
    LET queue == answers \o (IF Heard THEN <<req>> ELSE <<>>)
    IN  {Reply(queue, 1, n) : n \in 1 .. Len(queue)} \cup Silence(queue)

Take(reply) == answers' = reply.left /\ trouble' = (trouble \/ reply.late)

-----------------------------------------------------------------------------
(* Serial tablets.                                                         *)

FirstStep == IF tablet.kind = "TPC" THEN "penQuery" ELSE "reset38400"

\* isdv4Init and isdv4InitISDV4 set the speed and the defaults of a digitizer
\* without touch; data is what a tool near the tablet has sent by now.
Open(data) ==
    /\ step \in {"closed", "failed"}
    /\ step' = FirstStep
    /\ answers' = data
    /\ trouble' = FALSE
    /\ penFound' = FALSE
    /\ IF tablet.kind = "TPC"
       THEN /\ port' = common.isdv4Speed
            /\ common' = [common EXCEPT !.model = "TPC", !.pktLength = 9, !.tablet_id = \h90]
       ELSE port' = 38400 /\ UNCHANGED common
    /\ UNCHANGED tablet

\* Resets at 38400, 19200 and 9600 baud bring the tablet to 9600 baud from
\* each; then it is stopped, and what it has sent is thrown away.
ResetFast ==
    /\ At("reset38400")
    /\ Written([tablet EXCEPT !.speed = 9600])
    /\ port' = 19200 /\ step' = "reset19200"
    /\ UNCHANGED <<answers, penFound, trouble, common>>

\* Slip: the tablet is not reset at 19200 baud.
ResetMediumNot ==
    /\ At("reset19200")
    /\ port' = 9600 /\ step' = "reset9600"
    /\ UNCHANGED <<tablet, answers, penFound, trouble, common>>

ResetMedium ==
    /\ At("reset19200")
    /\ Written([tablet EXCEPT !.speed = 9600])
    /\ port' = 9600 /\ step' = "reset9600"
    /\ UNCHANGED <<answers, penFound, trouble, common>>

ResetSlow ==
    /\ At("reset9600")
    /\ Written([tablet EXCEPT !.streaming = FALSE])
    /\ answers' = <<>>
    /\ step' = "model"
    /\ UNCHANGED <<port, penFound, trouble, common>>

SerialId == [GD |-> \h20, XD |-> \h40, PL |-> \h30, CT |-> \h00, ET |-> \h10, UD |-> \h03]
SerialLength(kind) == IF kind \in {"GD", "XD"} THEN 9 ELSE 7

\* Any other model is taken for one of protocol 4.  All but that one have
\* a resolution of their own, and the Graphire's ranges are not asked for.
ModelRead(answer) ==
    LET kind == IF answer = "model" THEN tablet.kind ELSE "UD"
    IN  IF answer = NoAnswer THEN step' = "failed" /\ UNCHANGED common
        ELSE /\ step' = "config"
             /\ common' = [common EXCEPT !.model = kind,
                             !.tablet_id = SerialId[kind],
                             !.pktLength = SerialLength(kind),
                             !.resolution = @ \/ kind # "UD",
                             !.ranges = @ \/ kind = "ET"]

AskModel ==
    /\ At("model")
    /\ \E reply \in Requested("model") : Take(reply) /\ ModelRead(reply.answer)
    /\ UNCHANGED <<tablet, port, penFound>>

\* Without an answer that can be parsed the resolution has a default.
ConfigRead(answer) == step' = "coord" /\ common' = [common EXCEPT !.resolution = TRUE]

AskConfig ==
    /\ At("config")
    /\ IF common.resolution
       THEN step' = "coord" /\ UNCHANGED <<answers, trouble, common>>
       ELSE \E reply \in Requested("config") : Take(reply) /\ ConfigRead(reply.answer)
    /\ UNCHANGED <<tablet, port, penFound>>

\* The ranges have none.
CoordRead(answer) ==
    IF answer = "coord" THEN step' = "setup" /\ common' = [common EXCEPT !.ranges = TRUE]
    ELSE step' = "failed" /\ UNCHANGED common

AskCoord ==
    /\ At("coord")
    /\ IF common.ranges
       THEN step' = "setup" /\ UNCHANGED <<answers, trouble, common>>
       ELSE \E reply \in Requested("coord") : Take(reply) /\ CoordRead(reply.answer)
    /\ UNCHANGED <<tablet, port, penFound>>

\* The setup strings of all models end in WC_START.
Setup ==
    /\ At("setup")
    /\ Written([tablet EXCEPT !.streaming = TRUE])
    /\ step' = "speed"
    /\ UNCHANGED <<port, answers, penFound, trouble, common>>

\* Slip: an Intuos with an old ROM is asked for 38400 baud.
LinkSpeedAny == common.linkSpeed

LinkSpeed ==
    IF common.model = "GD" /\ common.linkSpeed = 38400 /\ tablet.old THEN 19200
    ELSE common.linkSpeed

\* Only an Intuos can change its speed; an old ROM has 19200 baud at most.
ChangesSpeed == common.model \in {"GD", "XD"} /\ common.linkSpeed # 9600
LinkSpoken == IF tablet.old /\ LinkSpeed = 38400 THEN tablet.speed ELSE LinkSpeed

SetLinkSpeed ==
    /\ At("speed")
    /\ step' = "start"
    /\ IF ChangesSpeed
       THEN /\ Written([tablet EXCEPT !.speed = LinkSpoken])
            /\ port' = LinkSpeed
            /\ common' = [common EXCEPT !.linkSpeed = LinkSpeed]
       ELSE UNCHANGED <<tablet, port, common>>
    /\ UNCHANGED <<answers, penFound, trouble>>

-----------------------------------------------------------------------------
(* Tablet PCs.                                                             *)

\* A query stops the tablet first; a tablet answers what it supports.  Data
\* in place of the answer is skipped once, if no other speed is tried.
Queried(req, supported) ==
    LET queue == answers \o (IF Heard /\ supported THEN <<req>> ELSE <<>>)
        again == /\ Len(queue) > 1 /\ queue[1] = "data"
                 /\ common.isdv4Speed = 19200 \/ req = "touch"
        n == IF again THEN 2 ELSE 1
    IN  (IF queue = <<>> THEN {} ELSE {Reply(queue, n, n)}) \cup Silence(queue)

Stopped == Written([tablet EXCEPT !.streaming = FALSE])

\* No answer, or one that is not control data: 19200 baud are tried.  A
\* digitizer without a pen answers with a size of zero.
PenRead(answer) ==
    LET control == answer \notin {NoAnswer, "data"}
    IN  IF ~control /\ common.isdv4Speed # 19200
        THEN /\ step' = "penQuery"
             /\ port' = 19200
             /\ common' = [common EXCEPT !.isdv4Speed = 19200]
             /\ UNCHANGED penFound
        ELSE /\ step' = "touchQuery"
             /\ penFound' = control
             /\ common' = [common EXCEPT !.isdv4Speed = 38400,
                             !.tablet_id = IF control /\ ~tablet.pen THEN \hE2 ELSE @]
             /\ UNCHANGED port

QueryPen ==
    /\ At("penQuery")
    /\ Stopped
    /\ \E reply \in Queried("pen", TRUE) : Take(reply) /\ PenRead(reply.answer)

TouchLength(id) ==
    CASE id \in {\h9A, \h9F} -> 7 [] id \in {\hE2, \hE3} -> 13 [] OTHER -> 5

\* The id and the length of the packets by the sensor.
TouchId(sensor) ==
    CASE sensor \in {0, 2} -> \h93
      [] sensor = 1 -> \h9A
      [] sensor \in {3, 4} -> \h9F
      [] OTHER -> IF common.tablet_id = \h90 THEN \hE3 ELSE common.tablet_id

TouchRead(answer) ==
    IF answer \in {NoAnswer, "data"}
    THEN step' = (IF penFound THEN "start" ELSE "failed") /\ UNCHANGED common
    ELSE \E sensor \in (IF answer = "touch" THEN {tablet.sensor} ELSE 0 .. 5) :
           /\ step' = "start"
           /\ common' = [common EXCEPT !.tablet_id = TouchId(sensor),
                           !.pktLength = TouchLength(TouchId(sensor))]

QueryTouch ==
    /\ At("touchQuery")
    /\ Stopped
    /\ \E reply \in Queried("touch", tablet.sensor # NoSensor) : Take(reply) /\ TouchRead(reply.answer)
    /\ UNCHANGED <<port, penFound>>

-----------------------------------------------------------------------------
(* A write, a wait, a read or the setting of the port's speed fails in a   *)
(* step.                                                                   *)

\* What the tablet does of all a step writes to it
Obeyed ==
    CASE step \in {"reset38400", "reset19200"} -> [tablet EXCEPT !.speed = 9600]
      [] step \in {"reset9600", "penQuery", "touchQuery"} -> [tablet EXCEPT !.streaming = FALSE]
      [] At("setup") -> [tablet EXCEPT !.streaming = TRUE]
      [] At("speed") -> [tablet EXCEPT !.speed = LinkSpoken]
      [] OTHER -> tablet

\* The resets, the requests and the start end the dialogue; the new speed of
\* the link is noted before it is written.
GivesUp ==
    /\ \/ step \in {"reset38400", "reset19200", "reset9600", "model", "setup", "start"}
       \/ At("coord") /\ ~common.ranges
       \/ At("speed") /\ ChangesSpeed
    /\ step' = "failed"
    /\ common' = [common EXCEPT !.linkSpeed = IF At("speed") THEN LinkSpeed ELSE @]
    /\ UNCHANGED port

\* serialGetResolution has its default.
NoResolution ==
    /\ At("config") /\ ~common.resolution
    /\ ConfigRead(NoAnswer)
    /\ UNCHANGED port

\* A digitizer whose pen could not be asked is asked for touch, ...
NoPenQuery ==
    /\ At("penQuery")
    /\ step' = "touchQuery"
    /\ common' = [common EXCEPT !.isdv4Speed = 38400]
    /\ port' \in {port, 38400}

\* ... and one that could not be asked for touch may have a pen.
NoTouchQuery ==
    /\ At("touchQuery")
    /\ TouchRead(NoAnswer)
    /\ UNCHANGED port

\* Part of what a step writes may have been heard by then.
WriteFails ==
    /\ MayBeLate
    /\ trouble' = TRUE
    /\ tablet' = tablet \/ Written(Obeyed)
    /\ GivesUp \/ NoResolution \/ NoPenQuery \/ NoTouchQuery
    /\ UNCHANGED <<answers, penFound>>

-----------------------------------------------------------------------------
Start ==
    /\ At("start")
    /\ Written([tablet EXCEPT !.streaming = TRUE])
    /\ step' = "running"
    /\ UNCHANGED <<port, answers, penFound, trouble, common>>

Close ==
    /\ At("running")
    /\ step' = "closed"
    /\ UNCHANGED <<tablet, port, answers, penFound, trouble, common>>

StartInit ==
    /\ tablet \in Tablets
    /\ port = 9600
    /\ answers = <<>>
    /\ step = "closed"
    /\ penFound = FALSE /\ trouble = FALSE
    /\ \E speed \in LinkSpeeds, touch \in TouchModes :
         common = [model |-> NoModel, tablet_id |-> 0, pktLength |-> 9, isdv4Speed |-> 38400,
                   linkSpeed |-> speed, ranges |-> FALSE, resolution |-> FALSE, wcmTouch |-> touch]

StartNext ==
    \/ ResetFast \/ ResetMedium \/ ResetSlow \/ AskModel \/ AskConfig \/ AskCoord
    \/ Setup \/ SetLinkSpeed \/ QueryPen \/ QueryTouch \/ Start \/ WriteFails

-----------------------------------------------------------------------------
(* Properties.                                                             *)

\* The id a tablet should be known by, and the length of its first packet
IdOf(t) ==
    IF t.kind \in Serial THEN SerialId[t.kind]
    ELSE CASE t.sensor = NoSensor -> \h90
           [] t.sensor \in {0, 2} -> \h93
           [] t.sensor = 1 -> \h9A
           [] t.sensor \in {3, 4} -> \h9F
           [] OTHER -> IF t.pen THEN \hE3 ELSE \hE2

LengthOf(t) ==
    IF t.kind \in Serial THEN SerialLength(t.kind)
    ELSE IF t.sensor = NoSensor THEN 9 ELSE TouchLength(IdOf(t))

\* A tablet that is running hears the driver at the speed of the port, sends,
\* and is known for what it is unless an answer was late: whatever speed an
\* earlier session left it at, and whatever speeds were tried.
RunningInStep ==
    At("running") =>
      trouble \/ (Heard /\ tablet.streaming /\ common.tablet_id = IdOf(tablet))

\* A tablet that hears all that is written and answers in time is not given
\* up, whatever earlier opens came to.
OpensWhenAnswered == At("failed") => trouble
=============================================================================
