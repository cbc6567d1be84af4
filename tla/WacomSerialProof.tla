---------------------------- MODULE WacomSerialProof ----------------------------
(***************************************************************************)
(* Proofs about WacomStart and WacomSerial.  The dialogue is followed from *)
(* step to step: what is known of speed, answers and tablet at each        *)
(* (DialogueInv) is what the next one needs.  Nothing is near a tablet     *)
(* that is not running or whose dialogue went wrong (QuietInv), so that    *)
(* every byte is read of a tablet known for what it is.  If no byte was    *)
(* lost, what is unread are whole packets that lead from what the channels *)
(* show to what is near the tablet (SettleInv).                            *)
(***************************************************************************)
EXTENDS WacomSerial, WellFoundedInduction, TLAPS

SerialSteps == {"reset38400", "reset19200", "reset9600", "model", "config", "coord",
                "setup", "speed"}
PenlessId == IF tablet.pen THEN \h90 ELSE \hE2

\* What no dialogue changes.
LinkInv ==
    /\ tablet.kind = "TPC" =>
         (tablet.pen \/ tablet.sensor # NoSensor) /\ tablet.speed \in {19200, 38400}
    /\ tablet.old => tablet.kind = "GD"
    /\ step # "penQuery" => common.isdv4Speed = 38400
    /\ step \in SerialSteps => tablet.kind # "TPC"
    /\ step \in {"penQuery", "touchQuery"} => tablet.kind = "TPC"
    /\ tablet.kind = "TPC" /\ step \notin {"closed", "failed"} => common.model = "TPC"

\* The tablet is known for what it is, and no packet of it is longer than the
\* driver waits for (but for the digitizers of two fingers).
Known ==
    /\ common.tablet_id = IdOf(tablet)
    /\ tablet.kind # "TPC" =>
         common.model = tablet.kind /\ common.pktLength = SerialLength(tablet.kind)
    /\ tablet.kind = "TPC" /\ TouchLength(common.tablet_id) # 13 =>
         TouchLength(common.tablet_id) <= common.pktLength

\* What each step of the dialogue may rely on, whatever went wrong ...
ResetInv ==
    /\ At("reset38400") => port = 38400
    /\ At("reset19200") => port = 19200 /\ tablet.speed # 38400
    /\ At("reset9600") => port = 9600 /\ Heard
    /\ At("model") => Heard /\ answers = <<>>
    /\ At("failed") => trouble

\* ... and if nothing did.
CalmInv ==
    /\ step \in {"config", "coord", "touchQuery"} => Heard /\ answers = <<>>
    /\ step \in {"setup", "speed", "start", "running"} => Heard
    /\ step \in {"config", "coord", "setup", "speed", "start", "running"} => Known
    /\ At("running") => tablet.streaming
    /\ At("penQuery") => /\ answers = <<>> /\ port = common.isdv4Speed
                         /\ port = 19200 => Heard
                         /\ common.tablet_id = \h90 /\ common.pktLength = 9
    /\ At("touchQuery") => /\ penFound /\ common.pktLength = 9
                           /\ common.tablet_id = PenlessId

DialogueInv == ResetInv /\ (trouble \/ CalmInv)

\* The inductive invariant of the dialogue
StartInv == StartTypeOK /\ LinkInv /\ DialogueInv

-----------------------------------------------------------------------------
(* The dialogue.                                                           *)

CommonRec == [model: Serial \cup {"TPC", NoModel}, tablet_id: 0 .. \hFF,
              pktLength: PacketLengths, isdv4Speed: {19200, 38400}, linkSpeed: Speeds,
              ranges: BOOLEAN, resolution: BOOLEAN, wcmTouch: BOOLEAN]
Answer == {"model", "config", "coord", "pen", "touch", "data"}

\* A tablet's id does not depend on its speed, nor on whether it sends.
LEMMA IdStays ==
    ASSUME NEW t, NEW u, t.kind = u.kind, t.pen = u.pen, t.sensor = u.sensor
    PROVE  IdOf(t) = IdOf(u)
  BY DEF IdOf

\* A write changes speed or streaming, or nothing.
LEMMA WrittenStays ==
    ASSUME StartTypeOK, NEW speed \in Speeds, NEW streaming \in BOOLEAN
    PROVE  /\ \A t \in {[tablet EXCEPT !.speed = speed], [tablet EXCEPT !.streaming = streaming]} :
                /\ t \in Tablet /\ t.kind = tablet.kind /\ t.pen = tablet.pen
                /\ t.sensor = tablet.sensor /\ t.old = tablet.old
                /\ IdOf(t) = IdOf(tablet)
           /\ [tablet EXCEPT !.speed = speed].speed = speed
           /\ [tablet EXCEPT !.speed = speed].streaming = tablet.streaming
           /\ [tablet EXCEPT !.streaming = streaming].speed = tablet.speed
           /\ [tablet EXCEPT !.streaming = streaming].streaming = streaming
<1>1. tablet \in Tablet
  BY DEF StartTypeOK
<1>2. \A t \in {[tablet EXCEPT !.speed = speed], [tablet EXCEPT !.streaming = streaming]} :
        /\ t \in Tablet /\ t.kind = tablet.kind /\ t.pen = tablet.pen
        /\ t.sensor = tablet.sensor /\ t.old = tablet.old
  BY <1>1 DEF Tablet
<1>3. \A t \in {[tablet EXCEPT !.speed = speed], [tablet EXCEPT !.streaming = streaming]} :
        IdOf(t) = IdOf(tablet)
  BY <1>2, IdStays
<1>4. /\ [tablet EXCEPT !.speed = speed].speed = speed
      /\ [tablet EXCEPT !.speed = speed].streaming = tablet.streaming
      /\ [tablet EXCEPT !.streaming = streaming].speed = tablet.speed
      /\ [tablet EXCEPT !.streaming = streaming].streaming = streaming
  BY <1>1 DEF Tablet
<1> QED
  BY <1>2, <1>3, <1>4

\* With nothing unread and the tablet listening, the answer is the one that
\* was asked for, or it is late.
LEMMA RequestedReply ==
    ASSUME StartTypeOK, NEW req \in Answer, NEW reply \in Requested(req)
    PROVE  /\ reply.left \in Seq(Answer) /\ reply.late \in BOOLEAN
           /\ Heard /\ answers = <<>> /\ ~reply.late =>
                reply.answer = req /\ reply.left = <<>>
<1> DEFINE queue == answers \o (IF Heard THEN <<req>> ELSE <<>>)
<1>1. answers \in Seq(Answer)
  BY DEF StartTypeOK, Answer
<1>2. queue \in Seq(Answer)
  BY <1>1
<1>3. Heard /\ answers = <<>> => queue = <<req>>
  BY <1>1
<1>6. reply \in {Reply(queue, 1, n) : n \in 1 .. Len(queue)} \cup Silence(queue)
  BY DEF Requested
<1> HIDE DEF queue
<1>4. CASE \E n \in 1 .. Len(queue) : reply = Reply(queue, 1, n)
  <2>1. PICK n \in 1 .. Len(queue) : reply = Reply(queue, 1, n)
    BY <1>4
  <2>2. SubSeq(queue, n + 1, Len(queue)) \in Seq(Answer)
    BY <1>2
  <2>3. queue = <<req>> => n = 1 /\ queue[1] = req /\ SubSeq(queue, n + 1, Len(queue)) = <<>>
    BY <1>2
  <2> QED
    BY <1>3, <2>1, <2>2, <2>3 DEF Reply
<1>5. CASE reply \in Silence(queue)
  <2>1. /\ reply.answer = NoAnswer /\ reply.left = queue
        /\ reply.late \in BOOLEAN /\ (reply.late <=> queue # <<>>)
    <3> DEFINE late == queue # <<>>
    <3>1. late \in BOOLEAN
      OBVIOUS
    <3>2. reply = [answer |-> NoAnswer, left |-> queue, late |-> late]
      BY <1>5 DEF Silence
    <3>3. reply.late = late
      <4> HIDE DEF late
      <4> QED
        BY <3>2
    <3> QED
      BY <3>1, <3>2, <3>3
  <2>2. queue = <<req>> => queue # <<>>
    OBVIOUS
  <2> QED
    BY <1>2, <1>3, <2>1, <2>2
<1> QED
  BY <1>4, <1>5, <1>6

\* A query of a silent tablet has its answer, or none; a late one is trouble.
LEMMA QueriedReply ==
    ASSUME StartTypeOK, NEW req \in Answer, NEW supported \in BOOLEAN,
           NEW reply \in Queried(req, supported)
    PROVE  /\ reply.left \in Seq(Answer) /\ reply.late \in BOOLEAN
           /\ answers = <<>> /\ ~reply.late =>
                reply.left = <<>>
                /\ reply.answer = IF Heard /\ supported THEN req ELSE NoAnswer
<1> DEFINE queue == answers \o (IF Heard /\ supported THEN <<req>> ELSE <<>>)
           again == /\ Len(queue) > 1 /\ queue[1] = "data"
                    /\ common.isdv4Speed = 19200 \/ req = "touch"
           n == IF again THEN 2 ELSE 1
<1>1. answers \in Seq(Answer)
  BY DEF StartTypeOK, Answer
<1>2. queue \in Seq(Answer)
  BY <1>1
<1>3. answers = <<>> => queue = IF Heard /\ supported THEN <<req>> ELSE <<>>
  BY <1>1
<1>6. (queue # <<>> /\ reply = Reply(queue, n, n)) \/ reply \in Silence(queue)
  BY DEF Queried
<1> HIDE DEF queue
<1>4. CASE queue # <<>> /\ reply = Reply(queue, n, n)
  <2>1. n \in 1 .. Len(queue)
    BY <1>2, <1>4
  <2>2. SubSeq(queue, n + 1, Len(queue)) \in Seq(Answer)
    BY <1>2, <2>1
  <2>3. queue = <<req>> => n = 1 /\ queue[1] = req /\ SubSeq(queue, n + 1, Len(queue)) = <<>>
    BY <1>2
  <2> HIDE DEF n
  <2> QED
    BY <1>3, <1>4, <2>1, <2>2, <2>3 DEF Reply
<1>5. CASE reply \in Silence(queue)
  <2>1. /\ reply.answer = NoAnswer /\ reply.left = queue
        /\ reply.late \in BOOLEAN /\ (reply.late <=> queue # <<>>)
    <3> DEFINE late == queue # <<>>
    <3>1. late \in BOOLEAN
      OBVIOUS
    <3>2. reply = [answer |-> NoAnswer, left |-> queue, late |-> late]
      BY <1>5 DEF Silence
    <3>3. reply.late = late
      <4> HIDE DEF late
      <4> QED
        BY <3>2
    <3> QED
      BY <3>1, <3>2, <3>3
  <2>2. queue = <<req>> => queue # <<>>
    OBVIOUS
  <2> QED
    BY <1>2, <1>3, <2>1, <2>2
<1> QED
  BY <1>4, <1>5, <1>6

\* The tablet is another, but for its speed and whether it sends.
SameTablet ==
    /\ tablet' \in Tablet /\ tablet'.kind = tablet.kind /\ tablet'.pen = tablet.pen
    /\ tablet'.sensor = tablet.sensor /\ tablet'.old = tablet.old
    /\ IdOf(tablet') = IdOf(tablet)

\* A command that a tablet hears sets its speed, ...
LEMMA SpeedWritten ==
    ASSUME StartTypeOK, NEW speed \in Speeds, Written([tablet EXCEPT !.speed = speed])
    PROVE  /\ SameTablet /\ tablet'.streaming = tablet.streaming
           /\ tablet'.speed = IF Heard THEN speed ELSE tablet.speed
<1>1. tablet \in Tablet
  BY DEF StartTypeOK
<1>2. TRUE \in BOOLEAN
  OBVIOUS
<1>3. CASE Heard
  <2>1. tablet' = [tablet EXCEPT !.speed = speed]
    BY <1>3 DEF Written
  <2> QED
    BY <1>2, <1>3, <2>1, WrittenStays DEF SameTablet
<1>4. CASE ~Heard
  BY <1>1, <1>4 DEF Written, SameTablet
<1> QED
  BY <1>3, <1>4

\* ... or starts or stops it.
LEMMA StreamWritten ==
    ASSUME StartTypeOK, NEW streaming \in BOOLEAN,
           Written([tablet EXCEPT !.streaming = streaming])
    PROVE  /\ SameTablet /\ tablet'.speed = tablet.speed
           /\ tablet'.streaming = IF Heard THEN streaming ELSE tablet.streaming
<1>1. tablet \in Tablet
  BY DEF StartTypeOK
<1>2. 9600 \in Speeds
  BY DEF Speeds
<1>3. CASE Heard
  <2>1. tablet' = [tablet EXCEPT !.streaming = streaming]
    BY <1>3 DEF Written
  <2>2. /\ tablet'.speed = tablet.speed /\ tablet'.streaming = streaming
        /\ tablet' \in Tablet /\ tablet'.kind = tablet.kind /\ tablet'.pen = tablet.pen
        /\ tablet'.sensor = tablet.sensor /\ tablet'.old = tablet.old
    BY <1>1, <2>1 DEF Tablet
  <2>3. IdOf(tablet') = IdOf(tablet)
    BY <2>2, IdStays
  <2> QED
    BY <1>3, <2>2, <2>3 DEF SameTablet
<1>4. CASE ~Heard
  BY <1>1, <1>4 DEF Written, SameTablet
<1> QED
  BY <1>3, <1>4

\* The three resets find a tablet at any speed and leave it at 9600 baud.
LEMMA ResetFastInv ==
    ASSUME StartInv, ResetFast
    PROVE  StartInv'
<1>1. StartTypeOK /\ 9600 \in Speeds
  BY DEF StartInv, Speeds
<1>2. SameTablet /\ tablet'.speed = IF Heard THEN 9600 ELSE tablet.speed
  BY <1>1, SpeedWritten DEF ResetFast
<1>3. step = "reset38400" /\ step' = "reset19200" /\ port' = 19200
  BY DEF ResetFast, At
<1>4. StartTypeOK'
  BY <1>1, <1>2, <1>3 DEF StartTypeOK, SameTablet, Speeds, Steps, ResetFast
<1>5. LinkInv'
  BY <1>1, <1>2, <1>3 DEF StartInv, LinkInv, SameTablet, SerialSteps, ResetFast
<1>6. DialogueInv'
  BY <1>1, <1>2, <1>3 DEF StartInv, DialogueInv, ResetInv, CalmInv, At, Heard
<1> QED
  BY <1>4, <1>5, <1>6 DEF StartInv

\* A tablet left at 19200 baud hears the second one; ...
LEMMA ResetMediumInv ==
    ASSUME StartInv, ResetMedium
    PROVE  StartInv'
<1>1. StartTypeOK /\ 9600 \in Speeds
  BY DEF StartInv, Speeds
<1>2. SameTablet /\ tablet'.speed = IF Heard THEN 9600 ELSE tablet.speed
  BY <1>1, SpeedWritten DEF ResetMedium
<1>3. step = "reset19200" /\ step' = "reset9600" /\ port' = 9600
  BY DEF ResetMedium, At
<1>4. tablet'.speed = 9600
  BY <1>1, <1>2, <1>3 DEF StartInv, StartTypeOK, DialogueInv, ResetInv, At, Heard, Tablet, Speeds
<1>5. StartTypeOK'
  BY <1>1, <1>2, <1>3 DEF StartTypeOK, SameTablet, Speeds, Steps, ResetMedium
<1>6. LinkInv'
  BY <1>1, <1>2, <1>3 DEF StartInv, LinkInv, SameTablet, SerialSteps, ResetMedium
<1>7. DialogueInv'
  BY <1>1, <1>3, <1>4 DEF StartInv, DialogueInv, ResetInv, CalmInv, At, Heard
<1> QED
  BY <1>5, <1>6, <1>7 DEF StartInv

\* ... the third finds every tablet at 9600 baud, and nothing is left unread.
LEMMA ResetSlowInv ==
    ASSUME StartInv, ResetSlow
    PROVE  StartInv'
<1>1. StartTypeOK /\ FALSE \in BOOLEAN
  BY DEF StartInv
<1>2. SameTablet /\ tablet'.speed = tablet.speed
  BY <1>1, StreamWritten DEF ResetSlow
<1>3. /\ step = "reset9600" /\ step' = "model" /\ answers' = <<>>
      /\ UNCHANGED <<port, penFound, trouble, common>>
  BY DEF ResetSlow, At
<1>4. StartTypeOK'
  BY <1>1, <1>2, <1>3 DEF StartTypeOK, SameTablet, Steps
<1>5. LinkInv'
  BY <1>1, <1>2, <1>3 DEF StartInv, LinkInv, SameTablet, SerialSteps
<1>6. DialogueInv'
  BY <1>1, <1>2, <1>3 DEF StartInv, DialogueInv, ResetInv, CalmInv, At, Heard
<1> QED
  BY <1>4, <1>5, <1>6 DEF StartInv

\* Whatever is taken of an answer, trouble never ends.
LEMMA Taken ==
    ASSUME StartTypeOK, NEW reply, reply.left \in Seq(Answer), reply.late \in BOOLEAN, Take(reply)
    PROVE  /\ answers' \in Seq(Answer) /\ trouble' \in BOOLEAN
           /\ ~trouble' => ~trouble /\ ~reply.late /\ answers' = reply.left
  BY DEF Take, StartTypeOK

\* A WacomCommonRec of which these are known
Noted(d, model, id, length, speed) ==
    /\ d \in CommonRec
    /\ d.model = model /\ d.tablet_id = id /\ d.pktLength = length /\ d.isdv4Speed = speed

\* A field that is set leaves the others: the model, ...
LEMMA ModelSet ==
    ASSUME NEW c \in CommonRec, NEW m \in Serial \cup {"TPC", NoModel}, NEW d,
           d = [c EXCEPT !.model = m]
    PROVE  Noted(d, m, c.tablet_id, c.pktLength, c.isdv4Speed)
<1>1. d \in CommonRec
  BY DEF CommonRec
<1> QED
  BY <1>1 DEF CommonRec, Noted

\* ... the id, ...
LEMMA IdSet ==
    ASSUME NEW c \in CommonRec, NEW id \in 0 .. \hFF, NEW d,
           d = [c EXCEPT !.tablet_id = id]
    PROVE  Noted(d, c.model, id, c.pktLength, c.isdv4Speed)
<1>1. d \in CommonRec
  BY DEF CommonRec
<1> QED
  BY <1>1 DEF CommonRec, Noted

\* ... the length of the packets, ...
LEMMA LengthSet ==
    ASSUME NEW c \in CommonRec, NEW length \in PacketLengths, NEW d,
           d = [c EXCEPT !.pktLength = length]
    PROVE  Noted(d, c.model, c.tablet_id, length, c.isdv4Speed)
<1>1. d \in CommonRec
  BY DEF CommonRec
<1> QED
  BY <1>1 DEF CommonRec, Noted

\* ... the speed of a digitizer, ...
LEMMA SpeedSet ==
    ASSUME NEW c \in CommonRec, NEW speed \in {19200, 38400}, NEW d,
           d = [c EXCEPT !.isdv4Speed = speed]
    PROVE  Noted(d, c.model, c.tablet_id, c.pktLength, speed)
<1>1. d \in CommonRec
  BY DEF CommonRec
<1> QED
  BY <1>1 DEF CommonRec, Noted

\* ... that of a serial tablet, ...
LEMMA LinkSet ==
    ASSUME NEW c \in CommonRec, NEW speed \in Speeds, NEW d,
           d = [c EXCEPT !.linkSpeed = speed]
    PROVE  Noted(d, c.model, c.tablet_id, c.pktLength, c.isdv4Speed)
<1>1. d \in CommonRec
  BY DEF CommonRec
<1> QED
  BY <1>1 DEF CommonRec, Noted

\* ... and the notes that a request need not be sent again.
LEMMA NoteSet ==
    ASSUME NEW c \in CommonRec, NEW known \in BOOLEAN, NEW d,
           d \in {[c EXCEPT !.resolution = known], [c EXCEPT !.ranges = known]}
    PROVE  Noted(d, c.model, c.tablet_id, c.pktLength, c.isdv4Speed)
<1>1. CASE d = [c EXCEPT !.resolution = known]
  <2>1. d \in CommonRec
    BY <1>1 DEF CommonRec
  <2> QED
    BY <1>1, <2>1 DEF CommonRec, Noted
<1>2. CASE d = [c EXCEPT !.ranges = known]
  <2>1. d \in CommonRec
    BY <1>2 DEF CommonRec
  <2> QED
    BY <1>2, <2>1 DEF CommonRec, Noted
<1> QED
  BY <1>1, <1>2

\* What a model's answer sets
LEMMA ModelKnown ==
    ASSUME NEW c \in CommonRec, NEW model \in Serial, NEW id \in 0 .. \hFF,
           NEW length \in PacketLengths, NEW sure \in BOOLEAN, NEW known \in BOOLEAN
    PROVE  Noted([c EXCEPT !.model = model, !.tablet_id = id, !.pktLength = length,
                    !.resolution = sure, !.ranges = known],
                 model, id, length, c.isdv4Speed)
<1> DEFINE c1 == [c EXCEPT !.model = model]
           c2 == [c1 EXCEPT !.tablet_id = id]
           c3 == [c2 EXCEPT !.pktLength = length]
           c4 == [c3 EXCEPT !.resolution = sure]
           c5 == [c4 EXCEPT !.ranges = known]
<1>1. c5 = [c EXCEPT !.model = model, !.tablet_id = id, !.pktLength = length,
              !.resolution = sure, !.ranges = known]
  OBVIOUS
<1> HIDE DEF c5
<1>2. c4 \in CommonRec => Noted(c5, c4.model, c4.tablet_id, c4.pktLength, c4.isdv4Speed)
  <2> HIDE DEF c4
  <2> QED
    BY NoteSet DEF c5
<1> HIDE DEF c4
<1>3. c3 \in CommonRec => Noted(c4, c3.model, c3.tablet_id, c3.pktLength, c3.isdv4Speed)
  <2> HIDE DEF c3
  <2> QED
    BY NoteSet DEF c4
<1> HIDE DEF c3
<1>4. c2 \in CommonRec => Noted(c3, c2.model, c2.tablet_id, length, c2.isdv4Speed)
  <2> HIDE DEF c2
  <2> QED
    BY LengthSet DEF c3
<1> HIDE DEF c2
<1>5. c1 \in CommonRec => Noted(c2, c1.model, id, c1.pktLength, c1.isdv4Speed)
  <2> HIDE DEF c1
  <2> QED
    BY IdSet DEF c2
<1> HIDE DEF c1
<1>6. Noted(c1, model, c.tablet_id, c.pktLength, c.isdv4Speed)
  BY ModelSet DEF c1
<1> QED
  BY <1>1, <1>2, <1>3, <1>4, <1>5, <1>6 DEF Noted

\* The answer to the first request is the tablet's model.
LEMMA AskModelInv ==
    ASSUME StartInv, AskModel
    PROVE  StartInv'
<1>1. StartTypeOK /\ "model" \in Answer
  BY DEF StartInv, Answer
<1>2. /\ step = "model" /\ UNCHANGED <<tablet, port, penFound>>
      /\ Heard /\ answers = <<>> /\ tablet.kind # "TPC" /\ tablet.kind \in Serial
      /\ common.isdv4Speed = 38400
  BY DEF StartInv, StartTypeOK, Tablet, AskModel, At, LinkInv, SerialSteps, DialogueInv, ResetInv
<1>3. PICK reply \in Requested("model") : Take(reply) /\ ModelRead(reply.answer)
  BY DEF AskModel
<1>4. /\ answers' \in Seq(Answer) /\ trouble' \in BOOLEAN
      /\ ~trouble' => ~trouble /\ reply.answer = "model" /\ answers' = <<>>
  BY <1>1, <1>2, <1>3, RequestedReply, Taken
<1> DEFINE kind == IF reply.answer = "model" THEN tablet.kind ELSE "UD"
<1>5. kind \in Serial
  BY <1>2 DEF Serial
<1>6. CASE step' = "failed" /\ UNCHANGED common
  <2>1. trouble'
    BY <1>3, <1>4, <1>6 DEF ModelRead, NoAnswer
  <2>2. StartTypeOK'
    BY <1>1, <1>2, <1>4, <1>6 DEF StartTypeOK, Steps, Answer
  <2>3. LinkInv'
    BY <1>2, <1>6 DEF StartInv, LinkInv, SerialSteps
  <2>4. DialogueInv'
    BY <2>1, <1>6 DEF DialogueInv, ResetInv, At
  <2> QED
    BY <2>2, <2>3, <2>4 DEF StartInv
<1>7. CASE /\ step' = "config"
           /\ common' = [common EXCEPT !.model = kind, !.tablet_id = SerialId[kind],
                           !.pktLength = SerialLength(kind),
                           !.resolution = @ \/ kind # "UD", !.ranges = @ \/ kind = "ET"]
  <2>1. SerialId[kind] \in 0 .. \hFF /\ SerialLength(kind) \in PacketLengths
    BY <1>5 DEF SerialId, Serial, SerialLength, PacketLengths
  <2>2. Noted(common', kind, SerialId[kind], SerialLength(kind), common.isdv4Speed)
    <3> DEFINE sure == common.resolution \/ kind # "UD"
               known == common.ranges \/ kind = "ET"
    <3>1. sure \in BOOLEAN /\ known \in BOOLEAN
      OBVIOUS
    <3>2. common \in CommonRec
      BY <1>1 DEF StartTypeOK, CommonRec
    <3>3. common' = [common EXCEPT !.model = kind, !.tablet_id = SerialId[kind],
                       !.pktLength = SerialLength(kind), !.resolution = sure, !.ranges = known]
      BY <1>7, <3>2 DEF CommonRec
    <3> HIDE DEF sure, known, kind
    <3> QED
      BY <1>5, <2>1, <3>1, <3>2, <3>3, ModelKnown
  <2>3. StartTypeOK'
    <3>1. common' \in CommonRec /\ step' = "config"
      BY <1>7, <2>2 DEF Noted
    <3> QED
      BY <1>1, <1>2, <1>4, <3>1 DEF StartTypeOK, Steps, Answer, CommonRec
  <2>4. LinkInv'
    BY <1>2, <1>7, <2>2 DEF StartInv, LinkInv, SerialSteps, Noted
  <2>5. ~trouble' => Known'
    BY <1>2, <1>4, <1>7, <2>2 DEF Known, IdOf, Noted
  <2>6. DialogueInv'
    BY <1>2, <1>4, <1>7, <2>5 DEF DialogueInv, ResetInv, CalmInv, At, Heard
  <2> QED
    BY <2>3, <2>4, <2>6 DEF StartInv
<1> QED
  BY <1>3, <1>6, <1>7 DEF ModelRead

\* The two that follow change nothing of what is known.
LEMMA AskedInv ==
    ASSUME StartInv, step \in {"config", "coord"}, step' \in {"coord", "setup", "failed"},
           UNCHANGED <<tablet, port, penFound>>,
           common' \in CommonRec, common'.model = common.model,
           common'.tablet_id = common.tablet_id, common'.pktLength = common.pktLength,
           common'.isdv4Speed = common.isdv4Speed,
           answers' \in Seq(Answer), trouble' \in BOOLEAN,
           ~trouble' => ~trouble /\ answers' = <<>> /\ step' # "failed"
    PROVE  StartInv'
<1>1. StartTypeOK /\ tablet.kind # "TPC"
  BY DEF StartInv, LinkInv, SerialSteps
<1>2. StartTypeOK'
  BY <1>1 DEF StartTypeOK, Steps, Answer, CommonRec
<1>3. LinkInv'
  BY <1>1 DEF StartInv, LinkInv, SerialSteps
<1>4. ~trouble' => Known'
  BY <1>1 DEF StartInv, DialogueInv, CalmInv, Known, At, IdOf
<1>5. DialogueInv'
  BY <1>4 DEF StartInv, DialogueInv, ResetInv, CalmInv, At, Heard
<1> QED
  BY <1>2, <1>3, <1>5 DEF StartInv

\* An answer that was asked for is the one there is.
LEMMA Listened ==
    ASSUME StartInv, step \in {"config", "coord"}, NEW req \in {"config", "coord"},
           NEW reply \in Requested(req), Take(reply)
    PROVE  /\ answers' \in Seq(Answer) /\ trouble' \in BOOLEAN
           /\ ~trouble' => ~trouble /\ reply.answer = req /\ answers' = <<>>
<1>1. StartTypeOK /\ req \in Answer
  BY DEF StartInv, Answer
<1>2. trouble \/ (Heard /\ answers = <<>>)
  BY DEF StartInv, DialogueInv, CalmInv
<1> QED
  BY <1>1, <1>2, RequestedReply, Taken

\* The second request: its answer, if there is one, is not needed.
LEMMA AskConfigInv ==
    ASSUME StartInv, AskConfig
    PROVE  StartInv'
<1>1. /\ step = "config" /\ step' = "coord" /\ UNCHANGED <<tablet, port, penFound>>
      /\ common \in CommonRec
  BY DEF StartInv, StartTypeOK, AskConfig, ConfigRead, At, CommonRec
<1>2. CASE UNCHANGED <<answers, trouble, common>>
  <2>1. answers' \in Seq(Answer) /\ trouble' \in BOOLEAN /\ (trouble \/ answers = <<>>)
    BY <1>1, <1>2 DEF StartInv, StartTypeOK, Answer, DialogueInv, CalmInv
  <2> QED
    BY <1>1, <1>2, <2>1, AskedInv
<1>3. CASE \E reply \in Requested("config") : Take(reply) /\ ConfigRead(reply.answer)
  <2>1. PICK reply \in Requested("config") : Take(reply) /\ ConfigRead(reply.answer)
    BY <1>3
  <2>2. /\ answers' \in Seq(Answer) /\ trouble' \in BOOLEAN
        /\ ~trouble' => ~trouble /\ answers' = <<>>
    BY <1>1, <2>1, Listened
  <2>3. /\ common' \in CommonRec /\ common'.model = common.model
        /\ common'.tablet_id = common.tablet_id /\ common'.pktLength = common.pktLength
        /\ common'.isdv4Speed = common.isdv4Speed
    <3>1. common' \in {common, [common EXCEPT !.resolution = TRUE]}
      BY <2>1 DEF ConfigRead
    <3>2. TRUE \in BOOLEAN
      OBVIOUS
    <3>3. CASE common' = common
      BY <1>1, <3>3
    <3>4. CASE common' # common
      BY <1>1, <3>1, <3>2, <3>4, NoteSet DEF Noted
    <3> QED
      BY <3>3, <3>4
  <2> QED
    BY <1>1, <2>2, <2>3, AskedInv
<1> QED
  BY <1>2, <1>3 DEF AskConfig

\* The third request: a tablet that answers in time is not given up.
LEMMA AskCoordInv ==
    ASSUME StartInv, AskCoord
    PROVE  StartInv'
<1>1. /\ step = "coord" /\ step' \in {"setup", "failed"} /\ UNCHANGED <<tablet, port, penFound>>
      /\ common \in CommonRec
  BY DEF StartInv, StartTypeOK, AskCoord, CoordRead, At, CommonRec
<1>2. CASE step' = "setup" /\ UNCHANGED <<answers, trouble, common>>
  <2>1. answers' \in Seq(Answer) /\ trouble' \in BOOLEAN /\ (trouble \/ answers = <<>>)
    BY <1>1, <1>2 DEF StartInv, StartTypeOK, Answer, DialogueInv, CalmInv
  <2> QED
    BY <1>1, <1>2, <2>1, AskedInv
<1>3. CASE \E reply \in Requested("coord") : Take(reply) /\ CoordRead(reply.answer)
  <2>1. PICK reply \in Requested("coord") : Take(reply) /\ CoordRead(reply.answer)
    BY <1>3
  <2>2. /\ answers' \in Seq(Answer) /\ trouble' \in BOOLEAN
        /\ ~trouble' => ~trouble /\ reply.answer = "coord" /\ answers' = <<>>
    BY <1>1, <2>1, Listened
  <2>3. /\ common' \in CommonRec /\ common'.model = common.model
        /\ common'.tablet_id = common.tablet_id /\ common'.pktLength = common.pktLength
        /\ common'.isdv4Speed = common.isdv4Speed
    <3>1. common' \in {common, [common EXCEPT !.ranges = TRUE]}
      BY <2>1 DEF CoordRead
    <3>2. TRUE \in BOOLEAN
      OBVIOUS
    <3>3. CASE common' = common
      BY <1>1, <3>3
    <3>4. CASE common' # common
      BY <1>1, <3>1, <3>2, <3>4, NoteSet DEF Noted
    <3> QED
      BY <3>3, <3>4
  <2>4. reply.answer = "coord" => step' = "setup"
    BY <2>1 DEF CoordRead
  <2> QED
    BY <1>1, <2>2, <2>3, <2>4, AskedInv
<1> QED
  BY <1>2, <1>3 DEF AskCoord

\* The setup strings leave a tablet at its speed.
LEMMA SetupInv ==
    ASSUME StartInv, Setup
    PROVE  StartInv'
<1>1. StartTypeOK /\ TRUE \in BOOLEAN
  BY DEF StartInv
<1>2. SameTablet /\ tablet'.speed = tablet.speed
  BY <1>1, StreamWritten DEF Setup
<1>3. /\ step = "setup" /\ step' = "speed"
      /\ UNCHANGED <<port, answers, penFound, trouble, common>>
  BY DEF Setup, At
<1>4. StartTypeOK'
  BY <1>1, <1>2, <1>3 DEF StartTypeOK, SameTablet, Steps
<1>5. LinkInv'
  BY <1>1, <1>2, <1>3 DEF StartInv, LinkInv, SameTablet, SerialSteps
<1>6. Known => Known'
  BY <1>2, <1>3 DEF Known, SameTablet
<1>7. DialogueInv'
  BY <1>1, <1>2, <1>3, <1>6 DEF StartInv, DialogueInv, ResetInv, CalmInv, At, Heard
<1> QED
  BY <1>4, <1>5, <1>7 DEF StartInv

\* Tablet and port change their speed together: an old Intuos known for one
\* is not asked for a speed it does not have.
LEMMA SetLinkSpeedInv ==
    ASSUME StartInv, SetLinkSpeed
    PROVE  StartInv'
<1>1. StartTypeOK
  BY DEF StartInv
<1>2. /\ step = "speed" /\ step' = "start" /\ UNCHANGED <<answers, penFound, trouble>>
      /\ tablet.kind # "TPC" /\ common \in CommonRec /\ tablet \in Tablet /\ port \in Speeds
  BY DEF StartInv, StartTypeOK, SetLinkSpeed, At, LinkInv, SerialSteps, CommonRec
<1>3. trouble \/ (Heard /\ Known)
  BY <1>2 DEF StartInv, DialogueInv, CalmInv
<1>4. CASE UNCHANGED <<tablet, port, common>>
  <2>1. StartTypeOK'
    BY <1>1, <1>2, <1>4 DEF StartTypeOK, Steps
  <2>2. LinkInv'
    BY <1>2, <1>4 DEF StartInv, LinkInv, SerialSteps
  <2>3. Heard /\ Known => Heard' /\ Known'
    BY <1>4 DEF Heard, Known
  <2>4. DialogueInv'
    BY <1>2, <1>3, <2>3 DEF DialogueInv, ResetInv, CalmInv, At
  <2> QED
    BY <2>1, <2>2, <2>4 DEF StartInv
<1>5. CASE /\ Written([tablet EXCEPT !.speed = LinkSpoken])
           /\ port' = LinkSpeed
           /\ common' = [common EXCEPT !.linkSpeed = LinkSpeed]
  <2> DEFINE speed == LinkSpoken
  <2>1. LinkSpeed \in Speeds /\ speed \in Speeds
    BY <1>2 DEF LinkSpeed, LinkSpoken, Speeds, CommonRec, Tablet
  <2>2. Written([tablet EXCEPT !.speed = speed])
    BY <1>5
  <2>3. trouble \/ speed = LinkSpeed
    <3>1. trouble \/ common.model = tablet.kind
      BY <1>2, <1>3 DEF Known
    <3>2. tablet.old => tablet.kind = "GD"
      BY DEF StartInv, LinkInv
    <3> QED
      BY <3>1, <3>2 DEF LinkSpeed, LinkSpoken
  <2> HIDE DEF speed
  <2>4. SameTablet /\ tablet'.speed = IF Heard THEN speed ELSE tablet.speed
    BY <1>1, <2>1, <2>2, SpeedWritten
  <2>5. Noted(common', common.model, common.tablet_id, common.pktLength, common.isdv4Speed)
    BY <1>2, <1>5, <2>1, LinkSet
  <2>6. StartTypeOK'
    <3>1. common' \in CommonRec /\ tablet' \in Tablet /\ port' \in Speeds
      BY <1>5, <2>1, <2>4, <2>5 DEF Noted, SameTablet
    <3> QED
      BY <1>1, <1>2, <3>1 DEF StartTypeOK, Steps, CommonRec
  <2>7. LinkInv'
    BY <1>2, <2>4, <2>5 DEF StartInv, LinkInv, SerialSteps, SameTablet, Noted
  <2>8. trouble \/ (Heard' /\ Known')
    <3>1. trouble \/ Heard'
      BY <1>3, <1>5, <2>3, <2>4 DEF Heard
    <3>2. trouble \/ Known'
      BY <1>2, <1>3, <2>4, <2>5 DEF Known, SameTablet, Noted
    <3> QED
      BY <3>1, <3>2
  <2>9. DialogueInv'
    BY <1>2, <2>8 DEF DialogueInv, ResetInv, CalmInv, At
  <2> QED
    BY <2>6, <2>7, <2>9 DEF StartInv
<1> QED
  BY <1>4, <1>5 DEF SetLinkSpeed

\* WC_START or the sampling command: the tablet sends from here on.
LEMMA BeginInv ==
    ASSUME StartInv, Start
    PROVE  StartInv'
<1>1. StartTypeOK /\ TRUE \in BOOLEAN
  BY DEF StartInv
<1>2. /\ SameTablet /\ tablet'.speed = tablet.speed
      /\ Heard => tablet'.streaming
  BY <1>1, StreamWritten DEF Start
<1>3. /\ step = "start" /\ step' = "running"
      /\ UNCHANGED <<port, answers, penFound, trouble, common>>
  BY DEF Start, At
<1>4. StartTypeOK'
  BY <1>1, <1>2, <1>3 DEF StartTypeOK, SameTablet, Steps
<1>5. LinkInv'
  BY <1>1, <1>2, <1>3 DEF StartInv, LinkInv, SameTablet, SerialSteps
<1>6. Known => Known'
  BY <1>2, <1>3 DEF Known, SameTablet
<1>7. DialogueInv'
  BY <1>1, <1>2, <1>3, <1>6 DEF StartInv, DialogueInv, ResetInv, CalmInv, At, Heard
<1> QED
  BY <1>4, <1>5, <1>7 DEF StartInv

\* Whatever of a step was heard leaves the tablet the same but for its speed
\* and whether it sends.
LEMMA ObeyedSame ==
    ASSUME StartTypeOK, tablet' = tablet \/ Written(Obeyed)
    PROVE  SameTablet /\ (step \notin SerialSteps => tablet'.speed = tablet.speed)
<1>1. tablet \in Tablet /\ 9600 \in Speeds /\ TRUE \in BOOLEAN /\ FALSE \in BOOLEAN
  BY DEF StartTypeOK, Speeds
<1>2. LinkSpoken \in Speeds
  BY DEF LinkSpoken, LinkSpeed, StartTypeOK, Tablet, Speeds
<1> DEFINE medium == [tablet EXCEPT !.speed = 9600]
           silent == [tablet EXCEPT !.streaming = FALSE]
           sending == [tablet EXCEPT !.streaming = TRUE]
           spoken == [tablet EXCEPT !.speed = LinkSpoken]
<1>3. \/ Obeyed \in {silent, sending, tablet}
      \/ Obeyed \in {medium, spoken} /\ step \in SerialSteps
  BY DEF Obeyed, SerialSteps, At
<1> HIDE DEF medium, silent, sending, spoken
<1>4. CASE tablet' = tablet
  BY <1>1, <1>4 DEF SameTablet
<1>5. CASE tablet' # tablet
  <2>1. Heard /\ tablet' = Obeyed
    BY <1>5 DEF Written
  <2>2. CASE Obeyed = silent
    <3>1. Written([tablet EXCEPT !.streaming = FALSE])
      BY <2>1, <2>2 DEF Written, silent
    <3>2. StartTypeOK /\ FALSE \in BOOLEAN
      OBVIOUS
    <3>3. SameTablet /\ tablet'.speed = tablet.speed
      BY <3>1, <3>2, StreamWritten
    <3> QED
      BY <3>3
  <2>3. CASE Obeyed = sending
    <3>1. Written([tablet EXCEPT !.streaming = TRUE])
      BY <2>1, <2>3 DEF Written, sending
    <3>2. StartTypeOK /\ TRUE \in BOOLEAN
      OBVIOUS
    <3>3. SameTablet /\ tablet'.speed = tablet.speed
      BY <3>1, <3>2, StreamWritten
    <3> QED
      BY <3>3
  <2>4. CASE Obeyed = medium /\ step \in SerialSteps
    <3>1. Written([tablet EXCEPT !.speed = 9600])
      BY <2>1, <2>4 DEF Written, medium
    <3> QED
      BY <1>1, <2>4, <3>1, SpeedWritten
  <2>5. CASE Obeyed = spoken /\ step \in SerialSteps
    <3>1. Written([tablet EXCEPT !.speed = LinkSpoken])
      BY <2>1, <2>5 DEF Written, spoken
    <3> QED
      BY <1>2, <2>5, <3>1, SpeedWritten
  <2> QED
    BY <1>3, <1>5, <2>1, <2>2, <2>3, <2>4, <2>5
<1> QED
  BY <1>4, <1>5

\* A step that fails leaves a record that differs in its speeds, or in that
\* the resolution is known.
LEMMA FailureNoted ==
    ASSUME StartTypeOK, LinkInv, GivesUp \/ NoResolution \/ NoPenQuery \/ NoTouchQuery
    PROVE  /\ Noted(common', common.model, common.tablet_id, common.pktLength, common'.isdv4Speed)
           /\ common'.isdv4Speed = 38400
           /\ port' \in Speeds /\ step' \in {"failed", "coord", "touchQuery", "start"}
           /\ step' \in SerialSteps => step \in SerialSteps
           /\ step' = "touchQuery" => step = "penQuery"
           /\ step # "closed" /\ step # "failed"
<1>1. common \in CommonRec /\ port \in Speeds /\ 38400 \in Speeds
  BY DEF StartTypeOK, CommonRec, Speeds
<1>2. Noted(common, common.model, common.tablet_id, common.pktLength, common.isdv4Speed)
  BY <1>1 DEF Noted
<1>3. common.isdv4Speed = 38400 \/ step = "penQuery"
  BY DEF LinkInv
<1>4. CASE GivesUp
  <2> DEFINE speed == IF At("speed") THEN LinkSpeed ELSE common.linkSpeed
  <2>1. common' = [common EXCEPT !.linkSpeed = speed] /\ UNCHANGED port /\ step' = "failed"
    BY <1>1, <1>4 DEF GivesUp, CommonRec
  <2>2. speed \in Speeds
    BY <1>1 DEF LinkSpeed, CommonRec, Speeds
  <2>3. /\ step \notin {"penQuery", "closed", "failed"}
    BY <1>4 DEF GivesUp, At
  <2> HIDE DEF speed
  <2>4. Noted(common', common.model, common.tablet_id, common.pktLength, common.isdv4Speed)
    BY <1>1, <2>1, <2>2, LinkSet
  <2> QED
    BY <1>1, <1>3, <2>1, <2>3, <2>4 DEF Noted, SerialSteps
<1>5. CASE NoResolution
  <2>1. /\ step = "config" /\ step' = "coord" /\ UNCHANGED port
        /\ common' = [common EXCEPT !.resolution = TRUE]
    BY <1>5 DEF NoResolution, At, ConfigRead
  <2>2. PICK known \in BOOLEAN : common' = [common EXCEPT !.resolution = known]
    BY <2>1
  <2>3. Noted(common', common.model, common.tablet_id, common.pktLength, common.isdv4Speed)
    BY <1>1, <2>2, NoteSet
  <2> QED
    BY <1>1, <1>3, <2>1, <2>3 DEF Noted, SerialSteps
<1>6. CASE NoPenQuery
  <2>1. /\ step = "penQuery" /\ step' = "touchQuery" /\ port' \in {port, 38400}
        /\ common' = [common EXCEPT !.isdv4Speed = 38400]
    BY <1>6 DEF NoPenQuery, At
  <2>2. 38400 \in {19200, 38400}
    OBVIOUS
  <2>3. Noted(common', common.model, common.tablet_id, common.pktLength, 38400)
    BY <1>1, <2>1, <2>2, SpeedSet
  <2> QED
    BY <1>1, <2>1, <2>3 DEF Noted, SerialSteps
<1>7. CASE NoTouchQuery
  <2>1. /\ step = "touchQuery" /\ step' \in {"start", "failed"} /\ UNCHANGED <<port, common>>
    BY <1>7 DEF NoTouchQuery, At, TouchRead, NoAnswer
  <2> QED
    BY <1>1, <1>2, <1>3, <2>1 DEF SerialSteps
<1> QED
  BY <1>4, <1>5, <1>6, <1>7

\* A write that fails is trouble, whether the dialogue goes on or not.
LEMMA WriteFailsInv ==
    ASSUME StartInv, WriteFails
    PROVE  StartInv'
<1>1. /\ StartTypeOK /\ LinkInv /\ trouble' = TRUE /\ UNCHANGED <<answers, penFound>>
      /\ GivesUp \/ NoResolution \/ NoPenQuery \/ NoTouchQuery
  BY DEF StartInv, WriteFails
<1>2. SameTablet /\ (step \notin SerialSteps => tablet'.speed = tablet.speed)
  BY <1>1, ObeyedSame DEF WriteFails
<1>3. /\ Noted(common', common.model, common.tablet_id, common.pktLength, common'.isdv4Speed)
      /\ common'.isdv4Speed = 38400
      /\ port' \in Speeds /\ step' \in {"failed", "coord", "touchQuery", "start"}
      /\ step' \in SerialSteps => step \in SerialSteps
      /\ step' = "touchQuery" => step = "penQuery"
      /\ step # "closed" /\ step # "failed"
  BY <1>1, FailureNoted
<1>4. StartTypeOK'
  <2>1. common' \in CommonRec /\ tablet' \in Tablet
    BY <1>2, <1>3 DEF Noted, SameTablet
  <2> QED
    BY <1>1, <1>3, <2>1 DEF StartTypeOK, Steps, CommonRec
<1>5. LinkInv'
  <2>1. tablet'.kind = tablet.kind /\ common'.model = common.model
    BY <1>2, <1>3 DEF SameTablet, Noted
  <2>2. tablet.kind = "TPC" => tablet'.speed = tablet.speed
    BY <1>1, <1>2 DEF LinkInv
  <2> QED
    BY <1>1, <1>2, <1>3, <2>1, <2>2 DEF LinkInv, SameTablet
<1>6. DialogueInv'
  BY <1>1, <1>3 DEF DialogueInv, ResetInv, At
<1> QED
  BY <1>4, <1>5, <1>6 DEF StartInv

\* A port that is closed leaves the tablet as it is.
LEMMA CloseInv ==
    ASSUME StartInv, Close
    PROVE  StartInv'
<1>1. /\ step = "running" /\ step' = "closed"
      /\ UNCHANGED <<tablet, port, answers, penFound, trouble, common>>
  BY DEF Close, At
<1>2. StartTypeOK'
  BY <1>1 DEF StartInv, StartTypeOK, Steps
<1>3. LinkInv'
  BY <1>1 DEF StartInv, LinkInv, SerialSteps
<1>4. DialogueInv'
  BY <1>1 DEF DialogueInv, ResetInv, CalmInv, At
<1> QED
  BY <1>2, <1>3, <1>4 DEF StartInv

\* With nothing on the wire a port is opened as if for the first time.
LEMMA OpenInv ==
    ASSUME StartInv, Open(<<>>)
    PROVE  StartInv'
<1>1. /\ step \in {"closed", "failed"} /\ step' = FirstStep /\ answers' = <<>>
      /\ penFound' = FALSE /\ UNCHANGED tablet /\ StartTypeOK /\ common \in CommonRec
  BY DEF Open, StartInv, StartTypeOK, CommonRec
<1>4. trouble' \in BOOLEAN
  <2>1. trouble' = FALSE
    BY DEF Open
  <2> QED
    BY <2>1
<1>5. common.isdv4Speed = 38400
  BY <1>1 DEF StartInv, LinkInv
<1>7. answers' \in Seq(Answer) /\ penFound' \in BOOLEAN /\ tablet' \in Tablet
  <2>1. answers' \in Seq(Answer)
    BY <1>1
  <2>2. penFound' \in BOOLEAN
    <3>1. penFound' = FALSE
      BY <1>1
    <3> QED
      BY <3>1
  <2>3. tablet' \in Tablet
    BY <1>1 DEF StartTypeOK
  <2> QED
    BY <2>1, <2>2, <2>3
<1>2. CASE tablet.kind = "TPC"
  <2>1. /\ port' = common.isdv4Speed /\ step' = "penQuery"
        /\ common' = [common EXCEPT !.model = "TPC", !.pktLength = 9, !.tablet_id = \h90]
    BY <1>1, <1>2 DEF Open, FirstStep
  <2>2. Noted(common', "TPC", \h90, 9, common.isdv4Speed)
    <3> DEFINE c1 == [common EXCEPT !.model = "TPC"]
               c2 == [c1 EXCEPT !.pktLength = 9]
               c3 == [c2 EXCEPT !.tablet_id = \h90]
    <3>1. common' = c3 /\ 9 \in PacketLengths /\ \h90 \in 0 .. \hFF
      BY <2>1 DEF PacketLengths
    <3> HIDE DEF c3
    <3>2. c2 \in CommonRec => Noted(c3, c2.model, \h90, c2.pktLength, c2.isdv4Speed)
      <4> HIDE DEF c2
      <4> QED
        BY <3>1, IdSet DEF c3
    <3> HIDE DEF c2
    <3>3. c1 \in CommonRec => Noted(c2, c1.model, c1.tablet_id, 9, c1.isdv4Speed)
      <4> HIDE DEF c1
      <4> QED
        BY <3>1, LengthSet DEF c2
    <3> HIDE DEF c1
    <3>4. Noted(c1, "TPC", common.tablet_id, common.pktLength, common.isdv4Speed)
      BY <1>1, ModelSet DEF c1
    <3> QED
      BY <3>1, <3>2, <3>3, <3>4 DEF Noted
  <2>3. common.isdv4Speed \in {19200, 38400}
    BY <1>1 DEF CommonRec
  <2>4. StartTypeOK'
    <3>1. common' \in CommonRec /\ port' \in Speeds
      BY <2>1, <2>2, <2>3 DEF Noted, Speeds
    <3> QED
      BY <1>4, <1>7, <2>1, <3>1 DEF StartTypeOK, Steps, CommonRec, Answer
  <2>5. LinkInv'
    BY <1>1, <1>2, <2>1, <2>2 DEF StartInv, LinkInv, SerialSteps, Noted
  <2>6. DialogueInv'
    <3>1. port' = 38400
      BY <1>5, <2>1
    <3> QED
      BY <1>1, <2>1, <2>2, <3>1 DEF DialogueInv, ResetInv, CalmInv, At, Noted
  <2> QED
    BY <2>4, <2>5, <2>6 DEF StartInv
<1>3. CASE tablet.kind # "TPC"
  <2>1. port' = 38400 /\ step' = "reset38400" /\ UNCHANGED common
    BY <1>1, <1>3 DEF Open, FirstStep
  <2>2. StartTypeOK'
    <3>1. common' \in CommonRec /\ port' \in Speeds
      BY <1>1, <2>1 DEF Speeds
    <3> QED
      BY <1>4, <1>7, <2>1, <3>1 DEF StartTypeOK, Steps, CommonRec, Answer
  <2>3. LinkInv'
    BY <1>1, <1>3, <2>1 DEF StartInv, LinkInv, SerialSteps
  <2>4. DialogueInv'
    BY <2>1 DEF DialogueInv, ResetInv, CalmInv, At
  <2> QED
    BY <2>2, <2>3, <2>4 DEF StartInv
<1> QED
  BY <1>2, <1>3

\* A digitizer's pen query: its speed is found, or it answers at once.
LEMMA QueryPenInv ==
    ASSUME StartInv, QueryPen
    PROVE  StartInv'
<1>1. /\ StartTypeOK /\ common \in CommonRec /\ tablet \in Tablet /\ "pen" \in Answer
      /\ TRUE \in BOOLEAN /\ FALSE \in BOOLEAN
  BY DEF StartInv, StartTypeOK, CommonRec, Answer
<1>2. step = "penQuery" /\ tablet.kind = "TPC" /\ common.model = "TPC"
  BY DEF StartInv, QueryPen, At, LinkInv
<1>3. SameTablet /\ tablet'.speed = tablet.speed
  BY <1>1, StreamWritten DEF QueryPen, Stopped
<1>4. PICK reply \in Queried("pen", TRUE) : Take(reply) /\ PenRead(reply.answer)
  BY DEF QueryPen
<1>5. trouble \/ /\ answers = <<>> /\ port = common.isdv4Speed /\ (port = 19200 => Heard)
                 /\ common.tablet_id = \h90 /\ common.pktLength = 9
  BY <1>2 DEF StartInv, DialogueInv, CalmInv, At
<1>6. /\ reply.left \in Seq(Answer) /\ reply.late \in BOOLEAN
      /\ answers = <<>> /\ ~reply.late =>
           reply.left = <<>> /\ reply.answer = IF Heard THEN "pen" ELSE NoAnswer
  BY <1>1, <1>4, QueriedReply
<1>7. /\ answers' \in Seq(Answer) /\ trouble' \in BOOLEAN
      /\ ~trouble' => /\ ~trouble /\ answers' = <<>>
                      /\ reply.answer = IF Heard THEN "pen" ELSE NoAnswer
  BY <1>1, <1>4, <1>5, <1>6, Taken
<1> DEFINE control == reply.answer \notin {NoAnswer, "data"}
<1>8. CASE /\ ~control /\ common.isdv4Speed # 19200
           /\ step' = "penQuery" /\ port' = 19200
           /\ common' = [common EXCEPT !.isdv4Speed = 19200]
           /\ UNCHANGED penFound
  <2>1. Noted(common', common.model, common.tablet_id, common.pktLength, 19200)
    <3>1. 19200 \in {19200, 38400}
      OBVIOUS
    <3> QED
      BY <1>1, <1>8, <3>1, SpeedSet
  <2>2. StartTypeOK'
    <3>1. common' \in CommonRec /\ port' \in Speeds /\ tablet' \in Tablet
      BY <1>3, <1>8, <2>1 DEF Noted, Speeds, SameTablet
    <3> QED
      BY <1>1, <1>7, <1>8, <3>1 DEF StartTypeOK, Steps, CommonRec, Answer
  <2>3. LinkInv'
    BY <1>2, <1>3, <1>8, <2>1 DEF StartInv, LinkInv, SerialSteps, Noted, SameTablet
  <2>4. ~trouble' => Heard'
    <3>1. tablet.speed \in {19200, 38400} /\ common.isdv4Speed \in {19200, 38400}
      BY <1>1, <1>2 DEF StartInv, LinkInv, CommonRec
    <3>2. ~trouble' => ~Heard
      BY <1>7, <1>8 DEF NoAnswer
    <3> QED
      BY <1>3, <1>5, <1>7, <1>8, <3>1, <3>2 DEF Heard
  <2>5. DialogueInv'
    BY <1>5, <1>7, <1>8, <2>1, <2>4 DEF DialogueInv, ResetInv, CalmInv, At, Noted
  <2> QED
    BY <2>2, <2>3, <2>5 DEF StartInv
<1>9. CASE /\ step' = "touchQuery" /\ penFound' = control
           /\ common' = [common EXCEPT !.isdv4Speed = 38400,
                           !.tablet_id = IF control /\ ~tablet.pen THEN \hE2 ELSE @]
           /\ UNCHANGED port /\ (control \/ common.isdv4Speed = 19200)
  <2> DEFINE id == IF control /\ ~tablet.pen THEN \hE2 ELSE common.tablet_id
             c1 == [common EXCEPT !.isdv4Speed = 38400]
             c2 == [c1 EXCEPT !.tablet_id = id]
  <2>1. Noted(common', common.model, id, common.pktLength, 38400)
    <3>1. id \in 0 .. \hFF /\ 38400 \in {19200, 38400}
      BY <1>1 DEF CommonRec
    <3>2. common' = c2
      BY <1>1, <1>9 DEF CommonRec
    <3> HIDE DEF c2, id
    <3>3. c1 \in CommonRec => Noted(c2, c1.model, id, c1.pktLength, c1.isdv4Speed)
      <4> HIDE DEF c1
      <4> QED
        BY <3>1, IdSet DEF c2
    <3> HIDE DEF c1
    <3>4. Noted(c1, common.model, common.tablet_id, common.pktLength, 38400)
      BY <1>1, <3>1, SpeedSet DEF c1
    <3> QED
      BY <3>2, <3>3, <3>4 DEF Noted
  <2>2. StartTypeOK'
    <3>1. common' \in CommonRec /\ tablet' \in Tablet
      BY <1>3, <2>1 DEF Noted, SameTablet
    <3> QED
      BY <1>1, <1>7, <1>9, <3>1 DEF StartTypeOK, Steps, CommonRec, Answer
  <2>3. LinkInv'
    BY <1>2, <1>3, <1>9, <2>1 DEF StartInv, LinkInv, SerialSteps, Noted, SameTablet
  <2>4. ~trouble' => Heard /\ control
    <3>1. ~trouble' /\ ~Heard => ~control /\ common.isdv4Speed # 19200
      BY <1>5, <1>7 DEF NoAnswer
    <3>2. ~trouble' /\ Heard => control
      BY <1>7 DEF NoAnswer
    <3> QED
      BY <1>9, <3>1, <3>2
  <2>5. ~trouble' => common'.tablet_id = PenlessId'
    BY <1>3, <1>5, <1>7, <2>1, <2>4 DEF Noted, SameTablet, PenlessId
  <2>6. ~trouble' => Heard' /\ answers' = <<>> /\ penFound' /\ common'.pktLength = 9
    <3>1. ~trouble' => Heard'
      BY <1>3, <1>9, <2>4 DEF Heard
    <3>2. ~trouble' => penFound'
      <4>1. penFound' = control
        BY <1>9
      <4> HIDE DEF control
      <4> QED
        BY <2>4, <4>1, Zenon
    <3> QED
      BY <1>5, <1>7, <2>1, <3>1, <3>2 DEF Noted
  <2>7. DialogueInv'
    BY <1>9, <2>5, <2>6 DEF DialogueInv, ResetInv, CalmInv, At
  <2> QED
    BY <2>2, <2>3, <2>7 DEF StartInv
<1> QED
  BY <1>4, <1>8, <1>9 DEF PenRead

\* The lengths there are
LEMMA TouchLengths ==
    ASSUME NEW id
    PROVE  /\ TouchLength(id) \in {5, 7, 13} /\ TouchLength(id) \in PacketLengths
           /\ TouchLength(id) # 13 => TouchLength(id) <= 9
           /\ TouchLength(\h90) = 5
  BY DEF TouchLength, PacketLengths

\* A sensor tells the tablet.
LEMMA SensorTells ==
    ASSUME tablet \in Tablet, common \in CommonRec, NEW sensor \in 0 .. NoSensor
    PROVE  /\ TouchId(sensor) \in 0 .. \hFF
           /\ /\ tablet.kind = "TPC" /\ common.tablet_id = PenlessId
              /\ sensor = tablet.sensor /\ sensor # NoSensor
              => TouchId(sensor) = IdOf(tablet)
<1>1. sensor \in {0, 1, 2, 3, 4, 5, 6}
  BY DEF NoSensor
<1>2. TouchId(sensor) \in 0 .. \hFF
  <2>1. common.tablet_id \in 0 .. \hFF
    BY DEF CommonRec
  <2> QED
    BY <1>1, <2>1 DEF TouchId
<1>3. ASSUME tablet.kind = "TPC", common.tablet_id = PenlessId, sensor = tablet.sensor,
             sensor # NoSensor
      PROVE  TouchId(sensor) = IdOf(tablet)
  <2>1. "TPC" \notin Serial
    BY DEF Serial
  <2>2. tablet.pen \in BOOLEAN
    BY DEF Tablet
  <2> QED
    BY <1>1, <1>3, <2>1, <2>2 DEF TouchId, IdOf, PenlessId, NoSensor
<1> QED
  BY <1>2, <1>3

\* The touch query has an answer if there is a sensor; else it is a pen's
\* digitizer.
LEMMA QueryTouchInv ==
    ASSUME StartInv, QueryTouch
    PROVE  StartInv'
<1>1. /\ StartTypeOK /\ common \in CommonRec /\ tablet \in Tablet /\ "touch" \in Answer
      /\ FALSE \in BOOLEAN
  BY DEF StartInv, StartTypeOK, CommonRec, Answer
<1>2. /\ step = "touchQuery" /\ tablet.kind = "TPC" /\ common.model = "TPC"
      /\ UNCHANGED <<port, penFound>>
  BY DEF StartInv, QueryTouch, At, LinkInv
<1>3. SameTablet /\ tablet'.speed = tablet.speed
  BY <1>1, StreamWritten DEF QueryTouch, Stopped
<1> DEFINE touched == tablet.sensor # NoSensor
<1>4. PICK reply \in Queried("touch", touched) : Take(reply) /\ TouchRead(reply.answer)
  BY DEF QueryTouch
<1>5. trouble \/ /\ Heard /\ answers = <<>> /\ penFound /\ common.pktLength = 9
                 /\ common.tablet_id = PenlessId
  BY <1>2 DEF StartInv, DialogueInv, CalmInv, At
<1>6. touched \in BOOLEAN
  OBVIOUS
<1>7. /\ reply.left \in Seq(Answer) /\ reply.late \in BOOLEAN
      /\ answers = <<>> /\ ~reply.late =>
           reply.answer = IF Heard /\ touched THEN "touch" ELSE NoAnswer
  <2> HIDE DEF touched
  <2> QED
    BY <1>1, <1>4, <1>6, QueriedReply
<1>8. /\ answers' \in Seq(Answer) /\ trouble' \in BOOLEAN
      /\ ~trouble' => ~trouble /\ reply.answer = IF touched THEN "touch" ELSE NoAnswer
  BY <1>1, <1>4, <1>5, <1>7, Taken
<1>9. ~trouble' => Heard'
  BY <1>2, <1>3, <1>5, <1>8 DEF Heard
<1>10. CASE reply.answer \in {NoAnswer, "data"}
  <2>1. step' = (IF penFound THEN "start" ELSE "failed") /\ UNCHANGED common
    BY <1>4, <1>10 DEF TouchRead
  <2>2. StartTypeOK'
    BY <1>1, <1>2, <1>3, <1>8, <2>1 DEF StartTypeOK, Steps, Answer, SameTablet
  <2>3. LinkInv'
    BY <1>2, <1>3, <2>1 DEF StartInv, LinkInv, SerialSteps, SameTablet
  <2>4. ~trouble' => Known'
    <3>1. ~trouble' => tablet.sensor = NoSensor
      BY <1>8, <1>10 DEF NoAnswer
    <3>2. tablet.sensor = NoSensor => tablet.pen /\ IdOf(tablet) = \h90
      <4>1. tablet.sensor = NoSensor => tablet.pen
        BY <1>2 DEF StartInv, LinkInv
      <4>2. tablet.sensor = NoSensor => IdOf(tablet) = \h90
        BY <1>2 DEF IdOf, Serial, NoSensor
      <4> QED
        BY <4>1, <4>2
    <3>3. ~trouble' => common.tablet_id = \h90 /\ common.pktLength = 9 /\ IdOf(tablet) = \h90
      BY <1>5, <1>8, <3>1, <3>2 DEF PenlessId
    <3> QED
      BY <1>2, <1>3, <2>1, <3>3, TouchLengths DEF Known, SameTablet
  <2>5. DialogueInv'
    BY <1>5, <1>8, <1>9, <2>1, <2>4 DEF DialogueInv, ResetInv, CalmInv, At
  <2> QED
    BY <2>2, <2>3, <2>5 DEF StartInv
<1>11. CASE reply.answer \notin {NoAnswer, "data"}
  <2>1. PICK sensor \in (IF reply.answer = "touch" THEN {tablet.sensor} ELSE 0 .. 5) :
          /\ step' = "start"
          /\ common' = [common EXCEPT !.tablet_id = TouchId(sensor),
                          !.pktLength = TouchLength(TouchId(sensor))]
    BY <1>4, <1>11 DEF TouchRead
  <2>2. sensor \in 0 .. NoSensor
    BY <1>1, <2>1 DEF Tablet, NoSensor
  <2> DEFINE id == TouchId(sensor)
             c1 == [common EXCEPT !.tablet_id = id]
             c2 == [c1 EXCEPT !.pktLength = TouchLength(id)]
  <2>3. Noted(common', common.model, id, TouchLength(id), common.isdv4Speed)
    <3>1. id \in 0 .. \hFF /\ TouchLength(id) \in PacketLengths
      BY <1>1, <2>2, SensorTells, TouchLengths
    <3>2. common' = c2
      BY <2>1
    <3> HIDE DEF c2, id
    <3>3. c1 \in CommonRec => Noted(c2, c1.model, c1.tablet_id, TouchLength(id), c1.isdv4Speed)
      <4> HIDE DEF c1
      <4> QED
        BY <3>1, LengthSet DEF c2
    <3> HIDE DEF c1
    <3>4. Noted(c1, common.model, id, common.pktLength, common.isdv4Speed)
      BY <1>1, <3>1, IdSet DEF c1
    <3> QED
      BY <3>2, <3>3, <3>4 DEF Noted
  <2>4. StartTypeOK'
    <3>1. common' \in CommonRec /\ tablet' \in Tablet
      BY <1>3, <2>3 DEF Noted, SameTablet
    <3> QED
      BY <1>1, <1>2, <1>8, <2>1, <3>1 DEF StartTypeOK, Steps, CommonRec, Answer
  <2>5. LinkInv'
    BY <1>2, <1>3, <2>1, <2>3 DEF StartInv, LinkInv, SerialSteps, Noted, SameTablet
  <2>6. ~trouble' => Known'
    <3>1. ~trouble' => sensor = tablet.sensor /\ sensor # NoSensor
      BY <1>8, <1>11, <2>1
    <3>2. ~trouble' => id = IdOf(tablet)
      BY <1>1, <1>2, <1>5, <1>8, <2>2, <3>1, SensorTells
    <3> HIDE DEF id
    <3>3. TouchLength(id) \in {5, 7, 13}
      BY TouchLengths
    <3> QED
      BY <1>2, <1>3, <2>3, <3>2, <3>3 DEF Known, SameTablet, Noted
  <2>7. DialogueInv'
    BY <1>9, <2>1, <2>6 DEF DialogueInv, ResetInv, CalmInv, At
  <2> QED
    BY <2>4, <2>5, <2>7 DEF StartInv
<1> QED
  BY <1>10, <1>11

-----------------------------------------------------------------------------
(* The bytes.                                                              *)

\* Nothing is near a tablet that is not known for what it is, and nothing of
\* it is read.
QuietInv ==
    trouble \/ ~At("running") =>
      hand = [s \in Slots |-> Free] /\ wire = <<>> /\ reading = FALSE

\* The packets that a tablet may send
PacketKinds ==
    {"ID", "OUT", "MOUSE", "ROTATION", "P4"}
      \cup (IF tablet.kind \in Protocol5 \cup {"TPC"} THEN {"PEN"} ELSE {})
      \cup (IF tablet.kind = "TPC" THEN {"TOUCH"} ELSE {})
Held == [tool: {NoTool, "FINGER"} \cup Pens \cup Mice, buttons: SUBSET {1, 2, 4, 8}]
Sent == [kind: PacketKinds, slot: Slots, tool: {NoTool, "FINGER"} \cup Pens \cup Mice,
         proximity: BOOLEAN, buttons: SUBSET {1, 2, 4, 8}, body: Bodies \cup {"plain"}]
Byte == [packet: Sent, i: Nat]

StreamInv ==
    /\ hand \in [Slots -> Held]
    /\ wire \in Seq(Byte) /\ buffer \in Seq(Byte)
    /\ pos \in Nat /\ reading \in BOOLEAN

\* The inductive invariant
SerialInv == StartInv /\ QuietInv /\ StreamInv

\* Every way to take or to remove a tool, or to move it, is one of a running
\* tablet.
LEMMA HardwareRuns ==
    ASSUME SerialInv, Hardware, CarefulUser
    PROVE  At("running") /\ ~trouble /\ UNCHANGED startVars
<1>1. UNCHANGED startVars
  BY DEF Hardware, Enter, Press, Leave, Touch, Lose, Sends
<1>2. SUFFICES ASSUME trouble \/ ~At("running")
               PROVE  FALSE
  BY <1>1
<1>3. hand = [s \in Slots |-> Free] /\ wire = <<>>
  BY <1>2 DEF SerialInv, QuietInv
<1>4. hand' = hand
  BY <1>2 DEF CarefulUser
<1>5. NoTool \notin {"FINGER"} \cup Pens \cup Mice
  BY DEF NoTool, Pens, Mice
<1>6. ASSUME NEW s \in Slots, Enter(s)
      PROVE  FALSE
  <2>1. PICK t \in Tools[tablet.kind] : \E b \in Sendable(t) :
          hand' = [hand EXCEPT ![s] = [tool |-> t, buttons |-> b]]
    BY <1>6 DEF Enter
  <2>2. t \in Pens \cup Mice
    BY <2>1, SerialAssumption DEF SerialInv, StartInv, StartTypeOK, Tablet
  <2>3. hand'[s].tool = t
    BY <1>3, <2>1
  <2>4. hand[s].tool = NoTool
    BY <1>3 DEF Free
  <2> QED
    BY <1>4, <1>5, <2>2, <2>3, <2>4
<1>7. ASSUME NEW s \in Slots, Press(s) \/ Leave(s)
      PROVE  FALSE
  BY <1>3, <1>7 DEF Press, Leave, Free
<1>8. ASSUME Touch
      PROVE  FALSE
  <2>1. 1 \in Slots /\ hand[1] = Free
    BY <1>3 DEF Slots
  <2>2. PICK down : /\ down # {} \/ hand[1].buttons # {}
                    /\ hand' = [hand EXCEPT ![1] = IF down = {} THEN Free
                                                   ELSE [tool |-> "FINGER", buttons |-> down]]
    BY <1>8 DEF Touch
  <2>3. down # {}
    BY <2>1, <2>2 DEF Free
  <2>4. hand'[1] = [tool |-> "FINGER", buttons |-> down]
    BY <1>3, <2>1, <2>2, <2>3
  <2> QED
    BY <1>4, <1>5, <2>1, <2>4 DEF Free
<1>9. ~Lose
  BY <1>3 DEF Lose
<1> QED
  BY <1>6, <1>7, <1>8, <1>9 DEF Hardware

\* The length that parsing leaves
LEMMA ParsedLength ==
    ASSUME Parse
    PROVE  \E length \in {common.pktLength, TouchLength(common.tablet_id), 9} :
             /\ common' = [common EXCEPT !.pktLength = length]
             /\ common.model # "TPC" => length = common.pktLength
<1> DEFINE r == IF common.model = "TPC" THEN ISDV4Parse ELSE SerialParse
<1>1. common' = [common EXCEPT !.pktLength = r.length]
  BY DEF Parse
<1>2. SerialParse.length = common.pktLength
  BY DEF SerialParse, Result
<1>3. ISDV4Parse.length \in {common.pktLength, TouchLength(common.tablet_id), 9}
  BY DEF ISDV4Parse, Result
<1> HIDE DEF r
<1>4. r.length = IF common.model = "TPC" THEN ISDV4Parse.length ELSE SerialParse.length
  BY DEF r
<1> QED
  BY <1>1, <1>2, <1>3, <1>4

\* Of a digitizer the length changes from packet to packet, and is always
\* enough for fingers.
LEMMA ParseInv ==
    ASSUME SerialInv, Parse
    PROVE  StartInv'
<1>1. /\ StartInv /\ StartTypeOK /\ common \in CommonRec
      /\ UNCHANGED <<tablet, port, answers, step, penFound, trouble>>
  BY DEF SerialInv, StartInv, StartTypeOK, CommonRec, Parse
<1>2. At("running") /\ ~trouble
  BY DEF SerialInv, QuietInv, Parse
<1>3. PICK length \in {common.pktLength, TouchLength(common.tablet_id), 9} :
        /\ common' = [common EXCEPT !.pktLength = length]
        /\ common.model # "TPC" => length = common.pktLength
  BY ParsedLength
<1>4. length \in PacketLengths
  BY <1>1, TouchLengths DEF CommonRec, PacketLengths
<1>5. Noted(common', common.model, common.tablet_id, length, common.isdv4Speed)
  BY <1>1, <1>3, <1>4, LengthSet
<1>6. StartTypeOK'
  <2>1. common' \in CommonRec
    BY <1>5 DEF Noted
  <2> QED
    BY <1>1, <2>1 DEF StartTypeOK, CommonRec
<1>7. LinkInv'
  BY <1>1, <1>5 DEF StartInv, LinkInv, Noted
<1>8. Heard /\ Known /\ tablet.streaming
  BY <1>1, <1>2 DEF StartInv, DialogueInv, CalmInv, At
<1>9. Known'
  <2>1. CASE tablet.kind # "TPC"
    <3>1. common.model # "TPC"
      BY <1>1, <1>8, <2>1 DEF Known
    <3> QED
      BY <1>1, <1>3, <1>5, <1>8, <2>1, <3>1 DEF Known, Noted
  <2>2. CASE tablet.kind = "TPC"
    <3>1. TouchLength(common.tablet_id) # 13 => TouchLength(common.tablet_id) <= length
      <4> DEFINE fingers == TouchLength(common.tablet_id)
      <4>1. fingers \in {5, 7, 13} /\ (fingers # 13 => fingers <= common.pktLength)
        BY <1>8, <2>2, TouchLengths DEF Known
      <4>2. length \in {common.pktLength, fingers, 9}
        BY <1>3
      <4> HIDE DEF fingers
      <4>3. fingers # 13 => fingers <= length
        BY <4>1, <4>2
      <4> QED
        BY <4>3 DEF fingers
    <3> QED
      BY <1>1, <1>5, <1>8, <2>2, <3>1 DEF Known, Noted
  <2> QED
    BY <2>1, <2>2
<1>10. DialogueInv'
  BY <1>1, <1>2, <1>8, <1>9 DEF DialogueInv, ResetInv, CalmInv, At, Heard
<1> QED
  BY <1>6, <1>7, <1>10 DEF StartInv

\* What a tool near the tablet has sent while nobody listened is nothing.
LEMMA NoNoise ==
    ASSUME SerialInv, OpenPort
    PROVE  Open(<<>>)
<1>1. step \in {"closed", "failed"} /\ Open(Noise)
  BY DEF OpenPort, Open
<1>2. hand = [s \in Slots |-> Free]
  BY <1>1 DEF SerialInv, QuietInv, At
<1>3. Noise = <<>>
  BY <1>2 DEF Noise, Free
<1> QED
  BY <1>1, <1>3

\* The dialogue and the reader, step by step
LEMMA SerialStart ==
    ASSUME SerialInv, SerialNext, CarefulUser
    PROVE  StartInv'
<1>1. StartInv
  BY DEF SerialInv
<1>2. ASSUME UNCHANGED startVars
      PROVE  StartInv'
  BY <1>1, <1>2 DEF startVars, StartInv, StartTypeOK, LinkInv, DialogueInv, ResetInv, CalmInv,
                    Known, PenlessId, Heard, At
<1>3. CASE OpenPort
  BY <1>1, <1>3, NoNoise, OpenInv
<1>4. CASE StartUp
  <2>1. StartNext
    BY <1>4 DEF StartUp
  <2> QED
    BY <1>1, <2>1, ResetFastInv, ResetMediumInv, ResetSlowInv, AskModelInv, AskConfigInv,
       AskCoordInv, SetupInv, SetLinkSpeedInv, QueryPenInv, QueryTouchInv, BeginInv, WriteFailsInv
       DEF StartNext
<1>5. CASE ClosePort
  BY <1>1, <1>5, CloseInv DEF ClosePort
<1>6. CASE Hardware
  BY <1>2, <1>6, HardwareRuns
<1>7. CASE Read \/ Drained
  BY <1>2, <1>7 DEF Read, Drained
<1>8. CASE Parse
  BY <1>8, ParseInv
<1> QED
  BY <1>3, <1>4, <1>5, <1>6, <1>7, <1>8 DEF SerialNext

\* No step of the dialogue is one of a tablet that is running.
LEMMA DialogueSteps ==
    ASSUME StartNext
    PROVE  ~At("running")
<1>1. ResetFast => ~At("running")
  BY DEF ResetFast, At
<1>2. ResetMedium => ~At("running")
  BY DEF ResetMedium, At
<1>3. ResetSlow => ~At("running")
  BY DEF ResetSlow, At
<1>4. AskModel => ~At("running")
  BY DEF AskModel, At
<1>5. AskConfig => ~At("running")
  BY DEF AskConfig, At
<1>6. AskCoord => ~At("running")
  BY DEF AskCoord, At
<1>7. Setup => ~At("running")
  BY DEF Setup, At
<1>8. SetLinkSpeed => ~At("running")
  BY DEF SetLinkSpeed, At
<1>9. QueryPen => ~At("running")
  BY DEF QueryPen, At
<1>10. QueryTouch => ~At("running")
  BY DEF QueryTouch, At
<1>11. Start => ~At("running")
  BY DEF Start, At
<1>12. WriteFails => ~At("running")
  BY DEF WriteFails, GivesUp, NoResolution, NoPenQuery, NoTouchQuery, At
<1> QED
  BY <1>1, <1>2, <1>3, <1>4, <1>5, <1>6, <1>7, <1>8, <1>9, <1>10, <1>11, <1>12 DEF StartNext

\* What is near a tablet, and what is read, stays that of a running one.
LEMMA SerialQuiet ==
    ASSUME SerialInv, SerialNext, CarefulUser
    PROVE  QuietInv'
<1>1. QuietInv
  BY DEF SerialInv
<1>2. CASE OpenPort
  <2>1. ~At("running")
    BY <1>2 DEF OpenPort, Open, At
  <2> QED
    BY <1>1, <1>2, <2>1 DEF QuietInv, OpenPort, Idle
<1>3. CASE StartUp
  <2>1. ~At("running")
    BY <1>3, DialogueSteps DEF StartUp
  <2> QED
    BY <1>1, <1>3, <2>1 DEF QuietInv, StartUp, Idle
<1>4. CASE ClosePort
  <2>1. hand = [s \in Slots |-> Free] /\ wire' = <<>>
    BY <1>4 DEF ClosePort, Close, At, CarefulUser
  <2>2. reading' = reading /\ ~reading /\ hand' = hand
    BY <1>4 DEF ClosePort, Idle
  <2>3. reading = FALSE
    BY <2>2 DEF SerialInv, StreamInv
  <2> QED
    BY <2>1, <2>2, <2>3 DEF QuietInv
<1>5. CASE Hardware
  <2>1. At("running") /\ ~trouble /\ UNCHANGED startVars
    BY <1>5, HardwareRuns
  <2> QED
    BY <2>1 DEF QuietInv, startVars, At
<1>6. CASE Read
  <2>1. wire # <<>> /\ UNCHANGED startVars
    BY <1>6 DEF Read, Ends
  <2> QED
    BY <1>1, <2>1 DEF QuietInv, startVars, At
<1>7. CASE Parse \/ Drained
  <2>1. reading /\ UNCHANGED <<step, trouble>>
    BY <1>7 DEF Parse, Drained, startVars
  <2>2. At("running") /\ ~trouble
    BY <1>1, <2>1 DEF QuietInv
  <2> QED
    BY <2>1, <2>2 DEF QuietInv, At
<1> QED
  BY <1>2, <1>3, <1>4, <1>5, <1>6, <1>7 DEF SerialNext

\* A step changes no tablet for another.
LEMMA TabletStays ==
    ASSUME SerialInv, SerialNext
    PROVE  SameTablet
<1>1. StartTypeOK /\ TRUE \in BOOLEAN /\ FALSE \in BOOLEAN /\ 9600 \in Speeds
  BY DEF SerialInv, StartInv, Speeds
<1>2. UNCHANGED tablet => SameTablet
  BY <1>1 DEF SameTablet, StartTypeOK
<1>3. ASSUME StartNext
      PROVE  SameTablet
  <2>1. CASE ResetFast \/ ResetMedium
    BY <1>1, <2>1, SpeedWritten DEF ResetFast, ResetMedium
  <2>2. ASSUME \E streaming \in BOOLEAN : Written([tablet EXCEPT !.streaming = streaming])
        PROVE  SameTablet
    BY <1>1, <2>2, StreamWritten
  <2>3. CASE ResetSlow \/ QueryPen \/ QueryTouch
    <3>1. Written([tablet EXCEPT !.streaming = FALSE])
      BY <2>3 DEF ResetSlow, QueryPen, QueryTouch, Stopped
    <3> QED
      BY <2>2, <3>1
  <2>4. CASE Setup \/ Start
    <3>1. Written([tablet EXCEPT !.streaming = TRUE])
      BY <2>4 DEF Setup, Start
    <3> QED
      BY <2>2, <3>1
  <2>6. CASE SetLinkSpeed
    <3>1. CASE UNCHANGED tablet
      BY <1>2, <3>1
    <3>2. CASE Written([tablet EXCEPT !.speed = LinkSpoken])
      <4>1. LinkSpoken \in Speeds
        BY <1>1 DEF StartTypeOK, LinkSpoken, LinkSpeed, Speeds, Tablet
      <4> QED
        BY <1>1, <3>2, <4>1, SpeedWritten
    <3> QED
      BY <2>6, <3>1, <3>2 DEF SetLinkSpeed
  <2>7. CASE AskModel \/ AskConfig \/ AskCoord
    BY <1>2, <2>7 DEF AskModel, AskConfig, AskCoord
  <2>8. CASE WriteFails
    BY <1>1, <2>8, ObeyedSame DEF WriteFails
  <2> QED
    BY <1>3, <2>1, <2>3, <2>4, <2>6, <2>7, <2>8 DEF StartNext
<1>4. CASE OpenPort \/ ClosePort
  BY <1>2, <1>4 DEF OpenPort, Open, ClosePort, Close
<1>5. CASE Hardware
  BY <1>2, <1>5 DEF Hardware, Enter, Press, Leave, Touch, Lose, Sends, startVars
<1>6. CASE Read \/ Parse \/ Drained
  BY <1>2, <1>6 DEF Read, Parse, Drained, startVars
<1> QED
  BY <1>3, <1>4, <1>5, <1>6 DEF SerialNext, StartUp

\* A packet that may be sent
LEMMA PacketSent ==
    ASSUME NEW kind \in PacketKinds, NEW s \in Slots,
           NEW t \in {NoTool, "FINGER"} \cup Pens \cup Mice,
           NEW near \in BOOLEAN, NEW b \in SUBSET {1, 2, 4, 8}
    PROVE  /\ Packet(kind, s, t, near, b) \in Sent
           /\ \A body \in Bodies : [Packet(kind, s, t, near, b) EXCEPT !.body = body] \in Sent
<1>1. Packet(kind, s, t, near, b) \in Sent
  BY DEF Packet, Sent
<1>2. ASSUME NEW p \in Sent, NEW body \in Bodies
      PROVE  [p EXCEPT !.body = body] \in Sent
  BY <1>2 DEF Sent
<1> QED
  BY <1>1, <1>2

\* One packet, or two, in a row
LEMMA PacketsSent ==
    ASSUME NEW p \in Sent, NEW q \in Sent
    PROVE  /\ <<p>> \in Seq(Sent) /\ Len(<<p>>) = 1
           /\ <<p, q>> \in Seq(Sent) /\ Len(<<p, q>>) = 2
  OBVIOUS

\* A tool near the tablet sends one or two packets ...
LEMMA PositionSent ==
    ASSUME NEW h \in [Slots -> Held], NEW s \in Slots
    PROVE  Position(h, s) \in Seq(Sent) /\ Len(Position(h, s)) \in 1 .. 2
<1> DEFINE t == h[s].tool
           b == h[s].buttons
<1>1. t \in {NoTool, "FINGER"} \cup Pens \cup Mice /\ b \in SUBSET {1, 2, 4, 8}
  BY DEF Held
<1>2. 0 \in Slots /\ TRUE \in BOOLEAN
  BY DEF Slots
<1> HIDE DEF t, b
<1>3. CASE tablet.kind \in Protocol5 \cup {"TPC"} /\ t \in Pens
  <2>1. "PEN" \in PacketKinds
    BY <1>3 DEF PacketKinds
  <2>2. \E p \in Sent : Position(h, s) = <<p>>
    <3>1. Packet("PEN", 0, t, TRUE, b) \in Sent /\ Packet("PEN", s, t, TRUE, b) \in Sent
      BY <1>1, <1>2, <2>1, PacketSent
    <3>2. \/ Position(h, s) = <<Packet("PEN", 0, t, TRUE, b)>>
          \/ Position(h, s) = <<Packet("PEN", s, t, TRUE, b)>>
      <4>1. CASE tablet.kind = "TPC"
        BY <1>3, <4>1 DEF Position, t, b, Protocol5, Pens
      <4>2. CASE tablet.kind # "TPC"
        BY <1>3, <4>2 DEF Position, t, b, Protocol5, Pens
      <4> QED
        BY <4>1, <4>2
    <3> QED
      BY <3>1, <3>2
  <2> QED
    BY <2>2, PacketsSent
<1>4. CASE ~(tablet.kind \in Protocol5 \cup {"TPC"} /\ t \in Pens)
  <2>1. {"MOUSE", "ROTATION", "P4"} \subseteq PacketKinds
    BY DEF PacketKinds
  <2>2. /\ Packet("MOUSE", s, t, TRUE, b) \in Sent /\ Packet("ROTATION", s, t, TRUE, b) \in Sent
        /\ Packet("P4", 0, t, TRUE, b) \in Sent
    BY <1>1, <1>2, <2>1, PacketSent
  <2>3. \/ Position(h, s) = <<Packet("MOUSE", s, t, TRUE, b), Packet("ROTATION", s, t, TRUE, b)>>
        \/ Position(h, s) = <<Packet("MOUSE", s, t, TRUE, b)>>
        \/ Position(h, s) = <<Packet("P4", 0, t, TRUE, b)>>
    BY <1>4 DEF Position, t, b, Protocol5, Pens
  <2>4. \E p, q \in Sent : Position(h, s) = <<p, q>> \/ Position(h, s) = <<p>>
    BY <2>2, <2>3
  <2>5. PICK p \in Sent, q \in Sent : Position(h, s) = <<p, q>> \/ Position(h, s) = <<p>>
    BY <2>4
  <2>6. CASE Position(h, s) = <<p, q>>
    BY <2>6, PacketsSent
  <2>7. CASE Position(h, s) = <<p>>
    BY <2>7, PacketsSent
  <2> QED
    BY <2>5, <2>6, <2>7
<1> QED
  BY <1>3, <1>4

\* ... and one when it is taken away.
LEMMA AwaySent ==
    ASSUME hand \in [Slots -> Held], NEW s \in Slots
    PROVE  Away(s) \in Seq(Sent) /\ Len(Away(s)) = 1
<1> DEFINE t == hand[s].tool
<1>1. t \in {NoTool, "FINGER"} \cup Pens \cup Mice /\ {} \in SUBSET {1, 2, 4, 8}
  BY DEF Held
<1>2. 0 \in Slots /\ FALSE \in BOOLEAN /\ NoTool \in {NoTool, "FINGER"} \cup Pens \cup Mice
  BY DEF Slots
<1> HIDE DEF t
<1>3. {"OUT", "P4"} \subseteq PacketKinds /\ (tablet.kind = "TPC" => "PEN" \in PacketKinds)
  BY DEF PacketKinds
<1>4. /\ tablet.kind = "TPC" => Packet("PEN", 0, NoTool, FALSE, {}) \in Sent
      /\ Packet("OUT", s, NoTool, FALSE, {}) \in Sent
      /\ Packet("P4", 0, t, FALSE, {}) \in Sent
  BY <1>1, <1>2, <1>3, PacketSent
<1>5. \/ tablet.kind = "TPC" /\ Away(s) = <<Packet("PEN", 0, NoTool, FALSE, {})>>
      \/ Away(s) = <<Packet("OUT", s, NoTool, FALSE, {})>>
      \/ Away(s) = <<Packet("P4", 0, t, FALSE, {})>>
  <2>1. CASE tablet.kind = "TPC"
    BY <2>1 DEF Away, t, Protocol5
  <2>2. CASE tablet.kind # "TPC"
    BY <2>2 DEF Away, t, Protocol5
  <2> QED
    BY <2>1, <2>2
<1>6. \E p \in Sent : Away(s) = <<p>>
  BY <1>4, <1>5
<1> QED
  BY <1>6, PacketsSent

\* Where a byte is in its packet, and its packet among those sent at once
LEMMA PlaceInPacket ==
    ASSUME NEW n \in {5, 7, 9, 13}, NEW m \in 1 .. 3, NEW k \in 1 .. m * n
    PROVE  ((k - 1) \div n) + 1 \in 1 .. m /\ ((k - 1) % n) + 1 \in Nat
<1>1. m \in {1, 2, 3}
  OBVIOUS
<1>2. CASE n = 5
  BY <1>1, <1>2
<1>3. CASE n = 7
  BY <1>1, <1>3
<1>4. CASE n = 9
  BY <1>1, <1>4
<1>5. CASE n = 13
  BY <1>1, <1>5
<1> QED
  BY <1>2, <1>3, <1>4, <1>5

\* The bytes of packets are bytes.
LEMMA BytesSent ==
    ASSUME StartTypeOK, NEW packets \in Seq(Sent), Len(packets) \in 1 .. 3
    PROVE  Bytes(packets) \in Seq(Byte)
<1> DEFINE n == Length(packets[1])
           m == Len(packets)
           at(k) == ((k - 1) \div n) + 1
           i(k) == ((k - 1) % n) + 1
<1>1. n \in {5, 7, 9, 13}
  BY TouchLengths DEF Length, SerialLength
<1> HIDE DEF n
<1>2. m * n \in Nat
  BY <1>1
<1>3. ASSUME NEW k \in 1 .. m * n
      PROVE  [packet |-> packets[at(k)], i |-> i(k)] \in Byte
  <2>1. at(k) \in 1 .. m /\ i(k) \in Nat
    BY <1>1, PlaceInPacket
  <2> HIDE DEF at, i
  <2>2. packets[at(k)] \in Sent
    BY <2>1
  <2> QED
    BY <2>1, <2>2 DEF Byte
<1>4. Bytes(packets) = [k \in 1 .. m * n |-> [packet |-> packets[at(k)], i |-> i(k)]]
  BY DEF Bytes, n
<1> HIDE DEF at, i, m
<1>5. Bytes(packets) \in [1 .. m * n -> Byte]
  BY <1>3, <1>4
<1> QED
  BY <1>2, <1>5

\* What is sent goes to the wire.
LEMMA SendsStream ==
    ASSUME SerialInv, NEW packets \in Seq(Sent), Len(packets) \in 1 .. 3, Sends(packets)
    PROVE  wire' \in Seq(Byte) /\ UNCHANGED <<startVars, buffer, pos, reading>>
<1>1. Bytes(packets) \in Seq(Byte)
  BY BytesSent DEF SerialInv, StartInv
<1>2. wire \in Seq(Byte)
  BY DEF SerialInv, StreamInv
<1>3. wire \o Bytes(packets) \in Seq(Byte) /\ <<>> \in Seq(Byte)
  BY <1>1, <1>2
<1>4. wire' \in {wire \o Bytes(packets), <<>>}
  BY DEF Sends
<1>5. wire' \in Seq(Byte)
  BY <1>3, <1>4
<1> QED
  BY <1>5 DEF Sends

\* Tools, fingers and losses
LEMMA HardwareStream ==
    ASSUME SerialInv, Hardware
    PROVE  /\ hand' \in [Slots -> Held] /\ wire' \in Seq(Byte)
           /\ UNCHANGED <<tablet, buffer, pos, reading>>
<1>1. hand \in [Slots -> Held] /\ wire \in Seq(Byte)
  BY DEF SerialInv, StreamInv
<1>2. tablet.kind \in Serial \cup {"TPC"}
  BY DEF SerialInv, StartInv, StartTypeOK, Tablet
<1>3. ASSUME NEW t, NEW b \in Sendable(t)
      PROVE  b \in SUBSET {1, 2, 4, 8}
  BY <1>2, SerialAssumption DEF Sendable
<1>4. ASSUME NEW s \in Slots, NEW g \in Held
      PROVE  [hand EXCEPT ![s] = g] \in [Slots -> Held]
  BY <1>1
<1>5. Free \in Held
  BY DEF Free, Held
<1>6. ASSUME NEW s \in Slots, Enter(s)
      PROVE  /\ hand' \in [Slots -> Held] /\ wire' \in Seq(Byte)
             /\ UNCHANGED <<tablet, buffer, pos, reading>>
  <2>0. PICK t \in Tools[tablet.kind] : \E b \in Sendable(t) :
          LET h == [hand EXCEPT ![s] = [tool |-> t, buttons |-> b]]
              id == IF tablet.kind \in Protocol5 THEN <<Packet("ID", s, t, TRUE, {})>> ELSE <<>>
          IN  hand' = h /\ Sends(id \o Position(h, s))
    BY <1>6 DEF Enter
  <2>1. PICK b \in Sendable(t) :
          LET h == [hand EXCEPT ![s] = [tool |-> t, buttons |-> b]]
              id == IF tablet.kind \in Protocol5 THEN <<Packet("ID", s, t, TRUE, {})>> ELSE <<>>
          IN  hand' = h /\ Sends(id \o Position(h, s))
    BY <2>0
  <2> DEFINE h == [hand EXCEPT ![s] = [tool |-> t, buttons |-> b]]
             id == IF tablet.kind \in Protocol5 THEN <<Packet("ID", s, t, TRUE, {})>> ELSE <<>>
  <2>2. t \in {NoTool, "FINGER"} \cup Pens \cup Mice /\ b \in SUBSET {1, 2, 4, 8}
    BY <1>2, <1>3, SerialAssumption
  <2>3. h \in [Slots -> Held]
    <3>1. [tool |-> t, buttons |-> b] \in Held
      BY <2>2 DEF Held
    <3> QED
      BY <1>4, <3>1
  <2>4. id \in Seq(Sent) /\ Len(id) \in 0 .. 1
    <3>1. "ID" \in PacketKinds /\ TRUE \in BOOLEAN /\ {} \in SUBSET {1, 2, 4, 8}
      BY DEF PacketKinds
    <3>2. Packet("ID", s, t, TRUE, {}) \in Sent
      BY <2>2, <3>1, PacketSent
    <3>3. id = <<>> \/ id = <<Packet("ID", s, t, TRUE, {})>>
      OBVIOUS
    <3> HIDE DEF id
    <3>4. CASE id = <<>>
      BY <3>4
    <3>5. CASE id = <<Packet("ID", s, t, TRUE, {})>>
      <4>1. id \in Seq(Sent) /\ Len(id) = 1
        BY <3>2, <3>5, PacketsSent
      <4> QED
        BY <4>1
    <3> QED
      BY <3>3, <3>4, <3>5
  <2> HIDE DEF h, id
  <2>5. Position(h, s) \in Seq(Sent) /\ Len(Position(h, s)) \in 1 .. 2
    BY <2>3, PositionSent
  <2>6. id \o Position(h, s) \in Seq(Sent) /\ Len(id \o Position(h, s)) \in 1 .. 3
    <3> DEFINE position == Position(h, s)
    <3> HIDE DEF position
    <3>1. position \in Seq(Sent) /\ Len(position) \in 1 .. 2
      BY <2>5 DEF position
    <3>2. id \o position \in Seq(Sent) /\ Len(id \o position) = Len(id) + Len(position)
      BY <2>4, <3>1
    <3>3. Len(id) + Len(position) \in 1 .. 3
      <4>1. \A i \in 0 .. 1, j \in 1 .. 2 : i + j \in 1 .. 3
        OBVIOUS
      <4> QED
        BY <2>4, <3>1, <4>1, Zenon
    <3> QED
      BY <3>2, <3>3 DEF position
  <2>7. hand' = h /\ Sends(id \o Position(h, s))
    BY <2>1 DEF h, id
  <2> QED
    BY <2>3, <2>6, <2>7, SendsStream DEF startVars
<1>7. ASSUME NEW s \in Slots, Press(s)
      PROVE  /\ hand' \in [Slots -> Held] /\ wire' \in Seq(Byte)
             /\ UNCHANGED <<tablet, buffer, pos, reading>>
  <2>1. PICK b \in Sendable(hand[s].tool) :
          LET h == [hand EXCEPT ![s].buttons = b] IN hand' = h /\ Sends(Position(h, s))
    BY <1>7 DEF Press
  <2> DEFINE h == [hand EXCEPT ![s].buttons = b]
  <2>2. h \in [Slots -> Held]
    <3>1. [hand[s] EXCEPT !.buttons = b] \in Held
      BY <1>1, <1>3 DEF Held
    <3> QED
      BY <1>1, <3>1
  <2> HIDE DEF h
  <2>3. Position(h, s) \in Seq(Sent) /\ Len(Position(h, s)) \in 1 .. 3
    BY <2>2, PositionSent
  <2>4. hand' = h /\ Sends(Position(h, s))
    BY <2>1 DEF h
  <2> QED
    BY <2>2, <2>3, <2>4, SendsStream DEF startVars
<1>8. ASSUME NEW s \in Slots, Leave(s)
      PROVE  /\ hand' \in [Slots -> Held] /\ wire' \in Seq(Byte)
             /\ UNCHANGED <<tablet, buffer, pos, reading>>
  <2>1. hand' \in [Slots -> Held]
    BY <1>4, <1>5, <1>8 DEF Leave
  <2>2. Away(s) \in Seq(Sent) /\ Len(Away(s)) \in 1 .. 3
    BY <1>1, AwaySent
  <2>3. Sends(Away(s))
    BY <1>8 DEF Leave
  <2> QED
    BY <2>1, <2>2, <2>3, SendsStream DEF startVars
<1>9. ASSUME Touch
      PROVE  /\ hand' \in [Slots -> Held] /\ wire' \in Seq(Byte)
             /\ UNCHANGED <<tablet, buffer, pos, reading>>
  <2>1. PICK down \in SUBSET (IF tablet.sensor = 5 THEN Fingers ELSE {1}), body \in Bodies :
          /\ hand' = [hand EXCEPT ![1] = IF down = {} THEN Free
                                         ELSE [tool |-> "FINGER", buttons |-> down]]
          /\ Sends(<<[Packet("TOUCH", 1, "FINGER", down # {}, down) EXCEPT !.body = body]>>)
    BY <1>9 DEF Touch
  <2>2. down \in SUBSET {1, 2, 4, 8}
    BY <2>1 DEF Fingers
  <2>3. [tool |-> "FINGER", buttons |-> down] \in Held /\ 1 \in Slots
    BY <2>2 DEF Held, Slots
  <2>4. hand' \in [Slots -> Held]
    BY <1>4, <1>5, <2>1, <2>3
  <2> DEFINE near == down # {}
             p == [Packet("TOUCH", 1, "FINGER", near, down) EXCEPT !.body = body]
  <2>5. p \in Sent
    <3>1. near \in BOOLEAN /\ "TOUCH" \in PacketKinds
      BY <1>9 DEF Touch, PacketKinds
    <3> HIDE DEF near
    <3> QED
      BY <2>2, <2>3, <3>1, PacketSent
  <2>6. Sends(<<p>>)
    BY <2>1
  <2> HIDE DEF p
  <2>7. <<p>> \in Seq(Sent) /\ Len(<<p>>) \in 1 .. 3
    BY <2>5
  <2> QED
    BY <2>4, <2>6, <2>7, SendsStream DEF startVars
<1>10. ASSUME Lose
       PROVE  /\ hand' \in [Slots -> Held] /\ wire' \in Seq(Byte)
              /\ UNCHANGED <<tablet, buffer, pos, reading>>
  <2>1. PICK k \in 1 .. Len(wire) : wire' = RemoveAt(wire, k)
    BY <1>10 DEF Lose
  <2>2. SubSeq(wire, 1, k - 1) \in Seq(Byte) /\ SubSeq(wire, k + 1, Len(wire)) \in Seq(Byte)
    BY <1>1
  <2>3. wire' = SubSeq(wire, 1, k - 1) \o SubSeq(wire, k + 1, Len(wire))
    BY <2>1 DEF RemoveAt
  <2>4. wire' \in Seq(Byte)
    BY <2>2, <2>3
  <2> QED
    BY <1>1, <1>10, <2>4 DEF Lose, startVars
<1> QED
  BY <1>6, <1>7, <1>8, <1>9, <1>10 DEF Hardware

\* A set of naturals has a least element.
LEMMA LeastNatural ==
    ASSUME NEW T \in SUBSET Nat, T # {}
    PROVE  \E m \in T : \A n \in T : m <= n
<1>1. \E m \in T : \A n \in T : ~(<<n, m>> \in OpToRel(<, Nat))
  BY NatLessThanWellFounded, WFMin
<1>2. PICK m \in T : \A n \in T : ~(<<n, m>> \in OpToRel(<, Nat))
  BY <1>1
<1>3. ASSUME NEW n \in T
      PROVE  m <= n
  <2>1. n \in Nat /\ m \in Nat
    OBVIOUS
  <2>2. ~(n < m)
    BY <1>2, <2>1 DEF OpToRel
  <2> QED
    BY <2>1, <2>2
<1> QED
  BY <1>3

\* Of packets that begin at once the first is taken, or what comes before it
\* is skipped: never a packet's header, but at the front.
LEMMA SkipTo ==
    ASSUME NEW length \in Nat, 1 <= length
    PROVE  /\ Skip(length) \in 0 .. length
           /\ Skip(length) = 0 => IsHeader(1) /\ \A k \in 2 .. length : ~IsHeader(k)
           /\ Skip(length) # 0 =>
                /\ \A k \in 2 .. Skip(length) : ~IsHeader(k)
                /\ ~IsHeader(1) \/ \E k \in 2 .. length : IsHeader(k)
<1> DEFINE headers == {k \in 2 .. length : IsHeader(k)}
<1>1. CASE headers # {}
  <2>1. headers \in SUBSET Nat
    OBVIOUS
  <2>2. \E k \in headers : \A j \in headers : k <= j
    BY <1>1, <2>1, LeastNatural
  <2> DEFINE first == CHOOSE k \in headers : \A j \in headers : k <= j
  <2>3. first \in headers /\ \A j \in headers : first <= j
    BY <2>2
  <2>4. Skip(length) = first - 1
    BY <1>1 DEF Skip
  <2> HIDE DEF first
  <2>5. first \in 2 .. length
    BY <2>3
  <2>6. \A k \in 2 .. first - 1 : ~IsHeader(k)
    <3>1. SUFFICES ASSUME NEW k \in 2 .. first - 1, IsHeader(k)
                   PROVE  FALSE
      OBVIOUS
    <3>2. k \in headers
      BY <2>5, <3>1
    <3>3. first <= k
      BY <2>3, <3>2
    <3> QED
      BY <2>5, <3>3
  <2> QED
    BY <1>1, <2>4, <2>5, <2>6
<1>2. CASE headers = {}
  <2>1. Skip(length) = IF IsHeader(1) THEN 0 ELSE length
    BY <1>2 DEF Skip
  <2>2. \A k \in 2 .. length : ~IsHeader(k)
    BY <1>2
  <2> HIDE DEF headers
  <2> QED
    BY <2>1, <2>2
<1> QED
  BY <1>1, <1>2

\* What a parser takes is no more than there is, but on a digitizer of two
\* fingers.
LEMMA ParsedCount ==
    ASSUME SerialInv, Parse
    PROVE  LET r == IF common.model = "TPC" THEN ISDV4Parse ELSE SerialParse
           IN  /\ r.count \in Nat
               /\ TouchLength(IdOf(tablet)) # 13 => r.count <= Available
<1>1. /\ common.pktLength \in {5, 7, 9, 13} /\ common.tablet_id = IdOf(tablet)
      /\ common.model = "TPC" => tablet.kind = "TPC"
      /\ tablet.kind = "TPC" /\ TouchLength(common.tablet_id) # 13 =>
           TouchLength(common.tablet_id) <= common.pktLength
  <2>1. At("running") /\ ~trouble
    BY DEF SerialInv, QuietInv, Parse
  <2>2. Known /\ StartTypeOK
    BY <2>1 DEF SerialInv, StartInv, DialogueInv, CalmInv, At
  <2> QED
    BY <2>2 DEF Known, StartTypeOK, PacketLengths
<1>2. common.pktLength <= Available /\ Available \in Int
  <2>1. Len(buffer) \in Nat /\ pos \in Nat
    BY DEF SerialInv, StreamInv
  <2> QED
    BY <2>1 DEF Parse, Available
<1>3. /\ SerialParse.count \in Nat
      /\ SerialParse.count <= common.pktLength
  <2>1. SerialParse.count \in {Skip(common.pktLength), common.pktLength}
    BY DEF SerialParse, Result
  <2>2. Skip(common.pktLength) \in 0 .. common.pktLength
    BY <1>1, SkipTo
  <2> QED
    BY <1>1, <2>1, <2>2
<1>4. ASSUME common.model = "TPC"
      PROVE  /\ ISDV4Parse.count \in Nat
             /\ TouchLength(IdOf(tablet)) # 13 => ISDV4Parse.count <= Available
  <2> DEFINE like == LooksLike
             length == IF like = "zero" THEN common.pktLength
                       ELSE IF like = "touch" THEN TouchLength(common.tablet_id) ELSE 9
  <2>1. length \in {5, 7, 9, 13}
    BY <1>1, TouchLengths
  <2>2. Skip(length) \in 0 .. length
    <3> HIDE DEF length
    <3> QED
      BY <2>1, SkipTo
  <2>3. \/ ISDV4Parse.count = length /\ like = "touch"
        \/ ISDV4Parse.count = 0
        \/ ISDV4Parse.count \in {length, Skip(length)} /\ length <= Available
    BY <1>2, <2>1 DEF ISDV4Parse, Result, Complete
  <2>4. TouchLength(IdOf(tablet)) # 13 /\ like = "touch" => length <= common.pktLength
    BY <1>1, <1>4
  <2> HIDE DEF length, like
  <2> QED
    BY <1>1, <1>2, <2>1, <2>2, <2>3, <2>4
<1> QED
  BY <1>1, <1>2, <1>3, <1>4

\* The reader
LEMMA ReaderStream ==
    ASSUME SerialInv, Read \/ Parse \/ Drained
    PROVE  /\ wire' \in Seq(Byte) /\ buffer' \in Seq(Byte)
           /\ pos' \in Nat /\ reading' \in BOOLEAN
           /\ UNCHANGED <<tablet, hand>>
<1>1. wire \in Seq(Byte) /\ buffer \in Seq(Byte) /\ pos \in Nat /\ reading \in BOOLEAN
  BY DEF SerialInv, StreamInv
<1>2. ASSUME EndRead
      PROVE  buffer' \in Seq(Byte) /\ pos' \in Nat /\ reading' \in BOOLEAN
  <2>1. SubSeq(buffer, pos + 1, Len(buffer)) \in Seq(Byte)
    BY <1>1
  <2> QED
    BY <1>2, <2>1 DEF EndRead
<1>3. CASE Read
  <2>1. PICK n \in 1 .. Len(wire) : /\ buffer' = buffer \o SubSeq(wire, 1, n)
                                    /\ wire' = SubSeq(wire, n + 1, Len(wire))
    BY <1>3 DEF Read, Ends
  <2>2. SubSeq(wire, 1, n) \in Seq(Byte) /\ SubSeq(wire, n + 1, Len(wire)) \in Seq(Byte)
    BY <1>1
  <2>3. buffer' \in Seq(Byte)
    BY <1>1, <2>1, <2>2
  <2> QED
    BY <1>3, <2>1, <2>2, <2>3 DEF Read, startVars
<1>4. CASE Drained
  BY <1>1, <1>2, <1>4 DEF Drained, startVars
<1>5. CASE Parse
  <2> DEFINE r == IF common.model = "TPC" THEN ISDV4Parse ELSE SerialParse
  <2>1. r.count \in Nat
    BY <1>5, ParsedCount
  <2>2. /\ IF r.count = 0 THEN EndRead ELSE pos' = pos + r.count /\ UNCHANGED <<buffer, reading>>
        /\ UNCHANGED <<tablet, hand, wire>>
    BY <1>5 DEF Parse
  <2> HIDE DEF r
  <2>3. CASE r.count = 0
    BY <1>1, <1>2, <2>2, <2>3
  <2>4. CASE r.count # 0
    BY <1>1, <2>1, <2>2, <2>4
  <2> QED
    BY <2>3, <2>4
<1> QED
  BY <1>3, <1>4, <1>5

\* The hand, the wire and the buffer, step by step
LEMMA SerialStream ==
    ASSUME SerialInv, SerialNext
    PROVE  StreamInv'
<1>1. SameTablet
  BY TabletStays
<1>2. Byte' = Byte
  <2>1. PacketKinds' = PacketKinds
    BY <1>1 DEF PacketKinds, SameTablet
  <2> QED
    BY <2>1 DEF Byte, Sent
<1>3. /\ hand \in [Slots -> Held] /\ wire \in Seq(Byte) /\ buffer \in Seq(Byte)
      /\ pos \in Nat /\ reading \in BOOLEAN /\ <<>> \in Seq(Byte)
  BY DEF SerialInv, StreamInv
<1>4. CASE OpenPort \/ StartUp \/ ClosePort
  <2>1. UNCHANGED <<hand, buffer, pos, reading>> /\ wire' \in {wire, <<>>}
    BY <1>4 DEF OpenPort, StartUp, ClosePort, Idle
  <2> QED
    BY <1>2, <1>3, <2>1 DEF StreamInv
<1>5. CASE Hardware
  BY <1>2, <1>3, <1>5, HardwareStream DEF StreamInv
<1>6. CASE Read \/ Parse \/ Drained
  BY <1>2, <1>3, <1>6, ReaderStream DEF StreamInv
<1> QED
  BY <1>4, <1>5, <1>6 DEF SerialNext

\* The invariant holds of a port that was never opened, ...
LEMMA SerialBegins ==
    ASSUME SerialInit
    PROVE  SerialInv
<1>1. tablet \in Tablets /\ tablet \in Tablet
  BY StartAssumption DEF SerialInit, StartInit
<1>2. StartInit
  BY DEF SerialInit
<1>3. LinkSpeeds \subseteq Speeds /\ TouchModes \subseteq BOOLEAN
  BY StartAssumption
<1>4. common \in CommonRec /\ common.isdv4Speed = 38400
  <2>1. common.isdv4Speed = 38400
    BY <1>2 DEF StartInit
  <2>2. common \in CommonRec
    BY <1>2, <1>3 DEF StartInit, CommonRec, PacketLengths
  <2> QED
    BY <2>1, <2>2
<1>5. /\ port = 9600 /\ answers = <<>> /\ step = "closed" /\ penFound = FALSE /\ trouble = FALSE
      /\ hand = [s \in Slots |-> Free] /\ wire = <<>> /\ buffer = <<>> /\ pos = 0
      /\ reading = FALSE
  BY DEF SerialInit, StartInit
<1>6. StartTypeOK
  <2>1. port \in Speeds /\ step \in Steps
    BY <1>5 DEF Speeds, Steps
  <2>3. penFound \in BOOLEAN /\ trouble \in BOOLEAN
    <3>1. penFound = FALSE /\ trouble = FALSE
      BY <1>5
    <3> QED
      BY <3>1
  <2>2. answers \in Seq({"model", "config", "coord", "pen", "touch", "data"})
    BY <1>5
  <2> QED
    BY <1>1, <1>4, <2>1, <2>2, <2>3 DEF StartTypeOK, CommonRec
<1>7. LinkInv
  <2>1. /\ tablet.old => tablet.kind = "GD"
        /\ tablet.kind = "TPC" =>
             (tablet.pen \/ tablet.sensor # NoSensor) /\ tablet.speed \in {19200, 38400}
    BY <1>1, StartAssumption
  <2> QED
    BY <1>4, <1>5, <2>1 DEF LinkInv, SerialSteps
<1>8. DialogueInv
  BY <1>5 DEF DialogueInv, ResetInv, CalmInv, At
<1>9. StreamInv
  <2>1. Free \in Held
    BY DEF Free, Held
  <2>2. hand \in [Slots -> Held] /\ wire \in Seq(Byte) /\ buffer \in Seq(Byte)
    BY <1>5, <2>1
  <2>3. pos \in Nat /\ reading \in BOOLEAN
    <3>1. reading = FALSE
      BY <1>5
    <3>2. pos = 0
      BY <1>5
    <3>3. reading \in BOOLEAN
      BY <3>1
    <3> QED
      BY <3>2, <3>3
  <2> QED
    BY <2>2, <2>3 DEF StreamInv
<1> QED
  BY <1>5, <1>6, <1>7, <1>8, <1>9 DEF SerialInv, StartInv, QuietInv

\* ... and through every step, and through none.
LEMMA SerialSteady ==
    ASSUME SerialInv, [SerialNext /\ CarefulUser]_serialVars
    PROVE  SerialInv'
<1>1. CASE SerialNext /\ CarefulUser
  BY <1>1, SerialStart, SerialQuiet, SerialStream DEF SerialInv
<1>2. CASE UNCHANGED serialVars
  <2>1. UNCHANGED <<tablet, port, answers, step, penFound, trouble, common>>
    BY <1>2 DEF serialVars, startVars
  <2>2. UNCHANGED <<hand, wire, buffer, pos, reading>>
    BY <1>2 DEF serialVars, readVars
  <2>3. StartInv'
    BY <2>1 DEF SerialInv, StartInv, StartTypeOK, LinkInv, DialogueInv, ResetInv, CalmInv, Known,
                PenlessId, Heard, At
  <2>4. QuietInv'
    BY <2>1, <2>2 DEF SerialInv, QuietInv, At
  <2>5. StreamInv'
    <3>1. Byte' = Byte
      BY <2>1 DEF Byte, Sent, PacketKinds
    <3> QED
      BY <2>2, <3>1 DEF SerialInv, StreamInv
  <2> QED
    BY <2>3, <2>4, <2>5 DEF SerialInv
<1> QED
  BY <1>1, <1>2

\* The dialogue's invariant, what is near the tablet, and the bytes: xf86WcmOpen
\* to xf86WcmReadPacket (WacomStart and WacomSerial).
THEOREM SerialInvariant == CarefulSpec => []SerialInv
  BY SerialBegins, SerialSteady, PTL DEF CarefulSpec

\* A tablet that runs hears the driver at the port's speed, sends, and is known
\* for what it is, unless an answer was late or a write has failed
\* (serialInit, isdv4Init, xf86WcmInitTablet).
THEOREM TabletInStep == CarefulSpec => []RunningInStep
<1>1. SerialInv => RunningInStep
  BY DEF SerialInv, StartInv, DialogueInv, CalmInv, Known, RunningInStep, At
<1> QED
  BY <1>1, SerialInvariant, PTL

\* A tablet that answers in time is not given up (serialInit, isdv4Init).
THEOREM NotGivenUp == CarefulSpec => []OpensWhenAnswered
<1>1. SerialInv => OpensWhenAnswered
  BY DEF SerialInv, StartInv, DialogueInv, ResetInv, OpensWhenAnswered, At
<1> QED
  BY <1>1, SerialInvariant, PTL

\* How far the reader is in a tablet's bytes
UnreadInv == TouchLength(IdOf(tablet)) # 13 /\ KeepsUnread /\ (~reading => pos = 0)

\* Where the reader is stays within the buffer through every step.
LEMMA UnreadSteady ==
    ASSUME SerialInv, UnreadInv, [SerialNext /\ CarefulUser]_serialVars
    PROVE  UnreadInv'
<1>1. /\ wire \in Seq(Byte) /\ buffer \in Seq(Byte) /\ pos \in Nat /\ reading \in BOOLEAN
      /\ Len(buffer) \in Nat
  BY DEF SerialInv, StreamInv
<1>2. TouchLength(IdOf(tablet'))= TouchLength(IdOf(tablet))
  <2>1. CASE SerialNext
    BY <2>1, TabletStays DEF SameTablet
  <2>2. CASE UNCHANGED serialVars
    BY <2>2 DEF serialVars, startVars
  <2> QED
    BY <2>1, <2>2
<1>3. ASSUME UNCHANGED <<buffer, pos, reading>>
      PROVE  UnreadInv'
  BY <1>2, <1>3 DEF UnreadInv, KeepsUnread
<1>4. ASSUME EndRead
      PROVE  UnreadInv'
  <2>1. SubSeq(buffer, pos + 1, Len(buffer)) \in Seq(Byte)
    BY <1>1
  <2>2. Len(buffer') \in Nat /\ pos' = 0
    BY <1>4, <2>1 DEF EndRead
  <2> QED
    BY <1>2, <2>2 DEF UnreadInv, KeepsUnread
<1>5. CASE OpenPort \/ StartUp \/ ClosePort
  BY <1>3, <1>5 DEF OpenPort, StartUp, ClosePort, Idle
<1>6. CASE Hardware
  BY <1>3, <1>6, HardwareStream
<1>7. CASE Read
  <2>1. buffer' \in Seq(Byte) /\ pos' = 0
    BY <1>7, ReaderStream DEF Read
  <2>2. Len(buffer') \in Nat
    BY <2>1
  <2> QED
    BY <1>2, <2>1, <2>2 DEF UnreadInv, KeepsUnread
<1>8. CASE Drained
  BY <1>4, <1>8 DEF Drained
<1>9. CASE Parse
  <2> DEFINE r == IF common.model = "TPC" THEN ISDV4Parse ELSE SerialParse
  <2>1. r.count \in Nat /\ r.count <= Available
    BY <1>9, ParsedCount DEF UnreadInv
  <2>2. IF r.count = 0 THEN EndRead ELSE pos' = pos + r.count /\ UNCHANGED <<buffer, reading>>
    BY <1>9 DEF Parse
  <2> HIDE DEF r
  <2>3. CASE r.count = 0
    BY <1>4, <2>2, <2>3
  <2>4. CASE r.count # 0
    <3>1. pos' <= Len(buffer') /\ reading' = reading /\ reading
      BY <1>1, <1>9, <2>1, <2>2, <2>4 DEF Available, Parse
    <3> QED
      BY <1>2, <3>1 DEF UnreadInv, KeepsUnread
  <2> QED
    BY <2>3, <2>4
<1>10. CASE UNCHANGED serialVars
  BY <1>3, <1>10 DEF serialVars, readVars
<1> QED
  BY <1>5, <1>6, <1>7, <1>8, <1>9, <1>10 DEF SerialNext

\* The parsers of a tablet that is not a digitizer of two fingers take no more
\* bytes than there are: isdv4Parse of one that is may (xf86WcmReadPacket).
THEOREM UnreadIsKept ==
    CarefulSpec /\ TouchLength(IdOf(tablet)) # 13 => []KeepsUnread
<1>1. SerialInit /\ TouchLength(IdOf(tablet)) # 13 => UnreadInv
  BY DEF SerialInit, UnreadInv, KeepsUnread
<1>2. UnreadInv => KeepsUnread
  BY DEF UnreadInv
<1> QED
  BY <1>1, <1>2, SerialInvariant, UnreadSteady, PTL DEF CarefulSpec

\* A step that skips bytes of a serial tablet skips no packet that is whole.
WholeStep ==
    reading /\ reading' /\ pos' > pos /\ common.model # "TPC" =>
      \A k \in pos + 1 .. pos' :
        LET n == Length(buffer[k].packet)
        IN  /\ k + n - 1 <= Len(buffer)
            /\ \A i \in 1 .. n : buffer[k + i - 1] = [packet |-> buffer[k].packet, i |-> i]
            => k = pos + 1 /\ pos' = pos + n /\ Skip(common.pktLength) = 0

\* All packets of a serial tablet have the length that the driver knows.
LEMMA SerialLengths ==
    ASSUME SerialInv, Known, common.model # "TPC", At("running")
    PROVE  /\ common.pktLength \in {7, 9}
           /\ \A p \in Sent : Length(p) = common.pktLength
<1>1. tablet.kind # "TPC"
  BY DEF SerialInv, StartInv, LinkInv, At
<1>2. common.pktLength = SerialLength(tablet.kind)
  BY <1>1 DEF Known
<1>3. ASSUME NEW p \in Sent
      PROVE  Length(p) = SerialLength(tablet.kind)
  <2>1. p.kind \in PacketKinds
    BY DEF Sent
  <2>2. p.kind # "TOUCH" /\ (p.kind = "PEN" => tablet.kind \in Protocol5)
    BY <1>1, <2>1 DEF PacketKinds
  <2> QED
    BY <2>2 DEF Length, SerialLength, Protocol5
<1> QED
  BY <1>2, <1>3 DEF SerialLength

\* A step that takes bytes of a serial tablet is a parser's: it takes a packet
\* at the front, or what comes before the next header.
LEMMA WholeSteady ==
    ASSUME SerialInv, [SerialNext /\ CarefulUser]_serialVars
    PROVE  WholeStep
<1>1. SUFFICES ASSUME reading, reading', pos' > pos, common.model # "TPC"
               PROVE  WholeStep
  BY DEF WholeStep
<1>2. /\ buffer \in Seq(Byte) /\ pos \in Nat /\ Len(buffer) \in Nat
      /\ At("running") /\ ~trouble
  BY <1>1 DEF SerialInv, StreamInv, QuietInv
<1>3. Known
  BY <1>2 DEF SerialInv, StartInv, DialogueInv, CalmInv, At
<1>4. Parse
  <2>1. ~(OpenPort \/ StartUp \/ ClosePort \/ Read)
    BY <1>1 DEF OpenPort, StartUp, ClosePort, Idle, Read
  <2>2. ~Drained
    BY <1>1 DEF Drained, EndRead
  <2>3. Hardware => pos' = pos
    BY HardwareStream
  <2>4. UNCHANGED serialVars => pos' = pos
    BY DEF serialVars, readVars
  <2>5. pos' # pos
    BY <1>1, <1>2
  <2> QED
    BY <2>1, <2>2, <2>3, <2>4, <2>5 DEF SerialNext
<1> DEFINE L == common.pktLength
<1>5. L \in {7, 9} /\ \A p \in Sent : Length(p) = L
  BY <1>1, <1>2, <1>3, SerialLengths
<1>6. /\ Skip(L) \in 0 .. L
      /\ Skip(L) = 0 => IsHeader(1) /\ \A k \in 2 .. L : ~IsHeader(k)
      /\ Skip(L) # 0 =>
           /\ \A k \in 2 .. Skip(L) : ~IsHeader(k)
           /\ ~IsHeader(1) \/ \E k \in 2 .. L : IsHeader(k)
  <2> HIDE DEF L
  <2> QED
    BY <1>5, SkipTo
<1>7. pos' = pos + (IF Skip(L) = 0 THEN L ELSE Skip(L))
  <2>1. SerialParse.count = IF Skip(L) > 0 THEN Skip(L) ELSE L
    BY DEF SerialParse, Result
  <2>2. IF SerialParse.count = 0 THEN EndRead ELSE pos' = pos + SerialParse.count
    BY <1>1, <1>4 DEF Parse
  <2>3. ~EndRead
    BY <1>1 DEF EndRead
  <2> QED
    BY <1>6, <2>1, <2>2, <2>3
<1> HIDE DEF L
<1>8. ASSUME NEW k \in pos + 1 .. pos', k + L - 1 <= Len(buffer),
             \A i \in 1 .. L : buffer[k + i - 1] = [packet |-> buffer[k].packet, i |-> i]
      PROVE  k = pos + 1 /\ pos' = pos + L /\ Skip(L) = 0
  <2>1. pos' \in Nat /\ k \in Nat
    BY <1>2, <1>5, <1>6, <1>7
  <2>2. \A i \in 1 .. L : buffer[k + i - 1].i = i
    <3>1. SUFFICES ASSUME NEW j \in 1 .. L
                   PROVE  buffer[k + j - 1].i = j
      OBVIOUS
    <3>2. buffer[k + j - 1] = [packet |-> buffer[k].packet, i |-> j]
      BY <1>8
    <3> QED
      BY <3>2
  <2> DEFINE h == k - pos
  <2>3. h \in 1 .. (IF Skip(L) = 0 THEN L ELSE Skip(L)) /\ k = pos + h
    BY <1>2, <1>5, <1>6, <1>7, <2>1
  <2> HIDE DEF h
  <2>4. IsHeader(h)
    <3>1. 1 \in 1 .. L /\ k + 1 - 1 = pos + h
      BY <1>5, <2>1, <2>3
    <3>2. buffer[pos + h].i = 1
      BY <2>2, <3>1
    <3>3. h <= Available
      BY <1>2, <1>5, <1>6, <1>8, <2>1, <2>3 DEF Available
    <3> QED
      BY <3>2, <3>3 DEF IsHeader
  <2>5. h = 1
    BY <1>5, <1>6, <2>3, <2>4
  <2>6. \A j \in 2 .. L : ~IsHeader(j)
    <3>1. SUFFICES ASSUME NEW j \in 2 .. L
                   PROVE  ~IsHeader(j)
      OBVIOUS
    <3>2. j \in 1 .. L /\ k + j - 1 = pos + j
      BY <1>2, <1>5, <2>3, <2>5
    <3>3. buffer[pos + j].i = j /\ j # 1
      BY <1>5, <2>2, <3>2
    <3> QED
      BY <3>3 DEF IsHeader
  <2>7. Skip(L) = 0
    BY <1>6, <2>4, <2>5, <2>6
  <2> QED
    BY <1>7, <2>3, <2>5, <2>7
<1>9. ASSUME NEW k \in pos + 1 .. pos', k + Length(buffer[k].packet) - 1 <= Len(buffer)
      PROVE  Length(buffer[k].packet) = L
  <2>1. Skip(L) \in Nat /\ L \in Nat
    BY <1>5, <1>6
  <2>2. pos' \in Nat /\ k \in Nat /\ 1 <= k
    BY <1>2, <1>7, <2>1
  <2>3. CASE k \in 1 .. Len(buffer)
    <3>1. buffer[k] \in Byte
      BY <1>2, <2>3
    <3>2. buffer[k].packet \in Sent
      BY <3>1 DEF Byte
    <3> QED
      BY <1>5, <3>2
  <2>4. CASE k \notin 1 .. Len(buffer)
    <3>1. Len(buffer) < k
      BY <1>2, <2>2, <2>4
    <3>2. k <= pos + L
      BY <1>2, <1>5, <1>6, <1>7, <2>2
    <3>3. L <= Len(buffer) - pos
      BY <1>4 DEF Parse, Available, L
    <3> QED
      BY <1>2, <1>5, <2>2, <3>1, <3>2, <3>3
  <2> QED
    BY <2>3, <2>4
<1> QED
  <2>1. SUFFICES ASSUME NEW k \in pos + 1 .. pos',
                        k + Length(buffer[k].packet) - 1 <= Len(buffer),
                        \A i \in 1 .. Length(buffer[k].packet) :
                          buffer[k + i - 1] = [packet |-> buffer[k].packet, i |-> i]
                 PROVE  k = pos + 1 /\ pos' = pos + Length(buffer[k].packet) /\ Skip(L) = 0
    BY DEF WholeStep, L
  <2>2. Length(buffer[k].packet) = L
    BY <1>9, <2>1
  <2> QED
    BY <1>8, <2>1, <2>2

\* After a byte of a serial tablet is lost the reader falls into step again:
\* no packet that arrived whole is skipped (xf86WcmSerialValidate).
THEOREM WholeParsed == CarefulSpec => WholeIsParsed
<1>1. SerialInv /\ [SerialNext /\ CarefulUser]_serialVars => [WholeStep]_serialVars
  BY WholeSteady
<1>2. WholeIsParsed <=> [][WholeStep]_serialVars
  BY DEF WholeIsParsed, WholeStep
<1> HIDE DEF WholeStep
<1> QED
  BY <1>1, <1>2, SerialInvariant, PTL DEF CarefulSpec

-----------------------------------------------------------------------------
(* What has been sent and not yet parsed is whole packets, if no byte was  *)
(* lost: where each of them ends says how the bytes are to be cut.         *)

Rest == SubSeq(buffer, pos + 1, Len(buffer)) \o wire

\* Each of the packets ends at a place of its own ...
Cut(e, r, packets) ==
    /\ e \in [0 .. Len(packets) -> Nat]
    /\ e[0] = 0 /\ e[Len(packets)] = Len(r)
    /\ \A j, k \in 0 .. Len(packets) : j <= k => e[j] <= e[k]
    /\ \A j \in 1 .. Len(packets) :
         /\ e[j] = e[j - 1] + Length(packets[j])
         /\ \A i \in 1 .. Length(packets[j]) :
              r[e[j - 1] + i] = [packet |-> packets[j], i |-> i]

\* ... so that the bytes are those of the packets, one after the other.
Stream(r, packets) == \E e : Cut(e, r, packets)

\* Adding and subtracting a packet's length
LEMMA Later ==
    ASSUME NEW a \in Nat, NEW x \in Nat, NEW y \in Nat, NEW n \in {5, 7, 9, 13}, x = y + n
    PROVE  a + x = a + y + n
  OBVIOUS

\* A packet's bytes are within what it ends no later than.
LEMMA Within ==
    ASSUME NEW x \in Nat, NEW y \in Nat, NEW n \in {5, 7, 9, 13}, x = y + n,
           NEW l \in Nat, x <= l, NEW i \in 1 .. n
    PROVE  y + i \in 1 .. l
  OBVIOUS

\* ... and the same after a bytes were taken.
LEMMA Earlier ==
    ASSUME NEW a \in Nat, NEW x \in Nat, NEW y \in Nat, NEW n \in {5, 7, 9, 13}, x = y + n
    PROVE  x - a = y - a + n
  OBVIOUS

\* Every packet has one of the known lengths.
LEMMA LengthIs ==
    ASSUME NEW p
    PROVE  Length(p) \in {5, 7, 9, 13}
  BY TouchLengths DEF Length, SerialLength

\* No packets are no bytes, ...
LEMMA StreamStarts == Stream(<<>>, <<>>)
<1> DEFINE e == [j \in 0 .. 0 |-> 0]
<1>1. Len(<<>>) = 0
  OBVIOUS
<1>2. e \in [0 .. Len(<<>>) -> Nat] /\ e[0] = 0 /\ e[Len(<<>>)] = Len(<<>>)
  BY <1>1
<1>3. \A j, k \in 0 .. Len(<<>>) : j <= k => e[j] <= e[k]
  BY <1>1
<1>4. 1 .. Len(<<>>) = {}
  BY <1>1
<1> HIDE DEF e
<1>5. Cut(e, <<>>, <<>>)
  BY <1>2, <1>3, <1>4 DEF Cut
<1> QED
  BY <1>5 DEF Stream

\* ... and the other way round.
LEMMA StreamEnds ==
    ASSUME NEW r \in Seq(Byte), NEW packets \in Seq(Sent), Stream(r, packets)
    PROVE  r = <<>> <=> packets = <<>>
<1>0. PICK e : Cut(e, r, packets)
  BY DEF Stream
<1>1. /\ e \in [0 .. Len(packets) -> Nat]
      /\ e[0] = 0 /\ e[Len(packets)] = Len(r)
      /\ \A j, k \in 0 .. Len(packets) : j <= k => e[j] <= e[k]
      /\ \A j \in 1 .. Len(packets) :
           /\ e[j] = e[j - 1] + Length(packets[j])
           /\ \A i \in 1 .. Length(packets[j]) :
                r[e[j - 1] + i] = [packet |-> packets[j], i |-> i]
  BY <1>0 DEF Cut
<1>2. CASE packets = <<>>
  <2>1. Len(r) = 0
    BY <1>1, <1>2
  <2> QED
    BY <1>2, <2>1
<1>3. CASE packets # <<>>
  <2>1. Len(packets) \in Nat /\ 1 <= Len(packets)
    BY <1>3
  <2>2. e[1] = e[0] + Length(packets[1]) /\ e[1] <= e[Len(packets)]
    <3>1. 1 \in 1 .. Len(packets) /\ 1 \in 0 .. Len(packets) /\ Len(packets) \in 0 .. Len(packets)
      BY <2>1
    <3>2. 1 - 1 = 0
      OBVIOUS
    <3> QED
      BY <1>1, <2>1, <3>1, <3>2
  <2>3. 1 <= Len(r)
    <3>1. Length(packets[1]) \in {5, 7, 9, 13}
      BY LengthIs
    <3> QED
      BY <1>1, <2>2, <3>1
  <2> QED
    BY <1>3, <2>3
<1> QED
  BY <1>2, <1>3

\* Bytes sent after others
LEMMA StreamJoins ==
    ASSUME NEW r \in Seq(Byte), NEW packets \in Seq(Sent), Stream(r, packets),
           NEW u \in Seq(Byte), NEW more \in Seq(Sent), Stream(u, more)
    PROVE  Stream(r \o u, packets \o more)
<1> DEFINE m == Len(packets)
           l == Len(more)
<1>13. PICK e : Cut(e, r, packets)
  BY DEF Stream
<1>1. /\ e \in [0 .. m -> Nat]
      /\ e[0] = 0 /\ e[m] = Len(r)
      /\ \A j, k \in 0 .. m : j <= k => e[j] <= e[k]
      /\ \A j \in 1 .. m :
           /\ e[j] = e[j - 1] + Length(packets[j])
           /\ \A i \in 1 .. Length(packets[j]) :
                r[e[j - 1] + i] = [packet |-> packets[j], i |-> i]
  BY <1>13 DEF Cut
<1>14. PICK f : Cut(f, u, more)
  BY DEF Stream
<1>2. /\ f \in [0 .. l -> Nat]
      /\ f[0] = 0 /\ f[l] = Len(u)
      /\ \A j, k \in 0 .. l : j <= k => f[j] <= f[k]
      /\ \A j \in 1 .. l :
           /\ f[j] = f[j - 1] + Length(more[j])
           /\ \A i \in 1 .. Length(more[j]) :
                u[f[j - 1] + i] = [packet |-> more[j], i |-> i]
  BY <1>14 DEF Cut
<1> DEFINE all == packets \o more
           bytes == r \o u
           g == [j \in 0 .. m + l |-> IF j <= m THEN e[j] ELSE Len(r) + f[j - m]]
<1>3. /\ m \in Nat /\ l \in Nat /\ Len(all) = m + l
      /\ \A j \in 1 .. m : all[j] = packets[j]
      /\ \A j \in 1 .. l : all[m + j] = more[j]
  OBVIOUS
<1>4. Len(r) \in Nat /\ Len(u) \in Nat /\ Len(bytes) = Len(r) + Len(u)
  OBVIOUS
<1>12. /\ \A j \in 1 .. Len(r) : bytes[j] = r[j]
      /\ \A j \in 1 .. Len(u) : bytes[Len(r) + j] = u[j]
  OBVIOUS
<1> HIDE DEF m, l, all, bytes
<1>15. \A j \in 0 .. m + l : ~(j <= m) => g[j] = Len(r) + f[j - m]
  OBVIOUS
<1>5. g \in [0 .. m + l -> Nat]
  <2>1. ASSUME NEW j \in 0 .. m + l
        PROVE  g[j] \in Nat
    <3>1. CASE j <= m
      BY <1>1, <1>3, <3>1
    <3>2. CASE ~(j <= m)
      <4>1. j - m \in 0 .. l /\ g[j] = Len(r) + f[j - m]
        BY <1>3, <3>2
      <4> QED
        BY <1>2, <1>4, <4>1
    <3> QED
      BY <3>1, <3>2
  <2> QED
    BY <2>1
<1>6. \A j \in 0 .. m : g[j] = e[j]
  BY <1>3
<1>7. ASSUME NEW j \in 0 .. l
      PROVE  g[m + j] = Len(r) + f[j]
  <2>1. CASE j = 0
    BY <1>1, <1>2, <1>3, <1>4, <2>1
  <2>2. CASE j # 0
    <3>1. m + j \in 0 .. m + l /\ ~(m + j <= m) /\ m + j - m = j
      BY <1>3, <2>2
    <3> DEFINE k == m + j
    <3> HIDE DEF g, k
    <3>2. g[k] = Len(r) + f[k - m]
      BY <1>15, <3>1 DEF k
    <3>3. k = m + j /\ k - m = j
      BY <1>3, <3>1 DEF k
    <3> QED
      BY <3>2, <3>3, Zenon
  <2> QED
    BY <2>1, <2>2
<1> HIDE DEF g
<1>8. g[0] = 0 /\ g[m + l] = Len(bytes)
  <2>1. 0 \in 0 .. m /\ l \in 0 .. l
    BY <1>3
  <2>2. g[0] = e[0] /\ g[m + l] = Len(r) + f[l]
    BY <1>6, <1>7, <2>1
  <2> QED
    BY <1>1, <1>2, <1>4, <2>2
<1>9. ASSUME NEW j \in 0 .. m + l, NEW k \in 0 .. m + l, j <= k
      PROVE  g[j] <= g[k]
  <2>1. CASE k <= m
    <3>1. j \in 0 .. m /\ k \in 0 .. m
      BY <1>3, <1>9, <2>1
    <3> QED
      BY <1>1, <1>6, <1>9, <3>1
  <2>2. CASE ~(k <= m) /\ j <= m
    <3>1. j \in 0 .. m /\ m \in 0 .. m /\ j <= m
      BY <1>3, <2>2
    <3>2. g[j] = e[j] /\ e[j] <= e[m] /\ e[j] \in Nat
      BY <1>1, <1>6, <3>1
    <3>3. k - m \in 0 .. l /\ m + (k - m) = k
      BY <1>3, <2>2
    <3>4. g[k] = Len(r) + f[k - m] /\ f[k - m] \in Nat
      BY <1>2, <1>7, <3>3
    <3> QED
      BY <1>1, <1>4, <3>2, <3>4
  <2>3. CASE ~(k <= m) /\ ~(j <= m)
    <3>0. m \in Nat /\ l \in Nat
      BY <1>3
    <3>1. /\ k - m \in 0 .. l /\ m + (k - m) = k
          /\ j - m \in 0 .. l /\ m + (j - m) = j /\ j - m <= k - m
      BY <1>9, <2>3, <3>0
    <3>2. g[k] = Len(r) + f[k - m] /\ g[j] = Len(r) + f[j - m]
      <4>1. g[m + (k - m)] = Len(r) + f[k - m] /\ g[m + (j - m)] = Len(r) + f[j - m]
        BY <1>7, <3>1
      <4> QED
        BY <3>1, <4>1
    <3>3. f[j - m] <= f[k - m] /\ f[j - m] \in Nat /\ f[k - m] \in Nat
      BY <1>2, <3>1
    <3> QED
      BY <1>4, <3>2, <3>3
  <2> QED
    BY <2>1, <2>2, <2>3
<1>10. ASSUME NEW j \in 1 .. m + l
       PROVE  /\ g[j] = g[j - 1] + Length(all[j])
              /\ \A i \in 1 .. Length(all[j]) :
                   bytes[g[j - 1] + i] = [packet |-> all[j], i |-> i]
  <2>1. CASE j <= m
    <3>1. j \in 1 .. m /\ j - 1 \in 0 .. m /\ j \in 0 .. m /\ m \in 0 .. m
      BY <1>3, <2>1
    <3>2. all[j] = packets[j] /\ g[j] = e[j] /\ g[j - 1] = e[j - 1] /\ e[j - 1] \in Nat
      BY <1>1, <1>3, <1>6, <3>1
    <3>3. e[j] = e[j - 1] + Length(packets[j]) /\ e[j] <= Len(r)
      BY <1>1, <3>1
    <3>4. ASSUME NEW i \in 1 .. Length(packets[j])
          PROVE  bytes[e[j - 1] + i] = [packet |-> packets[j], i |-> i]
      <4>0. Length(packets[j]) \in {5, 7, 9, 13}
        BY LengthIs
      <4>2. e[j] \in Nat
        BY <1>1, <3>1
      <4>1. e[j - 1] + i \in 1 .. Len(r)
        BY <1>4, <3>2, <3>3, <4>0, <4>2, Within
      <4> QED
        BY <1>1, <1>12, <3>1, <4>1
    <3> QED
      BY <3>2, <3>3, <3>4
  <2>2. CASE ~(j <= m)
    <3> DEFINE k == j - m
    <3>1. k \in 1 .. l /\ k - 1 \in 0 .. l /\ k \in 0 .. l /\ l \in 0 .. l /\ m + k = j /\ m + (k - 1) = j - 1
      BY <1>3, <2>2
    <3> HIDE DEF k
    <3>2. /\ all[j] = more[k] /\ g[j] = Len(r) + f[k] /\ g[j - 1] = Len(r) + f[k - 1]
          /\ f[k - 1] \in Nat /\ f[k] \in Nat
      <4>1. all[m + k] = more[k]
        BY <1>3, <3>1
      <4>2. g[m + k] = Len(r) + f[k] /\ g[m + (k - 1)] = Len(r) + f[k - 1]
        BY <1>7, <3>1
      <4> QED
        BY <1>2, <3>1, <4>1, <4>2
    <3>3. f[k] = f[k - 1] + Length(more[k]) /\ f[k] <= Len(u)
      BY <1>2, <3>1
    <3>4. ASSUME NEW i \in 1 .. Length(more[k])
          PROVE  bytes[Len(r) + f[k - 1] + i] = [packet |-> more[k], i |-> i]
      <4>1. f[k - 1] + i \in 1 .. Len(u) /\ Len(r) + f[k - 1] + i = Len(r) + (f[k - 1] + i)
        <5>1. Length(more[k]) \in {5, 7, 9, 13}
          BY LengthIs
        <5>2. f[k - 1] + i \in 1 .. Len(u)
          BY <1>4, <3>2, <3>3, <5>1, Within
        <5>3. i \in Nat
          BY <5>1
        <5>4. \A a, b, c \in Nat : a + b + c = a + (b + c)
          OBVIOUS
        <5> QED
          BY <1>4, <3>2, <5>2, <5>3, <5>4
      <4>2. bytes[Len(r) + (f[k - 1] + i)] = u[f[k - 1] + i]
        BY <1>12, <4>1
      <4>3. u[f[k - 1] + i] = [packet |-> more[k], i |-> i]
        BY <1>2, <3>1
      <4> QED
        BY <4>1, <4>2, <4>3
    <3>5. g[j] = g[j - 1] + Length(more[k])
      <4>1. Length(more[k]) \in {5, 7, 9, 13}
        BY LengthIs
      <4> QED
        <5>1. Len(r) + f[k] = Len(r) + f[k - 1] + Length(more[k])
          <6>1. Len(r) \in Nat /\ f[k] \in Nat /\ f[k - 1] \in Nat /\ f[k] = f[k - 1] + Length(more[k])
            BY <1>4, <3>2, <3>3
          <6>2. Length(more[k]) \in Nat
            BY <4>1
          <6> QED
            BY ONLY <6>1, <6>2
        <5> QED
          BY <3>2, <5>1, Zenon
    <3> QED
      BY <3>2, <3>4, <3>5
  <2> QED
    BY <2>1, <2>2
<1>11. Cut(g, bytes, all)
  BY <1>3, <1>5, <1>8, <1>9, <1>10 DEF Cut
<1> QED
  BY <1>11 DEF Stream, all, bytes

\* The first packet parsed
LEMMA StreamShrinks ==
    ASSUME NEW r \in Seq(Byte), NEW packets \in Seq(Sent), packets # <<>>, Stream(r, packets)
    PROVE  LET n == Length(Head(packets))
           IN  /\ n <= Len(r) /\ \A i \in 1 .. n : r[i] = [packet |-> Head(packets), i |-> i]
               /\ Stream(SubSeq(r, n + 1, Len(r)), Tail(packets))
<1> DEFINE n == Length(Head(packets))
           l == Len(packets) - 1
           left == Tail(packets)
           u == SubSeq(r, n + 1, Len(r))
<1>0. PICK e : Cut(e, r, packets)
  BY DEF Stream
<1>1. /\ e \in [0 .. Len(packets) -> Nat]
      /\ e[0] = 0 /\ e[Len(packets)] = Len(r)
      /\ \A j, k \in 0 .. Len(packets) : j <= k => e[j] <= e[k]
      /\ \A j \in 1 .. Len(packets) :
           /\ e[j] = e[j - 1] + Length(packets[j])
           /\ \A i \in 1 .. Length(packets[j]) :
                r[e[j - 1] + i] = [packet |-> packets[j], i |-> i]
  BY <1>0 DEF Cut
<1>2. /\ l \in Nat /\ Len(packets) = l + 1 /\ Len(left) = l /\ Head(packets) = packets[1]
      /\ \A j \in 1 .. l : left[j] = packets[j + 1]
  OBVIOUS
<1>3. n \in Nat /\ 1 <= n
  BY LengthIs
<1>4. Len(r) \in Nat
  OBVIOUS
<1>5. e[1] = n /\ n <= Len(r)
  <2>1. 1 \in 1 .. Len(packets) /\ 1 \in 0 .. Len(packets) /\ l + 1 \in 0 .. Len(packets) /\ 1 - 1 = 0
    BY <1>2
  <2>2. e[1] = e[0] + Length(packets[1])
    BY <1>1, <2>1
  <2>3. e[1] <= e[l + 1]
    BY <1>1, <1>2, <2>1
  <2>4. e[1] = n
    BY <1>1, <1>2, <1>3, <2>2
  <2> QED
    BY <1>1, <1>2, <2>3, <2>4
<1>6. \A i \in 1 .. n : r[i] = [packet |-> Head(packets), i |-> i]
  <2>1. SUFFICES ASSUME NEW i \in 1 .. n
                 PROVE  r[i] = [packet |-> Head(packets), i |-> i]
    OBVIOUS
  <2>2. 1 \in 1 .. Len(packets) /\ 1 - 1 = 0 /\ e[0] + i = i
    BY <1>1, <1>2, <1>3
  <2>3. r[e[1 - 1] + i] = [packet |-> packets[1], i |-> i]
    BY <1>1, <1>2, <2>2
  <2> QED
    BY <1>2, <2>2, <2>3
<1>7. /\ Len(u) = Len(r) - n
      /\ \A j \in 1 .. Len(r) - n : u[j] = r[n + j]
  <2> HIDE DEF n
  <2> QED
    BY <1>3, <1>4, <1>5
<1> HIDE DEF n, l, left, u
<1> DEFINE f == [j \in 0 .. l |-> e[j + 1] - n]
<1>8. ASSUME NEW j \in 0 .. l
      PROVE  f[j] = e[j + 1] - n /\ f[j] \in Nat /\ e[j + 1] \in Nat
  <2>1. j + 1 \in 0 .. Len(packets) /\ 1 \in 0 .. Len(packets) /\ 1 <= j + 1
    BY <1>2
  <2>2. e[1] <= e[j + 1]
    BY <1>1, <2>1
  <2> QED
    BY <1>1, <1>3, <1>5, <2>1, <2>2
<1>9. f \in [0 .. l -> Nat]
  BY <1>8
<1>10. \A j \in 0 .. l : f[j] = e[j + 1] - n /\ e[j + 1] \in Nat
  BY <1>8
<1> HIDE DEF f
<1>11. f[0] = 0 /\ f[l] = Len(u)
  <2>1. 0 \in 0 .. l /\ l \in 0 .. l /\ 0 + 1 = 1
    BY <1>2
  <2>2. f[0] = e[1] - n /\ f[l] = e[l + 1] - n
    BY <1>10, <2>1
  <2> QED
    BY <1>1, <1>2, <1>3, <1>5, <1>7, <2>2
<1>12. ASSUME NEW j \in 0 .. l, NEW k \in 0 .. l, j <= k
       PROVE  f[j] <= f[k]
  <2>1. j + 1 \in 0 .. Len(packets) /\ k + 1 \in 0 .. Len(packets) /\ j + 1 <= k + 1
    BY <1>2, <1>12
  <2>2. e[j + 1] <= e[k + 1]
    BY <1>1, <2>1
  <2> QED
    BY <1>3, <1>10, <2>2
<1>13. ASSUME NEW j \in 1 .. l
       PROVE  /\ f[j] = f[j - 1] + Length(left[j])
              /\ \A i \in 1 .. Length(left[j]) : u[f[j - 1] + i] = [packet |-> left[j], i |-> i]
  <2>1. /\ j \in 0 .. l /\ j - 1 \in 0 .. l /\ j - 1 + 1 = j /\ j + 1 - 1 = j
        /\ j + 1 \in 1 .. Len(packets) /\ j + 1 \in 0 .. Len(packets)
        /\ Len(packets) \in 0 .. Len(packets) /\ j + 1 <= Len(packets)
    BY <1>2
  <2>2. left[j] = packets[j + 1]
    BY <1>2
  <2>3. f[j] = e[j + 1] - n /\ f[j - 1] = e[j] - n /\ e[j + 1] \in Nat /\ e[j] \in Nat
    <3>1. f[j] = e[j + 1] - n /\ e[j + 1] \in Nat
      BY <1>10, <2>1
    <3>2. f[j - 1] = e[j - 1 + 1] - n /\ e[j - 1 + 1] \in Nat
      BY <1>10, <2>1
    <3> QED
      BY <2>1, <3>1, <3>2
  <2>4. e[j + 1] = e[j] + Length(packets[j + 1]) /\ e[j + 1] <= Len(r)
    <3>1. e[j + 1] = e[j + 1 - 1] + Length(packets[j + 1])
      BY <1>1, <2>1
    <3>2. e[j + 1] <= e[Len(packets)]
      BY <1>1, <2>1
    <3> QED
      BY <1>1, <2>1, <3>1, <3>2
  <2>5. ASSUME NEW i \in 1 .. Length(left[j])
        PROVE  u[f[j - 1] + i] = [packet |-> left[j], i |-> i]
    <3>1. r[e[j] + i] = [packet |-> packets[j + 1], i |-> i]
      <4>1. r[e[j + 1 - 1] + i] = [packet |-> packets[j + 1], i |-> i]
        BY <1>1, <2>1, <2>2
      <4> QED
        BY <2>1, <4>1
    <3>2. f[j - 1] + i \in 1 .. Len(r) - n /\ n + (f[j - 1] + i) = e[j] + i
      <4>1. Length(packets[j + 1]) \in {5, 7, 9, 13}
        BY LengthIs
      <4>2. e[j] - n \in Nat
        BY <1>9, <2>1, <2>3
      <4>3. i \in 1 .. Length(packets[j + 1])
        BY <2>2
      <4>4. e[j] - n + i \in 1 .. Len(r) - n /\ n + (e[j] - n + i) = e[j] + i
        <5> DEFINE d == Length(packets[j + 1])
                   x == e[j + 1]
                   y == e[j]
                   all == Len(r)
        <5>1. /\ x \in Nat /\ y \in Nat /\ n \in Nat /\ all \in Nat /\ d \in {5, 7, 9, 13}
              /\ x = y + d /\ x <= all /\ y - n \in Nat /\ i \in 1 .. d
          BY <1>3, <1>4, <2>3, <2>4, <4>1, <4>2, <4>3
        <5> HIDE DEF d, x, y, all
        <5>2. y - n + i \in 1 .. all - n /\ n + (y - n + i) = y + i
          BY <5>1
        <5> QED
          BY <5>2 DEF y, all
      <4> QED
        BY <2>3, <4>4
    <3>3. u[f[j - 1] + i] = r[n + (f[j - 1] + i)]
      BY <1>7, <3>2
    <3> QED
      BY <2>2, <3>1, <3>2, <3>3
  <2>6. f[j] = f[j - 1] + Length(left[j])
    <3>1. Length(packets[j + 1]) \in {5, 7, 9, 13}
      BY LengthIs
    <3> QED
      <4>1. e[j + 1] - n = e[j] - n + Length(packets[j + 1])
        BY <1>3, <2>3, <2>4, <3>1, Earlier
      <4> QED
        BY <2>2, <2>3, <4>1, Zenon
  <2> QED
    BY <2>5, <2>6
<1>14. Cut(f, u, left)
  BY <1>2, <1>9, <1>11, <1>12, <1>13 DEF Cut
<1> QED
  BY <1>5, <1>6, <1>14 DEF Stream, n, u, left

\* Packets of one length, sent at once
LEMMA BytesStream ==
    ASSUME StartTypeOK, NEW packets \in Seq(Sent), Len(packets) \in 1 .. 3,
           \A j \in 1 .. Len(packets) : Length(packets[j]) = Length(packets[1])
    PROVE  Stream(Bytes(packets), packets)
<1> DEFINE n == Length(packets[1])
           m == Len(packets)
           e == [j \in 0 .. m |-> j * n]
<1>1. n \in {5, 7, 9, 13}
  BY LengthIs
<1>2. m \in {1, 2, 3} /\ \A j \in 1 .. m : Length(packets[j]) = n
  OBVIOUS
<1> HIDE DEF n, m
<1>3. e \in [0 .. m -> Nat] /\ e[0] = 0 /\ e[m] = m * n
  BY <1>1, <1>2
<1>4. \A j, k \in 0 .. m : j <= k => e[j] <= e[k]
  BY <1>1, <1>2
<1>5. Len(Bytes(packets)) = m * n
  <2>1. m * n \in Nat
    BY <1>1, <1>2
  <2> QED
    BY <2>1 DEF Bytes, n, m
<1>6. ASSUME NEW j \in 1 .. m
      PROVE  /\ e[j] = e[j - 1] + n
             /\ \A i \in 1 .. n : Bytes(packets)[e[j - 1] + i] = [packet |-> packets[j], i |-> i]
  <2>1. e[j] = e[j - 1] + n
    BY <1>1, <1>2
  <2>2. ASSUME NEW i \in 1 .. n
        PROVE  Bytes(packets)[e[j - 1] + i] = [packet |-> packets[j], i |-> i]
    <3> DEFINE k == e[j - 1] + i
    <3>1. e[j - 1] = (j - 1) * n
      BY <1>2
    <3>2. k \in 1 .. m * n /\ ((k - 1) \div n) + 1 = j /\ ((k - 1) % n) + 1 = i
      <4> HIDE DEF e
      <4>1. CASE n = 5
        BY <1>2, <3>1, <4>1
      <4>2. CASE n = 7
        BY <1>2, <3>1, <4>2
      <4>3. CASE n = 9
        BY <1>2, <3>1, <4>3
      <4>4. CASE n = 13
        BY <1>2, <3>1, <4>4
      <4> QED
        BY <1>1, <4>1, <4>2, <4>3, <4>4
    <3> HIDE DEF k, e
    <3>3. Bytes(packets)[k] = [packet |-> packets[((k - 1) \div n) + 1], i |-> ((k - 1) % n) + 1]
      BY <3>2 DEF Bytes, n, m
    <3> QED
      BY <3>2, <3>3 DEF k
  <2> QED
    BY <2>1, <2>2
<1> HIDE DEF e
<1>7. Cut(e, Bytes(packets), packets)
  BY <1>2, <1>3, <1>4, <1>5, <1>6 DEF Cut, m
<1> QED
  BY <1>7 DEF Stream

-----------------------------------------------------------------------------
(* What the packets tell.  A moment is what is near the tablet, as far as  *)
(* its packets have told it: on protocol 5 a tool is named before its      *)
(* position comes, and a 4D mouse's comes in two halves.                   *)

Stages == {"named", "half", "whole"}
Near == Pens \cup Mice
Moment == [tool: {NoTool, "FINGER"} \cup Near, buttons: SUBSET {1, 2, 4, 8}, stage: Stages]
Moments == [Slots -> Moment]

Whole(g) == [tool |-> g.tool, buttons |-> g.buttons, stage |-> "whole"]
Now == [s \in Slots |-> Whole(hand[s])]

\* serialParseProtocol5's packets
IdTurns(p, g) == p.kind = "ID" /\ g.tool = p.tool /\ p.tool \in Near /\ g.stage = "named"
OutTurns(p, g) == p.kind = "OUT" /\ g.tool = NoTool /\ g.stage = "whole"
PositionTurns(p, h, g) ==
    /\ p.kind \in {"PEN", "MOUSE"} /\ p.proximity = TRUE
    /\ h.tool = g.tool /\ g.tool \in (IF p.kind = "PEN" THEN Pens ELSE Mice)
    /\ g.buttons = p.buttons
    /\ g.stage = IF g.tool = "MOUSE_4D" THEN "half" ELSE "whole"
RotationTurns(p, h, g) ==
    /\ p.kind = "ROTATION" /\ p.proximity = TRUE
    /\ h.tool = g.tool /\ g.tool = "MOUSE_4D" /\ h.stage = "half"
    /\ g.buttons = h.buttons /\ g.stage = "whole"
Turns5(p, h, g) ==
    IdTurns(p, g) \/ OutTurns(p, g) \/ PositionTurns(p, h, g) \/ RotationTurns(p, h, g)

\* serialParseP4Common's, and a digitizer's for a pen
NearTurns(p, h, g) ==
    /\ p.proximity = TRUE /\ p.tool = g.tool /\ p.buttons = g.buttons
    /\ g.tool \in Near /\ h.tool \in {NoTool, g.tool}
    /\ g.tool = "ERASER" => EraserBit \in g.buttons
AwayTurns(p, h, g) == p.proximity = FALSE /\ g.tool = NoTool /\ h.tool \in Near
Turns4(p, h, g) ==
    /\ g.stage = "whole" /\ (NearTurns(p, h, g) \/ AwayTurns(p, h, g))
    /\ tablet.kind = "TPC" => p.kind = "PEN" /\ g.tool \notin Mice

\* One packet tells moment g after moment h.
Tells(h, p, g) ==
    /\ \A s \in Slots : s # p.slot => g[s] = h[s]
    /\ \/ tablet.kind \in Protocol5 /\ Turns5(p, h[p.slot], g[p.slot])
       \/ /\ tablet.kind \notin Protocol5 /\ p.kind = "TOUCH" /\ p.slot = 1
          /\ g[1].buttons = p.buttons
       \/ /\ tablet.kind \notin Protocol5 /\ p.kind # "TOUCH" /\ p.slot = 0
          /\ Turns4(p, h[0], g[0])

\* The packets in q lead from a to b, by way of members of S, if each of the
\* links is in L.
Linked(S, L, q, a, b) ==
    \E s \in [1 .. Len(q) + 1 -> S] :
       /\ s[1] = a /\ s[Len(q) + 1] = b
       /\ \A i \in 1 .. Len(q) : <<s[i], q[i], s[i + 1]>> \in L

Links == {l \in Moments \X Sent \X Moments : Tells(l[1], l[2], l[3])}
Chain(q, a, b) == Linked(Moments, Links, q, a, b)

\* Nothing unread: the way is none.
LEMMA NoLink ==
    ASSUME NEW S, NEW L, NEW a, NEW b, Linked(S, L, <<>>, a, b)
    PROVE  a = b
  BY DEF Linked

\* No packet: one place.
LEMMA LinkStarts ==
    ASSUME NEW S, NEW L, NEW a \in S
    PROVE  Linked(S, L, <<>>, a, a)
<1> DEFINE s == [i \in 1 .. 1 |-> a]
<1>1. Len(<<>>) + 1 = 1
  OBVIOUS
<1>2. s \in [1 .. Len(<<>>) + 1 -> S] /\ s[1] = a /\ s[Len(<<>>) + 1] = a
  BY <1>1
<1>3. \A i \in 1 .. Len(<<>>) : <<s[i], <<>>[i], s[i + 1]>> \in L
  OBVIOUS
<1> QED
  BY <1>2, <1>3 DEF Linked

\* A packet sent is one more link.
LEMMA LinkGrows ==
    ASSUME NEW S, NEW L, NEW F, NEW q \in Seq(F), NEW f \in F, NEW a, NEW b, NEW c \in S,
           Linked(S, L, q, a, b), <<b, f, c>> \in L
    PROVE  Linked(S, L, Append(q, f), a, c)
<1>1. PICK s \in [1 .. Len(q) + 1 -> S] :
        /\ s[1] = a /\ s[Len(q) + 1] = b
        /\ \A i \in 1 .. Len(q) : <<s[i], q[i], s[i + 1]>> \in L
  BY DEF Linked
<1> DEFINE n == Len(q)
           r == Append(q, f)
           t == [i \in 1 .. n + 2 |-> IF i = n + 2 THEN c ELSE s[i]]
<1>2. n \in Nat /\ Len(r) = n + 1 /\ r[n + 1] = f /\ \A i \in 1 .. n : r[i] = q[i]
  OBVIOUS
<1> HIDE DEF n, r
<1>3. t \in [1 .. n + 2 -> S]
  BY <1>1, <1>2 DEF n
<1>4. t[1] = a /\ t[n + 2] = c
  BY <1>1, <1>2
<1>5. ASSUME NEW i \in 1 .. n + 1
      PROVE  <<t[i], r[i], t[i + 1]>> \in L
  <2>1. CASE i = n + 1
    <3>1. t[i] = b /\ t[i + 1] = c /\ r[i] = f
      BY <1>1, <1>2, <2>1 DEF n
    <3> QED
      BY <3>1
  <2>2. CASE i # n + 1
    <3>1. i \in 1 .. n /\ t[i] = s[i] /\ t[i + 1] = s[i + 1] /\ r[i] = q[i]
      BY <1>2, <2>2
    <3> QED
      BY <1>1, <3>1 DEF n
  <2> QED
    BY <2>1, <2>2
<1>6. Len(r) + 1 = n + 2
  BY <1>2
<1> HIDE DEF t
<1> QED
  BY <1>2, <1>3, <1>4, <1>5, <1>6 DEF Linked, r

\* A packet read is one link less.
LEMMA LinkShrinks ==
    ASSUME NEW S, NEW L, NEW F, NEW q \in Seq(F), q # <<>>, NEW a, NEW b, Linked(S, L, q, a, b)
    PROVE  \E c \in S : <<a, Head(q), c>> \in L /\ Linked(S, L, Tail(q), c, b)
<1>1. PICK s \in [1 .. Len(q) + 1 -> S] :
        /\ s[1] = a /\ s[Len(q) + 1] = b
        /\ \A i \in 1 .. Len(q) : <<s[i], q[i], s[i + 1]>> \in L
  BY DEF Linked
<1> DEFINE n == Len(q) - 1
           r == Tail(q)
           t == [i \in 1 .. n + 1 |-> s[i + 1]]
<1>2. n \in Nat /\ Len(q) = n + 1 /\ Len(r) = n /\ Head(q) = q[1] /\ \A i \in 1 .. n : r[i] = q[i + 1]
  OBVIOUS
<1> HIDE DEF n, r
<1>3. t \in [1 .. n + 1 -> S]
  BY <1>1, <1>2
<1>4. t[1] = s[2] /\ t[n + 1] = b
  BY <1>1, <1>2
<1>5. ASSUME NEW i \in 1 .. n
      PROVE  <<t[i], r[i], t[i + 1]>> \in L
  <2>1. i + 1 \in 1 .. Len(q) /\ t[i] = s[i + 1] /\ t[i + 1] = s[i + 1 + 1] /\ r[i] = q[i + 1]
    BY <1>2
  <2> QED
    BY <1>1, <2>1
<1>6. <<a, Head(q), s[2]>> \in L /\ s[2] \in S
  <2>1. 1 \in 1 .. Len(q) /\ 2 \in 1 .. Len(q) + 1 /\ 1 + 1 = 2
    BY <1>2
  <2> QED
    BY <1>1, <1>2, <2>1
<1> HIDE DEF t
<1>7. Linked(S, L, r, s[2], b)
  BY <1>2, <1>3, <1>4, <1>5 DEF Linked
<1> QED
  BY <1>6, <1>7 DEF r

\* Nothing unread: the reader's moment is now.
LEMMA NoChain ==
    ASSUME NEW a, NEW b, Chain(<<>>, a, b)
    PROVE  a = b
  BY NoLink DEF Chain

\* ... and every moment leads to itself by it.
LEMMA ChainStarts ==
    ASSUME NEW a \in Moments
    PROVE  Chain(<<>>, a, a)
  BY LinkStarts DEF Chain

\* A packet that tells c after b makes a chain to b one to c.
LEMMA ChainGrows ==
    ASSUME NEW q \in Seq(Sent), NEW f \in Sent, NEW a, NEW b \in Moments,
           NEW c \in Moments, Chain(q, a, b), Tells(b, f, c)
    PROVE  Chain(Append(q, f), a, c)
<1>2. <<b, f, c>> \in Links
  BY DEF Links
<1> QED
  BY <1>2, LinkGrows DEF Chain

\* Without its first packet a chain starts at what that packet tells.
LEMMA ChainShrinks ==
    ASSUME NEW q \in Seq(Sent), q # <<>>, NEW a, NEW b, Chain(q, a, b)
    PROVE  \E c \in Moments : Tells(a, Head(q), c) /\ Chain(Tail(q), c, b)
<1>1. PICK c \in Moments : <<a, Head(q), c>> \in Links /\ Linked(Moments, Links, Tail(q), c, b)
  BY LinkShrinks DEF Chain
<1> QED
  BY <1>1 DEF Chain, Links

-----------------------------------------------------------------------------
(* The parsers: what a channel shows of a moment.                          *)

Tags == {NoTool, "FINGER", "CURSOR", "TOUCH"} \cup Near
Records == [type: Tags, id: Tags, proximity: BOOLEAN, buttons: SUBSET {1, 2, 4, 8},
            rotation: BOOLEAN, discard: BOOLEAN]
Channels == [Slots -> [work: Records, valid: Records]]

\* A channel of protocol 5 ...
Shows5(c, g) ==
    /\ g.tool = NoTool => c.work.proximity = FALSE
    /\ g.tool # NoTool =>
         /\ c.work.proximity = TRUE /\ c.work.id = g.tool
         /\ c.work.type = IF g.tool \in Mice THEN "CURSOR" ELSE g.tool
    /\ g.tool # NoTool /\ g.stage # "named" => c.work.buttons = g.buttons
    /\ g.stage = "whole" => c.valid = c.work

\* ... and the one of all others, for a pen or a mouse
Plain(g) == 8 \notin g.buttons /\ (g.tool = "STYLUS" => 4 \notin g.buttons)
Typed(v, g) ==
    /\ v.type \in Pens \cup {"CURSOR"}
    /\ v.type \in {Own(g), "ERASER"}
    /\ g.buttons # {} /\ Plain(g) => v.type = Own(g)
    /\ v.type # "ERASER" => v.buttons = g.buttons
NearShown(c, g) == c.work = c.valid /\ c.valid.proximity = TRUE /\ Typed(c.valid, g)

\* A packet of protocol 5 leaves the channels showing what it tells.
LEMMA Protocol5Shows ==
    ASSUME channel \in Channels, NEW p \in Sent, NEW h \in Moment, NEW g \in Moment,
           Turns5(p, h, g), Shows5(channel[p.slot], h)
    PROVE  LET chans == Protocol5Packet(p).channel
           IN  /\ chans \in Channels /\ Shows5(chans[p.slot], g)
               /\ \A s \in Slots : s # p.slot => chans[s] = channel[s]
<1> DEFINE ch == p.slot
           w == channel[ch].work
           new == Protocol5Packet(p).channel
<1>1. /\ ch \in Slots /\ p.buttons \in SUBSET {1, 2, 4, 8} /\ p.tool \in {NoTool, "FINGER"} \cup Near
      /\ p.proximity \in BOOLEAN /\ p.kind \in PacketKinds
  BY DEF Sent, Near
<1>2. channel[ch] \in [work: Records, valid: Records] /\ w \in Records
  BY <1>1 DEF Channels
<1>3. h.tool \in {NoTool, "FINGER"} \cup Near /\ g.stage \in Stages
  BY DEF Moment
<1>4. ASSUME NEW work \in Records, NEW passed \in BOOLEAN,
             new = IF passed THEN Passed([channel EXCEPT ![ch].work = work], ch)
                   ELSE [channel EXCEPT ![ch].work = work]
      PROVE  /\ new \in Channels
             /\ new[ch].work = work /\ (passed => new[ch].valid = work)
             /\ \A s \in Slots : s # ch => new[s] = channel[s]
  <2> HIDE DEF ch, new
  <2> DEFINE one == [channel EXCEPT ![ch].work = work]
  <2>1. one \in Channels /\ one[ch].work = work /\ \A s \in Slots : s # ch => one[s] = channel[s]
    BY <1>1, <1>2 DEF Channels
  <2>2. CASE passed
    <3> HIDE DEF one
    <3>1. new = [one EXCEPT ![ch].valid = one[ch].work]
      BY <1>4, <2>2 DEF Passed, one
    <3>2. one[ch] \in [work: Records, valid: Records]
      BY <1>1, <2>1 DEF Channels
    <3> QED
      BY <1>1, <2>1, <3>1, <3>2 DEF Channels
  <2>3. CASE ~passed
    BY <1>4, <2>1, <2>3
  <2> QED
    BY <2>2, <2>3
<1>5. CASE IdTurns(p, g)
  <2> DEFINE discards == Discards(p.tool)
             type == IF p.tool \in Mice THEN "CURSOR" ELSE p.tool
             work == [Blank EXCEPT !.proximity = TRUE, !.discard = discards,
                        !.type = type, !.id = p.tool]
  <2>1. p.kind = "ID" /\ p.tool \in Near /\ g.tool = p.tool /\ g.stage = "named"
    BY <1>5 DEF IdTurns
  <2>2. /\ work \in Records /\ work.proximity = TRUE /\ work.id = p.tool
        /\ work.type = IF p.tool \in Mice THEN "CURSOR" ELSE p.tool
    <3>1. discards \in BOOLEAN /\ type \in Tags /\ p.tool \in Tags
      BY <2>1 DEF Discards, Tags, Near
    <3>2. Blank \in Records
      BY DEF Blank, Records, Tags
    <3> HIDE DEF discards, type
    <3>3. /\ work \in Records /\ work.proximity = TRUE /\ work.id = p.tool /\ work.type = type
      BY <3>1, <3>2 DEF Records
    <3> QED
      BY <3>3 DEF type
  <2>3. new = [channel EXCEPT ![ch].work = work]
    BY <2>1 DEF Protocol5Packet
  <2> HIDE DEF work, new, ch
  <2>4. /\ new \in Channels /\ new[ch].work = work
        /\ \A s \in Slots : s # ch => new[s] = channel[s]
    BY <1>4, <2>2, <2>3
  <2>5. g.tool # NoTool
    BY <2>1 DEF Near, Pens, Mice, NoTool
  <2>6. Shows5(new[ch], g)
    BY <2>1, <2>2, <2>4, <2>5 DEF Shows5
  <2> QED
    BY <2>4, <2>6 DEF new, ch
<1>6. CASE OutTurns(p, g)
  <2> DEFINE work == [w EXCEPT !.proximity = FALSE]
  <2>1. p.kind = "OUT" /\ g.tool = NoTool /\ g.stage = "whole"
    BY <1>6 DEF OutTurns
  <2>2. work \in Records /\ work.proximity = FALSE
    BY <1>2 DEF Records
  <2>3. new = Passed([channel EXCEPT ![ch].work = work], ch)
    BY <2>1 DEF Protocol5Packet
  <2> HIDE DEF work, new, ch
  <2>4. /\ new \in Channels /\ new[ch].work = work /\ new[ch].valid = work
        /\ \A s \in Slots : s # ch => new[s] = channel[s]
    BY <1>4, <2>2, <2>3
  <2>6. Shows5(new[ch], g)
    BY <2>1, <2>2, <2>4 DEF Shows5
  <2> QED
    BY <2>4, <2>6 DEF new, ch
<1>7. CASE PositionTurns(p, h, g)
  <2> DEFINE work == [w EXCEPT !.buttons = p.buttons, !.proximity = p.proximity]
             wait == p.kind = "MOUSE" /\ (w.id \notin Mice \/ (w.id = "MOUSE_4D" /\ w.discard))
  <2>1. /\ p.kind \in {"PEN", "MOUSE"} /\ p.proximity = TRUE
        /\ h.tool = g.tool /\ g.tool \in (IF p.kind = "PEN" THEN Pens ELSE Mice)
        /\ g.buttons = p.buttons
        /\ g.stage = IF g.tool = "MOUSE_4D" THEN "half" ELSE "whole"
    BY <1>7 DEF PositionTurns
  <2>2. h.tool # NoTool /\ h.tool \in Near
    BY <2>1 DEF Near, Pens, Mice, NoTool
  <2>3. w.id = g.tool /\ w.type = IF g.tool \in Mice THEN "CURSOR" ELSE g.tool
    BY <2>1, <2>2 DEF Shows5
  <2>4. /\ work \in Records /\ work.proximity = TRUE /\ work.id = w.id /\ work.type = w.type
        /\ work.buttons = p.buttons
    BY <1>1, <1>2, <2>1 DEF Records
  <2>5. new = IF ~wait THEN Passed([channel EXCEPT ![ch].work = work], ch)
              ELSE [channel EXCEPT ![ch].work = work]
    <3>1. p.kind = "MOUSE" => w.id \in Mice
      BY <2>1, <2>3
    <3>2. CASE p.kind = "PEN"
      BY <3>2 DEF Protocol5Packet
    <3>3. CASE p.kind = "MOUSE"
      BY <3>1, <3>3 DEF Protocol5Packet
    <3> QED
      BY <2>1, <3>2, <3>3
  <2>6. g.stage = "whole" => ~wait
    BY <2>1, <2>3
  <2> DEFINE passed == ~wait
  <2>8. passed \in BOOLEAN /\ new = IF passed THEN Passed([channel EXCEPT ![ch].work = work], ch)
                                  ELSE [channel EXCEPT ![ch].work = work]
    BY <2>5
  <2>9. g.stage = "whole" => passed
    BY <2>6
  <2> HIDE DEF passed, work, new, ch, w
  <2>10. /\ new \in Channels /\ new[ch].work = work /\ (passed => new[ch].valid = work)
         /\ \A s \in Slots : s # ch => new[s] = channel[s]
    BY <1>4, <2>4, <2>8
  <2>11. Shows5(new[ch], g)
    BY <2>1, <2>2, <2>3, <2>4, <2>9, <2>10 DEF Shows5
  <2> QED
    BY <2>10, <2>11 DEF new, ch
<1>8. CASE RotationTurns(p, h, g)
  <2> DEFINE work == [w EXCEPT !.rotation = TRUE, !.proximity = p.proximity, !.discard = FALSE]
  <2>1. /\ p.kind = "ROTATION" /\ p.proximity = TRUE
        /\ h.tool = g.tool /\ g.tool = "MOUSE_4D" /\ h.stage = "half"
        /\ g.buttons = h.buttons /\ g.stage = "whole"
    BY <1>8 DEF RotationTurns
  <2>2. h.tool # NoTool /\ h.stage # "named"
    BY <2>1 DEF NoTool
  <2>3. w.id = g.tool /\ w.type = "CURSOR" /\ w.buttons = g.buttons
    BY <2>1, <2>2 DEF Shows5, Mice
  <2>4. /\ work \in Records /\ work.proximity = TRUE /\ work.id = w.id /\ work.type = w.type
        /\ work.buttons = w.buttons
    BY <1>1, <1>2, <2>1 DEF Records
  <2>5. new = Passed([channel EXCEPT ![ch].work = work], ch)
    BY <2>1 DEF Protocol5Packet
  <2> HIDE DEF work, new, ch, w
  <2>6. /\ new \in Channels /\ new[ch].work = work /\ new[ch].valid = work
        /\ \A s \in Slots : s # ch => new[s] = channel[s]
    BY <1>4, <2>4, <2>5
  <2>7. Shows5(new[ch], g)
    BY <2>1, <2>2, <2>3, <2>4, <2>6 DEF Shows5, Mice
  <2> QED
    BY <2>6, <2>7 DEF new, ch
<1> QED
  BY <1>5, <1>6, <1>7, <1>8 DEF Turns5

\* A packet of the other pens does so unless the finger has to go first.
LEMMA PenPacketShows ==
    ASSUME NEW chans \in Channels, NEW p \in Sent, NEW h \in Moment, NEW g \in Moment,
           Turns4(p, h, g),
           h.tool \in Near => NearShown(chans[0], h),
           h.tool = NoTool => chans[0].valid.proximity = FALSE
    PROVE  LET new == PenPacket(chans, p, 0).channel
           IN  /\ new \in Channels /\ new[1] = chans[1]
               /\ g.tool \in Near => NearShown(new[0], g)
               /\ g.tool = NoTool => /\ new[0].valid.proximity = FALSE
                                     /\ new[0].valid.type # "TOUCH"
<1> DEFINE last == chans[0].valid
           type == IF 8 \in p.buttons THEN "ERASER"
                   ELSE IF p.tool \in Mice THEN "CURSOR"
                   ELSE IF 4 \in p.buttons THEN "ERASER" ELSE "STYLUS"
           work == [chans[0].work EXCEPT !.proximity = p.proximity, !.buttons = p.buttons,
                      !.type = IF ~last.proximity /\ p.proximity THEN type ELSE @]
           fooled == Fooled(last, work, type)
           typed == IF fooled THEN [work EXCEPT !.type = type] ELSE work
           state == IF typed.type = "ERASER" THEN [typed EXCEPT !.buttons = {}] ELSE typed
           new == PenPacket(chans, p, 0).channel
<1>1. /\ p.buttons \in SUBSET {1, 2, 4, 8} /\ p.tool \in {NoTool, "FINGER"} \cup Near
      /\ p.proximity \in BOOLEAN
  BY DEF Sent, Near
<1>2. /\ 0 \in Slots /\ 1 \in Slots /\ chans[0] \in [work: Records, valid: Records]
      /\ chans[0].work \in Records /\ last \in Records
  BY DEF Channels, Slots
<1>3. new = [chans EXCEPT ![0] = [work |-> state, valid |-> state]]
  BY DEF PenPacket
<1>4. type \in {"CURSOR"} \cup Pens
  BY DEF Pens
<1>5. /\ work \in Records /\ work.proximity = p.proximity /\ work.buttons = p.buttons
      /\ work.type = IF ~last.proximity /\ p.proximity THEN type ELSE chans[0].work.type
  <2> DEFINE entered == ~last.proximity /\ p.proximity
             near == p.proximity
             kept == IF entered THEN type ELSE chans[0].work.type
  <2>1. near \in BOOLEAN /\ kept \in Tags
    BY <1>1, <1>2, <1>4 DEF Records, Tags, Near
  <2>2. work = [chans[0].work EXCEPT !.proximity = near, !.buttons = p.buttons, !.type = kept]
    BY <1>2 DEF Records
  <2> HIDE DEF type, kept, near, work
  <2>3. /\ work \in Records /\ work.proximity = near /\ work.buttons = p.buttons
        /\ work.type = kept
    BY <1>1, <1>2, <2>1, <2>2 DEF Records
  <2> QED
    BY <2>3 DEF kept, near
<1>6. /\ typed \in Records /\ typed.proximity = p.proximity /\ typed.buttons = p.buttons
      /\ typed.type = IF fooled THEN type ELSE work.type
  <2> HIDE DEF type, work, fooled
  <2> QED
    BY <1>4, <1>5 DEF Records, Tags, Near, Pens
<1>7. /\ state \in Records /\ state.proximity = p.proximity /\ state.type = typed.type
      /\ state.buttons = IF typed.type = "ERASER" THEN {} ELSE p.buttons
  <2> HIDE DEF typed
  <2> QED
    BY <1>6 DEF Records
<1>8. fooled <=> /\ last.proximity /\ work.proximity /\ work.buttons # {}
                 /\ work.type = "ERASER" /\ type # "ERASER"
  BY DEF Fooled
<1> HIDE DEF last, work, fooled, typed, state, new
<1>9. new \in Channels /\ new[1] = chans[1] /\ new[0].work = state /\ new[0].valid = state
  BY <1>2, <1>3, <1>7 DEF Channels, Slots
<1>10. CASE NearTurns(p, h, g)
  <2>1. /\ p.proximity = TRUE /\ p.tool = g.tool /\ p.buttons = g.buttons
        /\ g.tool \in Near /\ h.tool \in {NoTool, g.tool}
        /\ g.tool = "ERASER" => EraserBit \in g.buttons
    BY <1>10 DEF NearTurns
  <2>0. EraserBit \in {4, 8}
    BY DEF EraserBit
  <2>2. type \in {Own(g), "ERASER"} /\ (Plain(g) => type = Own(g))
    <3>1. CASE g.tool \in Mice
      BY <2>1, <3>1 DEF Own, Plain
    <3>2. CASE g.tool = "ERASER"
      BY <2>0, <2>1, <3>2 DEF Own, Mice
    <3>3. CASE g.tool = "STYLUS"
      BY <2>1, <3>3 DEF Own, Plain, Mice
    <3> QED
      BY <2>1, <3>1, <3>2, <3>3 DEF Near, Pens
  <2> HIDE DEF type
  <2>3. CASE h.tool = NoTool
    <3>1. last.proximity = FALSE
      BY <2>3 DEF last
    <3>2. state.type = type
      BY <1>5, <1>6, <1>7, <1>8, <2>1, <3>1
    <3>3. state.buttons = IF type = "ERASER" THEN {} ELSE g.buttons
      BY <1>6, <1>7, <2>1, <3>2
    <3>4. Typed(state, g)
      BY <1>4, <2>2, <3>2, <3>3 DEF Typed
    <3> QED
      <4>1. g.tool # NoTool
        BY <2>1 DEF Near, Pens, Mice, NoTool
      <4>2. state.proximity = TRUE
        BY <1>7, <2>1
      <4>3. NearShown(new[0], g)
        BY <1>9, <3>4, <4>2 DEF NearShown
      <4> QED
        BY <1>9, <4>1, <4>3 DEF new
  <2>4. CASE h.tool = g.tool
    <3>1. chans[0].work = last /\ last.proximity = TRUE /\ Typed(last, h)
      BY <2>1, <2>4 DEF NearShown, last
    <3>2. last.type \in Pens \cup {"CURSOR"} /\ last.type \in {Own(g), "ERASER"}
      BY <2>4, <3>1 DEF Typed, Own
    <3>3. work.type = last.type
      BY <1>5, <3>1
    <3>4. fooled <=> g.buttons # {} /\ last.type = "ERASER" /\ type # "ERASER"
      BY <1>5, <1>8, <2>1, <3>1, <3>3
    <3>5. state.type = IF fooled THEN type ELSE last.type
      BY <1>6, <1>7, <3>3
    <3>6. state.buttons = IF state.type = "ERASER" THEN {} ELSE g.buttons
      BY <1>6, <1>7, <2>1
    <3>7. /\ state.type \in Pens \cup {"CURSOR"} /\ state.type \in {Own(g), "ERASER"}
          /\ g.buttons # {} /\ Plain(g) => state.type = Own(g)
      BY <1>4, <2>2, <3>2, <3>4, <3>5
    <3>8. Typed(state, g)
      BY <3>6, <3>7 DEF Typed
    <3> QED
      <4>1. g.tool # NoTool
        BY <2>1 DEF Near, Pens, Mice, NoTool
      <4>2. state.proximity = TRUE
        BY <1>7, <2>1
      <4>3. NearShown(new[0], g)
        BY <1>9, <3>8, <4>2 DEF NearShown
      <4> QED
        BY <1>9, <4>1, <4>3 DEF new
  <2> QED
    BY <2>1, <2>3, <2>4
<1>11. CASE AwayTurns(p, h, g)
  <2>1. p.proximity = FALSE /\ g.tool = NoTool /\ h.tool \in Near
    BY <1>11 DEF AwayTurns
  <2>2. chans[0].work.type \in Pens \cup {"CURSOR"}
    BY <2>1 DEF NearShown, Typed
  <2> HIDE DEF type
  <2>3. state.type \in Pens \cup {"CURSOR"}
    BY <1>4, <1>5, <1>6, <1>7, <2>1, <2>2
  <2>4. state.type # "TOUCH"
    BY <2>3 DEF Pens
  <2> QED
    <3>1. g.tool \notin Near
      BY <2>1 DEF Near, Pens, Mice, NoTool
    <3>2. state.proximity = FALSE
      BY <1>7, <2>1
    <3> QED
      BY <1>9, <2>4, <3>1, <3>2 DEF new
<1> QED
  BY <1>10, <1>11 DEF Turns4, new

-----------------------------------------------------------------------------
(* What is unread leads from what the channels show to what is near the    *)
(* tablet.                                                                 *)

\* The channel of a tablet that has one shows the pen or mouse, or else the
\* finger, ...
ShowsOne(c, m) ==
    /\ m[0].tool \in Near => NearShown(c, m[0])
    /\ m[0].tool = NoTool =>
         IF c.valid.type = "TOUCH" THEN c.valid.proximity <=> 1 \in m[1].buttons
         ELSE c.valid.proximity = FALSE

\* ... which has gone out before all of the pen's packet was there.
OutBefore(c, q, m) ==
    /\ q # <<>> /\ Head(q).kind # "TOUCH"
    /\ m[0].tool = NoTool
    /\ c.valid.type = "TOUCH" /\ c.valid.proximity = FALSE

Shown(chans, q, m) ==
    IF tablet.kind \in Protocol5 THEN \A s \in Slots : Shows5(chans[s], m[s])
    ELSE /\ m[0].tool \in Near \cup {NoTool}
         /\ tablet.kind = "TPC" => m[0].tool \notin Mice
         /\ ShowsOne(chans[0], m) \/ OutBefore(chans[0], q, m)

\* A tablet that has one channel uses no other, and touch that is switched
\* off is not shown.
OneChannel(chans) ==
    tablet.kind \notin Protocol5 =>
      /\ chans[1].valid.proximity = FALSE
      /\ chans[0].valid.type = "TOUCH" => tablet.kind = "TPC" /\ common.wcmTouch

Unread(chans, r, now) ==
    \E q \in Seq(Sent), m \in Moments :
       Stream(r, q) /\ Chain(q, m, now) /\ Shown(chans, q, m)
ReadInv == lost = 0 => channel \in Channels /\ OneChannel(channel) /\ Unread(channel, Rest, Now)

\* Fingers are near a digitizer only, and pens and mice in the slots of
\* their tablets.
HandsInv ==
    /\ hand[0].tool # "FINGER"
    /\ tablet.kind \in Protocol5 => hand[1].tool # "FINGER"
    /\ tablet.kind \notin Protocol5 => hand[1].tool \in {NoTool, "FINGER"}
    /\ tablet.kind \notin Protocol5 \cup {"TPC"} => hand[1] = Free
    /\ tablet.kind = "TPC" => hand[0].tool \notin Mice

\* The inductive invariant, on top of SerialInv
SettleInv == UnreadInv /\ lost \in Nat /\ HandsInv /\ ReadInv

\* What depends on the tablet's kind stays.
LEMMA SentStays ==
    ASSUME SameTablet
    PROVE  Sent' = Sent /\ EraserBit' = EraserBit
  BY DEF SameTablet, Sent, PacketKinds, EraserBit

\* ... what a packet tells, ...
LEMMA TellsStay ==
    ASSUME SameTablet, NEW h, NEW p, NEW g
    PROVE  Tells(h, p, g)' <=> Tells(h, p, g)
<1>1. EraserBit' = EraserBit /\ tablet'.kind = tablet.kind
  BY SentStays DEF SameTablet
<1>2. Turns4(p, h[0], g[0])' <=> Turns4(p, h[0], g[0])
  BY <1>1 DEF Turns4, NearTurns, AwayTurns
<1> QED
  BY <1>1, <1>2 DEF Tells, Turns5, IdTurns, OutTurns, PositionTurns, RotationTurns

\* ... the chains, ...
LEMMA ChainStays ==
    ASSUME SameTablet, NEW q, NEW a, NEW b, Chain(q, a, b)
    PROVE  Linked(Moments, Links', q, a, b)
<1>1. Links' = Links
  <2>1. Sent' = Sent
    BY SentStays
  <2>2. \A l : Tells(l[1], l[2], l[3])' <=> Tells(l[1], l[2], l[3])
    BY TellsStay
  <2> QED
    BY <2>1, <2>2 DEF Links
<1> QED
  BY <1>1 DEF Chain

\* ... the lengths of packets, ...
LEMMA LengthStays ==
    ASSUME SameTablet, NEW p
    PROVE  Length(p)' = Length(p)
  BY DEF Length, SameTablet

\* ... where the bytes are cut, ...
LEMMA CutStays ==
    ASSUME SameTablet, NEW e, NEW r, NEW q, Cut(e, r, q)
    PROVE  Cut(e, r, q)'
<1>1. \A j : Length(q[j])' = Length(q[j])
  BY LengthStays
<1> QED
  BY <1>1 DEF Cut

\* ... and what is shown of a moment.
LEMMA ShownStays ==
    ASSUME SameTablet, NEW chans, NEW q, NEW m, Shown(chans, q, m)
    PROVE  Shown(chans, q, m)'
<1>1. EraserBit' = EraserBit /\ tablet'.kind = tablet.kind
  BY SentStays DEF SameTablet
<1>2. \A v, g : Typed(v, g)' <=> Typed(v, g)
  BY DEF Typed, Own, Plain
<1>3. ShowsOne(chans[0], m)' <=> ShowsOne(chans[0], m)
  BY <1>2 DEF ShowsOne, NearShown
<1> QED
  BY <1>1, <1>3 DEF Shown, OutBefore, Shows5

\* What is unread after a step, in terms of what was before it
LEMMA UnreadStays ==
    ASSUME SameTablet, NEW chans, NEW r, NEW now, Unread(chans, r, now)
    PROVE  Unread(chans, r, now)'
<1>1. PICK q \in Seq(Sent), m \in Moments :
        Stream(r, q) /\ Chain(q, m, now) /\ Shown(chans, q, m)
  BY DEF Unread
<1>2. q \in Seq(Sent)'
  BY <1>1, SentStays
<1>3. Stream(r, q)'
  BY <1>1, CutStays DEF Stream
<1>4. Chain(q, m, now)'
  BY <1>1, ChainStays DEF Chain
<1>5. Shown(chans, q, m)'
  BY <1>1, ShownStays
<1> QED
  BY <1>1, <1>2, <1>3, <1>4, <1>5 DEF Unread

-----------------------------------------------------------------------------
(* Sequences, cut and joined.                                              *)

\* Two sequences, one after the other
LEMMA Joined ==
    ASSUME NEW S, NEW s \in Seq(S), NEW t \in Seq(S)
    PROVE  /\ s \o t \in Seq(S) /\ Len(s \o t) = Len(s) + Len(t)
           /\ \A k \in 1 .. Len(s) : (s \o t)[k] = s[k]
           /\ \A k \in 1 .. Len(t) : (s \o t)[Len(s) + k] = t[k]
<1>1. s \o t \in Seq(S) /\ Len(s \o t) = Len(s) + Len(t)
  OBVIOUS
<1>2. \A k \in 1 .. Len(s) : (s \o t)[k] = s[k]
  OBVIOUS
<1>3. \A k \in 1 .. Len(t) : (s \o t)[Len(s) + k] = t[k]
  OBVIOUS
<1> QED
  BY <1>1, <1>2, <1>3

\* Elements say what a sequence is.
LEMMA SameSeq ==
    ASSUME NEW S, NEW s \in Seq(S), NEW t \in Seq(S), Len(s) = Len(t),
           \A k \in 1 .. Len(s) : s[k] = t[k]
    PROVE  s = t
  OBVIOUS

\* Two of one element
LEMMA Pair ==
    ASSUME NEW S, NEW u \in S, NEW v \in S
    PROVE  <<u>> \in Seq(S) /\ <<v>> \in Seq(S) /\ <<u>> \o <<v>> = <<u, v>>
<1> DEFINE a == <<u>>
           b == <<v>>
           c == <<u, v>>
           d == a \o b
<1>1. a \in Seq(S) /\ b \in Seq(S) /\ Len(a) = 1 /\ Len(b) = 1 /\ a[1] = u /\ b[1] = v
  OBVIOUS
<1>2. c \in Seq(S) /\ Len(c) = 2 /\ c[1] = u /\ c[2] = v
  OBVIOUS
<1> HIDE DEF a, b, c
<1>3. /\ d \in Seq(S) /\ Len(d) = Len(a) + Len(b)
      /\ \A k \in 1 .. Len(a) : d[k] = a[k]
      /\ \A k \in 1 .. Len(b) : d[Len(a) + k] = b[k]
  BY <1>1, Joined
<1> HIDE DEF d
<1>4. Len(d) = 2 /\ d[1] = u /\ d[2] = v
  <2>1. 1 \in 1 .. 1 /\ 1 + 1 = 2
    OBVIOUS
  <2> QED
    BY <1>1, <1>3, <2>1
<1>5. d = c
  BY <1>2, <1>3, <1>4
<1> QED
  BY <1>1, <1>5 DEF a, b, c, d

\* Three sequences are the same whichever two are joined first, ...
LEMMA Assoc ==
    ASSUME NEW S, NEW s \in Seq(S), NEW t \in Seq(S), NEW u \in Seq(S)
    PROVE  (s \o t) \o u = s \o (t \o u)
<1> DEFINE l == Len(s)
           m == Len(t)
           n == Len(u)
           st == s \o t
           tu == t \o u
           a == st \o u
           b == s \o tu
<1>1. st \in Seq(S) /\ tu \in Seq(S) /\ Len(st) = l + m /\ Len(tu) = m + n
  BY Joined
<1>2. /\ \A k \in 1 .. l : st[k] = s[k]
      /\ \A k \in 1 .. m : st[l + k] = t[k]
      /\ \A k \in 1 .. m : tu[k] = t[k]
      /\ \A k \in 1 .. n : tu[m + k] = u[k]
  BY Joined
<1> HIDE DEF st, tu
<1>3. /\ a \in Seq(S) /\ b \in Seq(S) /\ Len(a) = l + m + n /\ Len(b) = l + (m + n)
      /\ \A k \in 1 .. l + m : a[k] = st[k]
      /\ \A k \in 1 .. n : a[l + m + k] = u[k]
      /\ \A k \in 1 .. l : b[k] = s[k]
      /\ \A k \in 1 .. m + n : b[l + k] = tu[k]
  <2>1. /\ a \in Seq(S) /\ Len(a) = Len(st) + Len(u)
        /\ \A k \in 1 .. Len(st) : a[k] = st[k]
        /\ \A k \in 1 .. Len(u) : a[Len(st) + k] = u[k]
    <3>1. st \in Seq(S)
      BY <1>1
    <3> QED
      BY <3>1, Joined
  <2>2. /\ b \in Seq(S) /\ Len(b) = Len(s) + Len(tu)
        /\ \A k \in 1 .. Len(s) : b[k] = s[k]
        /\ \A k \in 1 .. Len(tu) : b[Len(s) + k] = tu[k]
    <3>1. tu \in Seq(S)
      BY <1>1
    <3> QED
      BY <3>1, Joined
  <2> QED
    BY <1>1, <2>1, <2>2
<1>4. l \in Nat /\ m \in Nat /\ n \in Nat
  OBVIOUS
<1> HIDE DEF a, b, l, m, n
<1>5. ASSUME NEW k \in 1 .. l + m + n
      PROVE  a[k] = b[k]
  <2>1. CASE k <= l
    <3>1. k \in 1 .. l /\ k \in 1 .. l + m
      BY <1>4, <2>1
    <3> QED
      BY <1>2, <1>3, <3>1
  <2>2. CASE l < k /\ k <= l + m
    <3> DEFINE j == k - l
    <3>1. j \in 1 .. m /\ j \in 1 .. m + n /\ k \in 1 .. l + m /\ k = l + j
      BY <1>4, <2>2
    <3> HIDE DEF j
    <3>2. a[k] = st[l + j] /\ b[k] = tu[j]
      BY <1>3, <3>1
    <3>3. st[l + j] = t[j] /\ tu[j] = t[j]
      BY <1>2, <3>1
    <3> QED
      BY <3>2, <3>3
  <2>3. CASE l + m < k
    <3> DEFINE j == k - l - m
    <3>1. j \in 1 .. n /\ m + j \in 1 .. m + n /\ k = l + m + j /\ k = l + (m + j)
      BY <1>4, <2>3
    <3> HIDE DEF j
    <3> QED
      BY <1>2, <1>3, <3>1
  <2> QED
    BY <1>4, <2>1, <2>2, <2>3
<1>6. l + m + n = l + (m + n)
  BY <1>4
<1>7. Len(a) = Len(b) /\ \A k \in 1 .. Len(a) : a[k] = b[k]
  BY <1>3, <1>5, <1>6
<1>8. a = b
  BY <1>3, <1>7, SameSeq
<1> QED
  BY <1>8 DEF a, b, st, tu

\* ... and so for bytes.
LEMMA BytesAssoc == \A s, t, u \in Seq(Byte) : (s \o t) \o u = s \o (t \o u)
  BY Assoc

\* What is left of a sequence
LEMMA Cutting ==
    ASSUME NEW S, NEW s \in Seq(S), NEW m \in Nat, m <= Len(s)
    PROVE  /\ SubSeq(s, m + 1, Len(s)) \in Seq(S) /\ Len(SubSeq(s, m + 1, Len(s))) = Len(s) - m
           /\ \A k \in 1 .. Len(s) - m : SubSeq(s, m + 1, Len(s))[k] = s[m + k]
  OBVIOUS

\* What was taken of it
LEMMA Beginning ==
    ASSUME NEW S, NEW s \in Seq(S), NEW m \in Nat, m <= Len(s)
    PROVE  /\ SubSeq(s, 1, m) \in Seq(S) /\ Len(SubSeq(s, 1, m)) = m
           /\ \A k \in 1 .. m : SubSeq(s, 1, m)[k] = s[k]
  OBVIOUS

\* Both together
LEMMA Rejoined ==
    ASSUME NEW S, NEW s \in Seq(S), NEW m \in Nat, m <= Len(s)
    PROVE  SubSeq(s, 1, m) \o SubSeq(s, m + 1, Len(s)) = s
<1> DEFINE u == SubSeq(s, 1, m)
           v == SubSeq(s, m + 1, Len(s))
           l == Len(s)
           a == u \o v
<1>1. /\ u \in Seq(S) /\ Len(u) = m /\ \A k \in 1 .. m : u[k] = s[k]
  BY Beginning
<1>2. /\ v \in Seq(S) /\ Len(v) = l - m /\ \A k \in 1 .. l - m : v[k] = s[m + k]
  BY Cutting
<1>3. l \in Nat
  OBVIOUS
<1> HIDE DEF u, v
<1>4. /\ a \in Seq(S) /\ Len(a) = Len(u) + Len(v)
      /\ \A k \in 1 .. Len(u) : a[k] = u[k]
      /\ \A k \in 1 .. Len(v) : a[Len(u) + k] = v[k]
  BY <1>1, <1>2, Joined
<1>5. Len(a) = l
  BY <1>1, <1>2, <1>3, <1>4
<1> HIDE DEF a
<1>6. ASSUME NEW k \in 1 .. l
      PROVE  a[k] = s[k]
  <2>1. CASE k <= m
    BY <1>1, <1>4, <2>1
  <2>2. CASE m < k
    <3> DEFINE j == k - m
    <3> HIDE DEF l
    <3>1. j \in 1 .. l - m /\ k = m + j
      BY <1>3, <2>2
    <3> HIDE DEF j
    <3>2. a[m + j] = v[j]
      BY <1>1, <1>2, <1>4, <3>1
    <3> QED
      BY <1>2, <3>1, <3>2
  <2> QED
    BY <2>1, <2>2
<1>7. a = s
  BY <1>4, <1>5, <1>6, SameSeq DEF l
<1> QED
  BY <1>7 DEF a, u, v

\* A cut in the first of two
LEMMA CutJoined ==
    ASSUME NEW S, NEW s \in Seq(S), NEW t \in Seq(S), NEW n \in Nat, n <= Len(s)
    PROVE  SubSeq(s \o t, n + 1, Len(s \o t)) = SubSeq(s, n + 1, Len(s)) \o t
<1> DEFINE l == Len(s)
           w == Len(t)
           a == s \o t
           c == SubSeq(a, n + 1, Len(a))
           less == SubSeq(s, n + 1, Len(s))
           b == less \o t
<1>1. l \in Nat /\ w \in Nat /\ n <= l
  OBVIOUS
<1>2. /\ a \in Seq(S) /\ Len(a) = l + w
      /\ \A k \in 1 .. l : a[k] = s[k]
      /\ \A k \in 1 .. w : a[l + k] = t[k]
  BY Joined
<1> HIDE DEF a
<1>3. /\ less \in Seq(S) /\ Len(less) = l - n
      /\ \A k \in 1 .. l - n : less[k] = s[n + k]
  BY Cutting
<1> HIDE DEF less
<1>4. /\ b \in Seq(S) /\ Len(b) = l - n + w
      /\ \A k \in 1 .. l - n : b[k] = less[k]
      /\ \A k \in 1 .. w : b[l - n + k] = t[k]
  <2>1. /\ b \in Seq(S) /\ Len(b) = Len(less) + Len(t)
        /\ \A k \in 1 .. Len(less) : b[k] = less[k]
        /\ \A k \in 1 .. Len(t) : b[Len(less) + k] = t[k]
    <3>1. less \in Seq(S)
      BY <1>3
    <3> QED
      BY <3>1, Joined
  <2> QED
    BY <1>3, <2>1
<1> HIDE DEF b, l, w
<1>5. n <= Len(a)
  BY <1>1, <1>2
<1>6. /\ c \in Seq(S) /\ Len(c) = Len(a) - n
      /\ \A k \in 1 .. Len(a) - n : c[k] = a[n + k]
  BY <1>2, <1>5, Cutting
<1>7. Len(c) = l - n + w /\ Len(a) - n = l - n + w
  BY <1>1, <1>2, <1>6
<1> HIDE DEF c
<1>8. ASSUME NEW k \in 1 .. l - n + w
      PROVE  c[k] = b[k]
  <2>1. c[k] = a[n + k]
    BY <1>6, <1>7
  <2>2. CASE k <= l - n
    <3>1. k \in 1 .. l - n /\ n + k \in 1 .. l
      BY <1>1, <2>2
    <3> QED
      BY <1>2, <1>3, <1>4, <2>1, <3>1
  <2>3. CASE ~(k <= l - n)
    <3> DEFINE j == k - (l - n)
    <3>1. j \in 1 .. w /\ k = l - n + j /\ n + k = l + j
      BY <1>1, <2>3
    <3> HIDE DEF j
    <3>2. a[l + j] = t[j] /\ b[l - n + j] = t[j]
      BY <1>2, <1>4, <3>1
    <3> QED
      BY <2>1, <3>1, <3>2
  <2> QED
    BY <2>2, <2>3
<1>9. c = b
  BY <1>4, <1>6, <1>7, <1>8, SameSeq
<1> QED
  BY <1>9 DEF a, b, c, less

-----------------------------------------------------------------------------
\* What is unread after a step, of what the tablet then is, is what ReadInv asks.
LEMMA ReadNext ==
    ASSUME SameTablet, lost' = 0, channel' \in Channels, OneChannel(channel)',
           NEW c, c = channel', NEW r, r = Rest', NEW now, now = Now', Unread(c, r, now)
    PROVE  ReadInv'
<1>1. Unread(c, r, now)'
  BY UnreadStays
<1>2. PICK q \in Seq(Sent'), m \in Moments :
        Stream(r, q)' /\ Chain(q, m, now)' /\ Shown(c, q, m)'
  BY <1>1 DEF Unread
<1>3. Stream(Rest, q)'
  BY <1>2 DEF Stream, Cut
<1>4. Chain(q, m, Now)'
  BY <1>2 DEF Chain
<1>5. Shown(channel, q, m)'
  BY <1>2 DEF Shown
<1>6. Unread(channel, Rest, Now)'
  BY <1>2, <1>3, <1>4, <1>5 DEF Unread
<1>7. Channels' = Channels
  BY DEF Channels
<1> QED
  BY <1>6, <1>7 DEF ReadInv

\* What is unread, byte by byte
LEMMA RestIs ==
    ASSUME SerialInv, KeepsUnread
    PROVE  /\ Rest \in Seq(Byte) /\ Available \in Nat /\ Available <= Len(Rest)
           /\ Len(Rest) = Available + Len(wire)
           /\ \A k \in 1 .. Available : Rest[k] = buffer[pos + k]
<1>1. wire \in Seq(Byte) /\ buffer \in Seq(Byte) /\ pos \in Nat /\ pos <= Len(buffer)
  BY DEF SerialInv, StreamInv, KeepsUnread
<1> DEFINE left == SubSeq(buffer, pos + 1, Len(buffer))
<1>2. /\ left \in Seq(Byte) /\ Len(left) = Len(buffer) - pos
      /\ \A k \in 1 .. Len(buffer) - pos : left[k] = buffer[pos + k]
  BY <1>1, Cutting
<1>3. Available = Len(buffer) - pos /\ Available \in Nat
  BY <1>1 DEF Available
<1> HIDE DEF left
<1>4. left \in Seq(Byte)
  BY <1>2
<1>5. /\ left \o wire \in Seq(Byte) /\ Len(left \o wire) = Len(left) + Len(wire)
      /\ \A k \in 1 .. Len(left) : (left \o wire)[k] = left[k]
  BY <1>1, <1>4, Joined
<1>6. Len(wire) \in Nat
  BY <1>1
<1> QED
  BY <1>2, <1>3, <1>5, <1>6 DEF Rest, left

\* A packet that was parsed is read, and no other.
LEMMA RestParsed ==
    ASSUME SerialInv, KeepsUnread, NEW n \in Nat, n <= Available,
           pos' = pos + n, UNCHANGED <<buffer, wire>>
    PROVE  Rest' = SubSeq(Rest, n + 1, Len(Rest))
<1>1. wire \in Seq(Byte) /\ buffer \in Seq(Byte) /\ pos \in Nat /\ pos <= Len(buffer)
  BY DEF SerialInv, StreamInv, KeepsUnread
<1>2. Len(buffer) \in Nat /\ n <= Len(buffer) - pos
  BY <1>1 DEF Available
<1> DEFINE left == SubSeq(buffer, pos + 1, Len(buffer))
           less == SubSeq(left, n + 1, Len(left))
           less2 == SubSeq(buffer, (pos + n) + 1, Len(buffer))
<1>3. /\ left \in Seq(Byte) /\ Len(left) = Len(buffer) - pos
      /\ \A k \in 1 .. Len(buffer) - pos : left[k] = buffer[pos + k]
  BY <1>1, Cutting
<1>4. pos + n \in Nat /\ pos + n <= Len(buffer)
  BY <1>1, <1>2
<1>5. /\ less2 \in Seq(Byte) /\ Len(less2) = Len(buffer) - (pos + n)
      /\ \A k \in 1 .. Len(buffer) - (pos + n) : less2[k] = buffer[pos + n + k]
  BY <1>1, <1>4, Cutting
<1>6. Rest = left \o wire /\ Rest' = less2 \o wire
  BY DEF Rest
<1> HIDE DEF left, less2
<1>7. left \in Seq(Byte) /\ n <= Len(left)
  BY <1>2, <1>3
<1>8. /\ less \in Seq(Byte) /\ Len(less) = Len(left) - n
      /\ \A k \in 1 .. Len(left) - n : less[k] = left[n + k]
  BY <1>7, Cutting
<1> HIDE DEF less
<1>9. ASSUME NEW k \in 1 .. Len(less)
      PROVE  less[k] = less2[k]
  <2> DEFINE l == Len(buffer)
  <2>1. l \in Nat
    BY <1>2
  <2>2. Len(less) = l - pos - n
    BY <1>3, <1>8
  <2> HIDE DEF l
  <2>3. k \in 1 .. l - (pos + n) /\ n + k \in 1 .. l - pos /\ pos + (n + k) = pos + n + k
    BY <1>1, <2>1, <2>2
  <2>4. less[k] = left[n + k] /\ left[n + k] = buffer[pos + (n + k)] /\ less2[k] = buffer[pos + n + k]
    BY <1>3, <1>5, <1>8, <2>3 DEF l
  <2> QED
    BY <2>3, <2>4
<1>10. Len(less) = Len(less2)
  BY <1>1, <1>2, <1>3, <1>5, <1>8
<1>11. less \in Seq(Byte) /\ less2 \in Seq(Byte)
  BY <1>5, <1>8
<1>12. less = less2
  BY <1>9, <1>10, <1>11, SameSeq
<1>13. SubSeq(left \o wire, n + 1, Len(left \o wire)) = SubSeq(left, n + 1, Len(left)) \o wire
  BY <1>1, <1>7, CutJoined
<1> QED
  BY <1>6, <1>12, <1>13 DEF less

\* What was read and not parsed is still to be parsed.
LEMMA RestKept ==
    ASSUME SerialInv, KeepsUnread, EndRead, wire' = wire
    PROVE  Rest' = Rest
<1>1. buffer \in Seq(Byte) /\ pos \in Nat
  BY DEF SerialInv, StreamInv
<1> DEFINE left == SubSeq(buffer, pos + 1, Len(buffer))
<1>2. left \in Seq(Byte)
  BY <1>1
<1>3. buffer' = left /\ pos' = 0
  BY DEF EndRead
<1>4. SubSeq(left, 1, Len(left)) = left
  <2> HIDE DEF left
  <2> QED
    BY <1>2
<1>5. Rest' = SubSeq(left, 0 + 1, Len(left)) \o wire
  BY <1>3 DEF Rest
<1>6. 0 + 1 = 1
  OBVIOUS
<1> QED
  BY <1>4, <1>5, <1>6 DEF Rest

\* What is read comes from the wire.
LEMMA RestRead ==
    ASSUME SerialInv, UnreadInv, Read
    PROVE  Rest' = Rest
<1>1. wire \in Seq(Byte) /\ buffer \in Seq(Byte) /\ pos = 0 /\ pos' = 0
  BY DEF SerialInv, StreamInv, UnreadInv, Read
<1>2. PICK n \in 1 .. Len(wire) : /\ buffer' = buffer \o SubSeq(wire, 1, n)
                                  /\ wire' = SubSeq(wire, n + 1, Len(wire))
  BY DEF Read, Ends
<1> DEFINE u == SubSeq(wire, 1, n)
           v == SubSeq(wire, n + 1, Len(wire))
<1>3. n \in Nat /\ n <= Len(wire)
  BY <1>1
<1>4. u \in Seq(Byte) /\ v \in Seq(Byte)
  BY <1>1, <1>3, Beginning, Cutting
<1>5. u \o v = wire
  BY <1>1, <1>3, Rejoined
<1> HIDE DEF u, v
<1>6. buffer' = buffer \o u /\ wire' = v
  BY <1>2 DEF u, v
<1>7. buffer \o u \in Seq(Byte)
  BY <1>1, <1>4
<1>8. \A s \in Seq(Byte) : SubSeq(s, 1, Len(s)) = s
  OBVIOUS
<1>9. 0 + 1 = 1
  OBVIOUS
<1>10. Rest = buffer \o wire
  BY <1>1, <1>8, <1>9 DEF Rest
<1>11. Rest' = (buffer \o u) \o v
  <2> DEFINE x == buffer \o u
  <2>1. x \in Seq(Byte) /\ buffer' = x
    BY <1>6, <1>7
  <2> HIDE DEF x
  <2>2. SubSeq(x, 1, Len(x)) = x
    BY <1>8, <2>1
  <2>3. Rest' = SubSeq(x, 0 + 1, Len(x)) \o v
    BY <1>1, <1>6, <2>1 DEF Rest
  <2> QED
    BY <1>9, <2>2, <2>3 DEF x
<1>12. (buffer \o u) \o v = buffer \o (u \o v)
  <2>1. buffer \in Seq(Byte) /\ u \in Seq(Byte) /\ v \in Seq(Byte)
    BY <1>1, <1>4
  <2> QED
    BY ONLY <2>1, BytesAssoc
<1> QED
  BY <1>5, <1>10, <1>11, <1>12, Zenon

\* What is sent comes after what was.
LEMMA RestSent ==
    ASSUME SerialInv, KeepsUnread, NEW u \in Seq(Byte), wire' = wire \o u, UNCHANGED <<buffer, pos>>
    PROVE  Rest' = Rest \o u
<1>1. wire \in Seq(Byte) /\ buffer \in Seq(Byte) /\ pos \in Nat
  BY DEF SerialInv, StreamInv
<1> DEFINE left == SubSeq(buffer, pos + 1, Len(buffer))
<1>2. left \in Seq(Byte)
  BY <1>1
<1>3. Rest = left \o wire /\ Rest' = left \o (wire \o u)
  BY DEF Rest
<1> HIDE DEF left
<1>4. (left \o wire) \o u = left \o (wire \o u)
  <2>1. left \in Seq(Byte) /\ wire \in Seq(Byte) /\ u \in Seq(Byte)
    BY <1>1, <1>2
  <2> QED
    BY ONLY <2>1, BytesAssoc
<1> QED
  BY <1>3, <1>4

-----------------------------------------------------------------------------
(* The parsers, step by step.                                              *)

\* What is to be parsed begins with a packet, and is that packet only if all
\* of it is there.
LEMMA FirstPacket ==
    ASSUME SerialInv, UnreadInv, Parse, NEW q \in Seq(Sent), Stream(Rest, q)
    PROVE  /\ q # <<>> /\ Head(q) \in Sent
           /\ buffer[pos + 1] = [packet |-> Head(q), i |-> 1]
           /\ Length(Head(q)) <= Available => Skip(Length(Head(q))) = 0
           /\ Stream(SubSeq(Rest, Length(Head(q)) + 1, Len(Rest)), Tail(q))
<1>1. /\ Rest \in Seq(Byte) /\ Available \in Nat /\ Available <= Len(Rest)
      /\ \A k \in 1 .. Available : Rest[k] = buffer[pos + k]
  BY RestIs DEF UnreadInv
<1>2. 1 <= Available
  <2>1. common.pktLength \in {5, 7, 9, 13} /\ common.pktLength <= Available
    BY DEF SerialInv, StartInv, StartTypeOK, PacketLengths, Parse
  <2> QED
    BY <1>1, <2>1
<1>3. q # <<>>
  <2>1. Rest # <<>>
    BY <1>1, <1>2
  <2> QED
    BY <1>1, <2>1, StreamEnds
<1>4. Head(q) \in Sent
  BY <1>3
<1> DEFINE p == Head(q)
           n == Length(p)
<1>5. /\ \A i \in 1 .. n : Rest[i] = [packet |-> p, i |-> i]
      /\ Stream(SubSeq(Rest, n + 1, Len(Rest)), Tail(q))
  BY <1>1, <1>3, StreamShrinks
<1>6. n \in {5, 7, 9, 13}
  BY LengthIs
<1> HIDE DEF p, n
<1>7. buffer[pos + 1] = [packet |-> p, i |-> 1]
  <2>1. 1 \in 1 .. n /\ 1 \in 1 .. Available
    BY <1>1, <1>2, <1>6
  <2> QED
    BY <1>1, <1>5, <2>1
<1>8. ASSUME n <= Available
      PROVE  Skip(n) = 0
  <2>1. ASSUME NEW k \in 1 .. n
        PROVE  IsHeader(k) <=> k = 1
    <3>1. k \in 1 .. Available /\ k <= Available
      BY <1>1, <1>6, <1>8
    <3>2. buffer[pos + k] = [packet |-> p, i |-> k]
      BY <1>1, <1>5, <3>1
    <3> QED
      BY <3>1, <3>2 DEF IsHeader
  <2>2. \A k \in 2 .. n : ~IsHeader(k)
    BY <1>6, <2>1
  <2>3. IsHeader(1)
    BY <1>6, <2>1
  <2>4. {k \in 2 .. n : IsHeader(k)} = {}
    BY <2>2
  <2> QED
    BY <2>3, <2>4 DEF Skip
<1> QED
  BY <1>3, <1>4, <1>5, <1>7, <1>8 DEF p, n

\* A parser changes the channels and where it is, and no more.
LEMMA ParseKeeps ==
    ASSUME SerialInv, Parse
    PROVE  /\ SameTablet /\ UNCHANGED <<tablet, wire, hand, lost, step, trouble>>
           /\ common'.wcmTouch = common.wcmTouch /\ Now' = Now
<1>1. common \in CommonRec /\ tablet \in Tablet
  BY DEF SerialInv, StartInv, StartTypeOK, CommonRec
<1>2. PICK length : common' = [common EXCEPT !.pktLength = length]
  BY ParsedLength
<1>3. common'.wcmTouch = common.wcmTouch
  BY <1>1, <1>2 DEF CommonRec
<1>4. UNCHANGED <<tablet, wire, hand, lost, step, trouble>>
  BY DEF Parse
<1> QED
  BY <1>1, <1>3, <1>4 DEF SameTablet, Now

\* The packet at the front was parsed.
LEMMA PacketParsed ==
    ASSUME SerialInv, UnreadInv, Parse, lost = 0,
           NEW q \in Seq(Sent), q # <<>>, Stream(Rest, q), Length(Head(q)) <= Available,
           pos' = pos + Length(Head(q)), buffer' = buffer,
           NEW g \in Moments, Chain(Tail(q), g, Now),
           NEW c, c = channel', c \in Channels, OneChannel(c), Shown(c, Tail(q), g)
    PROVE  ReadInv'
<1>1. /\ SameTablet /\ UNCHANGED <<tablet, wire, lost>>
      /\ common'.wcmTouch = common.wcmTouch /\ Now' = Now
  BY ParseKeeps
<1> DEFINE n == Length(Head(q))
           r == SubSeq(Rest, n + 1, Len(Rest))
<1>2. n \in Nat
  BY LengthIs
<1>3. Rest' = r
  <2> HIDE DEF n
  <2> QED
    BY <1>1, <1>2, RestParsed DEF UnreadInv, n
<1>4. Stream(r, Tail(q))
  BY FirstPacket
<1>5. Tail(q) \in Seq(Sent)
  OBVIOUS
<1> HIDE DEF r, n
<1>6. Unread(c, r, Now)
  BY <1>4, <1>5 DEF Unread
<1>7. OneChannel(channel)'
  BY <1>1 DEF OneChannel
<1> QED
  BY <1>1, <1>3, <1>6, <1>7, ReadNext

\* A packet of a serial tablet
LEMMA SerialSettles ==
    ASSUME SerialInv, SettleInv, Parse, lost = 0, tablet.kind # "TPC"
    PROVE  ReadInv'
<1>1. UnreadInv /\ channel \in Channels /\ OneChannel(channel)
  BY DEF SettleInv, ReadInv
<1>2. PICK q \in Seq(Sent), m \in Moments :
        Stream(Rest, q) /\ Chain(q, m, Now) /\ Shown(channel, q, m)
  BY DEF SettleInv, ReadInv, Unread
<1>3. At("running") /\ ~trouble
  BY DEF SerialInv, QuietInv, Parse
<1>4. Known
  BY <1>3 DEF SerialInv, StartInv, DialogueInv, CalmInv, At
<1>5. common.model = tablet.kind
  BY <1>4 DEF Known
<1> DEFINE p == Head(q)
           L == common.pktLength
<1>6. /\ q # <<>> /\ p \in Sent /\ buffer[pos + 1] = [packet |-> p, i |-> 1]
      /\ Length(p) <= Available => Skip(Length(p)) = 0
  BY <1>1, <1>2, FirstPacket
<1>7. Length(p) = L /\ L \in {7, 9} /\ L <= Available
  BY <1>3, <1>4, <1>5, <1>6, SerialLengths DEF Parse
<1> HIDE DEF p, L
<1>8. Skip(L) = 0
  BY <1>6, <1>7
<1> DEFINE done == IF tablet.kind \in Protocol5 THEN Protocol5Packet(p)
                   ELSE PenPacket(channel, p, 0)
<1>9. SerialParse = Result(L, L, done.channel, done.events)
  BY <1>5, <1>6, <1>8 DEF SerialParse, L
<1>10. /\ channel' = done.channel /\ pos' = pos + Length(p) /\ buffer' = buffer
  <2> HIDE DEF done
  <2>1. SerialParse.count = L /\ SerialParse.channel = done.channel
    BY <1>9 DEF Result
  <2>2. channel' = SerialParse.channel /\ IF SerialParse.count = 0 THEN EndRead
           ELSE pos' = pos + SerialParse.count /\ UNCHANGED <<buffer, reading>>
    BY <1>5 DEF Parse
  <2>3. L # 0
    BY <1>7
  <2> QED
    BY <1>7, <2>1, <2>2, <2>3
<1>11. PICK g \in Moments : Tells(m, p, g) /\ Chain(Tail(q), g, Now)
  BY <1>2, <1>6, ChainShrinks DEF p
<1>12. ASSUME NEW c, c = channel', c \in Channels, OneChannel(c), Shown(c, Tail(q), g)
       PROVE  ReadInv'
  BY <1>1, <1>2, <1>6, <1>7, <1>10, <1>11, <1>12, PacketParsed DEF p
<1>13. m[0] \in Moment /\ g[0] \in Moment /\ m[1] \in Moment /\ g[1] \in Moment
  BY DEF Moments, Slots
<1>14. CASE tablet.kind \in Protocol5
  <2>1. p.slot \in Slots
    BY <1>6 DEF Sent
  <2>2. Turns5(p, m[p.slot], g[p.slot]) /\ \A s \in Slots : s # p.slot => g[s] = m[s]
    BY <1>11, <1>14 DEF Tells
  <2>3. \A s \in Slots : Shows5(channel[s], m[s])
    BY <1>2, <1>14 DEF Shown
  <2> DEFINE chans == Protocol5Packet(p).channel
  <2>4. m[p.slot] \in Moment /\ g[p.slot] \in Moment
    BY <2>1 DEF Moments
  <2>5. /\ chans \in Channels /\ Shows5(chans[p.slot], g[p.slot])
        /\ \A s \in Slots : s # p.slot => chans[s] = channel[s]
    BY <1>1, <1>6, <2>1, <2>2, <2>3, <2>4, Protocol5Shows
  <2>6. channel' = chans
    BY <1>10, <1>14
  <2> HIDE DEF chans
  <2>7. \A s \in Slots : Shows5(chans[s], g[s])
    BY <2>2, <2>3, <2>5
  <2>8. Shown(chans, Tail(q), g) /\ OneChannel(chans)
    BY <1>14, <2>7 DEF Shown, OneChannel
  <2> QED
    BY <1>12, <2>5, <2>6, <2>8
<1>15. CASE tablet.kind \notin Protocol5
  <2>0. tablet.kind # "TPC"
    OBVIOUS
  <2>1. p.kind # "TOUCH"
    BY <1>6 DEF Sent, PacketKinds
  <2>2. Turns4(p, m[0], g[0]) /\ p.slot = 0
    BY <1>11, <1>15, <2>1 DEF Tells
  <2>3. /\ m[0].tool \in Near \cup {NoTool}
        /\ ShowsOne(channel[0], m) \/ OutBefore(channel[0], q, m)
    BY <1>2, <1>15 DEF Shown
  <2>4. /\ m[0].tool \in Near => NearShown(channel[0], m[0])
        /\ m[0].tool = NoTool => channel[0].valid.proximity = FALSE
    <3>1. NoTool \notin Near
      BY DEF NoTool, Near, Pens, Mice
    <3>2. CASE OutBefore(channel[0], q, m)
      BY <3>1, <3>2 DEF OutBefore
    <3>3. CASE ShowsOne(channel[0], m)
      <4>1. channel[0].valid.type # "TOUCH"
        BY <1>1, <1>15, <2>0 DEF OneChannel
      <4> QED
        BY <3>3, <4>1 DEF ShowsOne
    <3> QED
      BY <2>3, <3>2, <3>3
  <2> DEFINE chans == PenPacket(channel, p, 0).channel
  <2>5. /\ chans \in Channels /\ chans[1] = channel[1]
        /\ g[0].tool \in Near => NearShown(chans[0], g[0])
        /\ g[0].tool = NoTool => /\ chans[0].valid.proximity = FALSE
                                /\ chans[0].valid.type # "TOUCH"
    BY <1>1, <1>6, <1>13, <2>2, <2>4, PenPacketShows
  <2>6. channel' = chans
    BY <1>10, <1>15
  <2> HIDE DEF chans
  <2>7. g[0].tool \in Near \cup {NoTool}
    BY <2>2 DEF Turns4, NearTurns, AwayTurns
  <2>8. ShowsOne(chans[0], g)
    BY <2>5 DEF ShowsOne
  <2>9. OneChannel(chans)
    <3>1. chans[0].valid.type # "TOUCH"
      <4>1. NearShown(chans[0], g[0]) => chans[0].valid.type \in Pens \cup {"CURSOR"}
        BY DEF NearShown, Typed
      <4> QED
        BY <2>5, <2>7, <4>1 DEF Pens
    <3> QED
      BY <1>1, <1>15, <2>5, <3>1 DEF OneChannel
  <2>10. Shown(chans, Tail(q), g)
    BY <1>15, <2>0, <2>7, <2>8 DEF Shown
  <2> QED
    BY <1>12, <2>5, <2>6, <2>9, <2>10
<1> QED
  BY <1>14, <1>15

\* What a digitizer's parser knows of the packet at the front
LEMMA DigitizerFront ==
    ASSUME SerialInv, UnreadInv, Parse, tablet.kind = "TPC", NEW q \in Seq(Sent), Stream(Rest, q)
    PROVE  /\ common.model = "TPC" /\ common.tablet_id = IdOf(tablet)
           /\ TouchLength(common.tablet_id) \in {5, 7}
           /\ TouchLength(common.tablet_id) <= Available
           /\ LooksLike = IF Head(q).kind = "TOUCH" THEN "touch" ELSE "plain"
<1>1. At("running") /\ ~trouble
  BY DEF SerialInv, QuietInv, Parse
<1>2. Known
  BY <1>1 DEF SerialInv, StartInv, DialogueInv, CalmInv, At
<1>3. common.model = "TPC"
  BY <1>1 DEF SerialInv, StartInv, LinkInv, At
<1>4. TouchLength(common.tablet_id) \in {5, 7}
  BY <1>2, TouchLengths DEF Known, UnreadInv
<1>5. TouchLength(common.tablet_id) <= Available
  <2>1. common.pktLength \in {5, 7, 9, 13} /\ common.pktLength <= Available /\ Available \in Nat
    BY RestIs DEF SerialInv, StartInv, StartTypeOK, PacketLengths, Parse, UnreadInv
  <2>2. TouchLength(common.tablet_id) <= common.pktLength
    BY <1>2, <1>4 DEF Known
  <2> QED
    BY <1>4, <2>1, <2>2
<1>6. LooksLike = IF Head(q).kind = "TOUCH" THEN "touch" ELSE "plain"
  <2> DEFINE p == Head(q)
  <2>1. buffer[pos + 1] = [packet |-> p, i |-> 1]
    BY FirstPacket
  <2> HIDE DEF p
  <2>2. buffer[pos + 1].i = 1 /\ buffer[pos + 1].packet = p
    BY <2>1
  <2>3. ~(buffer[pos + 1].i > 1)
    BY <2>2
  <2> QED
    BY <2>2, <2>3 DEF LooksLike, p
<1> QED
  BY <1>2, <1>3, <1>4, <1>5, <1>6 DEF Known

\* A finger's packet is taken, whether or not it is for anybody.
LEMMA TouchParsed ==
    ASSUME SerialInv, UnreadInv, Parse, tablet.kind = "TPC", NEW q \in Seq(Sent), Stream(Rest, q),
           Head(q).kind = "TOUCH"
    PROVE  /\ Length(Head(q)) <= Available
           /\ pos' = pos + Length(Head(q)) /\ buffer' = buffer
           /\ channel' = IF PenInControl \/ ~common.wcmTouch THEN channel
                         ELSE Passed(Finger(channel, 0, 1 \in Head(q).buttons), 0)
<1> DEFINE p == Head(q)
           n == TouchLength(common.tablet_id)
<1>1. /\ common.model = "TPC" /\ common.tablet_id = IdOf(tablet) /\ n \in {5, 7} /\ n <= Available
      /\ LooksLike = "touch" /\ buffer[pos + 1] = [packet |-> p, i |-> 1]
      /\ n = Length(p)
  <2>1. n = Length(p)
    BY DigitizerFront DEF Length
  <2> QED
    BY <2>1, DigitizerFront, FirstPacket
<1>2. Skip(n) = 0
  BY <1>1, FirstPacket
<1> HIDE DEF p, n
<1> DEFINE r == ISDV4Parse
           unused == PenInControl \/ ~common.wcmTouch
<1>3. CASE unused
  <2>1. r = Result(n, n, channel, <<>>)
    BY <1>1, <1>3 DEF ISDV4Parse, n
  <2>2. r.count = n /\ r.channel = channel
    BY <2>1 DEF Result
  <2> HIDE DEF r
  <2>3. channel' = r.channel /\ IF r.count = 0 THEN EndRead ELSE pos' = pos + r.count /\ buffer' = buffer
    BY <1>1 DEF Parse, r
  <2>4. n # 0
    BY <1>1
  <2> QED
    BY <1>1, <1>3, <2>2, <2>3, <2>4 DEF p
<1>4. CASE ~unused
  <2> DEFINE one == 1 \in p.buttons
             touch == TouchPacket(p, n)
  <2>1. touch.channel = Passed(Finger(channel, 0, one), 0)
    <3>1. n # 13
      BY <1>1
    <3>2. touch = [channel |-> Passed(Finger(channel, 0, 1 \in p.buttons), 0),
                   events |-> <<Event(0, Finger(channel, 0, 1 \in p.buttons)[0].work)>>]
      BY <3>1 DEF TouchPacket
    <3> HIDE DEF touch
    <3> QED
      BY <3>2
  <2>2. r.count = n /\ r.channel = touch.channel
    <3>1. Complete(n) /\ n # 9 /\ ~(Skip(n) > 0)
      BY <1>1, <1>2 DEF Complete
    <3>2. \E soft : r = Result(n, n, touch.channel, soft)
      BY <1>1, <1>4, <3>1 DEF ISDV4Parse, n
    <3> HIDE DEF r, touch
    <3> QED
      BY <3>2 DEF Result
  <2> HIDE DEF r, touch
  <2>3. channel' = r.channel /\ IF r.count = 0 THEN EndRead ELSE pos' = pos + r.count /\ buffer' = buffer
    BY <1>1 DEF Parse, r
  <2>4. n # 0
    BY <1>1
  <2> QED
    BY <1>1, <1>4, <2>1, <2>2, <2>3, <2>4 DEF p
<1> QED
  BY <1>3, <1>4

\* A pen's ends touch, and is taken if all of it is there.
LEMMA PenParsed ==
    ASSUME SerialInv, UnreadInv, Parse, tablet.kind = "TPC", NEW q \in Seq(Sent), Stream(Rest, q),
           Head(q).kind = "PEN"
    PROVE  LET chans == IF TouchInControl THEN SoftOut(channel, 0) ELSE channel
           IN  /\ Length(Head(q)) = 9
               /\ ~Complete(9) => EndRead /\ channel' = chans
               /\ Complete(9) => /\ pos' = pos + 9 /\ buffer' = buffer
                                 /\ channel' = PenPacket(chans, Head(q), 0).channel
<1> DEFINE p == Head(q)
           chans == IF TouchInControl THEN SoftOut(channel, 0) ELSE channel
<1>1. /\ common.model = "TPC" /\ LooksLike = "plain" /\ buffer[pos + 1] = [packet |-> p, i |-> 1]
  BY DigitizerFront, FirstPacket
<1>2. Length(p) = 9
  BY DEF Length
<1>3. Complete(9) => Skip(9) = 0
  BY <1>2, FirstPacket DEF Complete
<1> HIDE DEF p, chans
<1> DEFINE r == ISDV4Parse
<1>4. channel' = r.channel /\ IF r.count = 0 THEN EndRead ELSE pos' = pos + r.count /\ buffer' = buffer
  BY <1>1 DEF Parse
<1>5. CASE ~Complete(9)
  <2>1. \E soft : r = Result(0, 9, chans, soft)
    BY <1>1, <1>5 DEF ISDV4Parse, chans
  <2> HIDE DEF r
  <2>2. r.count = 0 /\ r.channel = chans
    BY <2>1 DEF Result
  <2> QED
    BY <1>2, <1>4, <1>5, <2>2 DEF p, chans
<1>6. CASE Complete(9)
  <2> DEFINE pen == PenPacket(chans, p, 0)
  <2>1. \E soft : r = Result(9, 9, pen.channel, soft)
    <3>1. ~(Skip(9) > 0)
      BY <1>3, <1>6
    <3>2. buffer[pos + 1].packet = p
      BY <1>1
    <3> QED
      BY <1>1, <1>6, <3>1, <3>2 DEF ISDV4Parse, chans
  <2> HIDE DEF r, pen
  <2>2. r.count = 9 /\ r.channel = pen.channel
    BY <2>1 DEF Result
  <2> QED
    BY <1>2, <1>4, <1>6, <2>2 DEF p, chans, pen
<1> QED
  BY <1>5, <1>6

\* The one channel of a digitizer whose finger was parsed, or not passed on
LEMMA FingerShown ==
    ASSUME channel \in Channels, OneChannel(channel), tablet.kind = "TPC",
           NEW m \in Moments, m[0].tool \in (Near \cup {NoTool}) \ Mice, ShowsOne(channel[0], m),
           NEW p, NEW g \in Moments, g[0] = m[0], g[1].buttons = p.buttons,
           NEW c, c = IF PenInControl \/ ~common.wcmTouch THEN channel
                      ELSE Passed(Finger(channel, 0, 1 \in p.buttons), 0)
    PROVE  c \in Channels /\ OneChannel(c) /\ ShowsOne(c[0], g)
<1>1. 0 \in Slots /\ 1 \in Slots /\ NoTool \notin Near /\ tablet.kind \notin Protocol5
  BY DEF Slots, NoTool, Near, Pens, Mice, Protocol5
<1>2. /\ channel[0] \in [work: Records, valid: Records] /\ channel[0].valid.proximity \in BOOLEAN
  BY <1>1 DEF Channels, Records
<1>3. CASE PenInControl
  <2>1. c = channel
    BY <1>3
  <2>2. channel[0].valid.proximity = TRUE /\ channel[0].valid.type # "TOUCH"
    BY <1>2, <1>3 DEF PenInControl, Pens
  <2>3. m[0].tool # NoTool
    BY <2>2 DEF ShowsOne
  <2> QED
    BY <1>1, <2>1, <2>3 DEF ShowsOne
<1>4. CASE ~common.wcmTouch
  <2>1. c = channel
    BY <1>4
  <2>2. channel[0].valid.type # "TOUCH"
    BY <1>1, <1>4 DEF OneChannel
  <2> QED
    BY <2>1, <2>2 DEF ShowsOne
<1>5. CASE ~PenInControl /\ common.wcmTouch
  <2> DEFINE one == 1 \in p.buttons
             down == [Blank EXCEPT !.type = "TOUCH", !.proximity = one]
             first == [channel EXCEPT ![0].work = down]
  <2>1. c = [first EXCEPT ![0].valid = first[0].work]
    BY <1>5 DEF Passed, Finger
  <2>2. down \in Records /\ down.type = "TOUCH" /\ down.proximity = one
    <3>1. one \in BOOLEAN
      OBVIOUS
    <3>2. Blank \in Records
      BY DEF Blank, Records, Tags
    <3> HIDE DEF one
    <3> QED
      BY <3>1, <3>2 DEF Records, Tags
  <2> HIDE DEF down
  <2>3. first \in Channels /\ first[0].work = down /\ first[1] = channel[1]
    BY <1>1, <1>2, <2>2 DEF Channels
  <2> HIDE DEF first
  <2>4. c \in Channels /\ c[0].valid = down /\ c[1] = channel[1]
    <3>1. first[0] \in [work: Records, valid: Records]
      BY <1>1, <2>3 DEF Channels
    <3>2. c = [first EXCEPT ![0].valid = down]
      BY <2>1, <2>3
    <3>3. first \in Channels /\ down \in Records
      BY <2>2, <2>3
    <3> DEFINE new == [first[0] EXCEPT !.valid = down]
    <3>5. new \in [work: Records, valid: Records] /\ new.valid = down
      BY <3>1, <3>3
    <3>6. c = [first EXCEPT ![0] = new]
      BY <3>2
    <3> HIDE DEF new
    <3>7. 0 \in Slots /\ 1 \in Slots /\ 0 # 1
      BY DEF Slots
    <3>4. c \in Channels /\ c[0].valid = down /\ c[1] = first[1]
      BY <3>3, <3>5, <3>6, <3>7 DEF Channels
    <3> QED
      BY <2>3, <3>4
  <2>5. m[0].tool \notin Near
    <3>1. SUFFICES ASSUME m[0].tool \in Near
                   PROVE  FALSE
      OBVIOUS
    <3>2. m[0].tool \in Pens
      BY <3>1 DEF Near
    <3>3. channel[0].valid.proximity = TRUE /\ channel[0].valid.type \in Pens
      <4>1. NearShown(channel[0], m[0])
        BY <3>1 DEF ShowsOne
      <4> QED
        BY <3>2, <4>1 DEF NearShown, Typed, Own, Pens, Mice
    <3> QED
      BY <1>5, <3>3 DEF PenInControl
  <2>6. OneChannel(c)
    BY <1>1, <1>5, <2>4 DEF OneChannel
  <2>7. ShowsOne(c[0], g)
    BY <2>2, <2>4, <2>5 DEF ShowsOne
  <2> QED
    BY <2>4, <2>6, <2>7
<1> QED
  BY <1>3, <1>4, <1>5

\* The channel once the finger has gone out for a pen
LEMMA FingerOut ==
    ASSUME channel \in Channels, OneChannel(channel), tablet.kind = "TPC",
           NEW m \in Moments, m[0].tool \in Near \cup {NoTool},
           NEW q, q # <<>>, Head(q).kind # "TOUCH",
           ShowsOne(channel[0], m) \/ OutBefore(channel[0], q, m),
           NEW c, c = IF TouchInControl THEN SoftOut(channel, 0) ELSE channel
    PROVE  /\ c \in Channels /\ OneChannel(c)
           /\ ShowsOne(c[0], m) \/ OutBefore(c[0], q, m)
           /\ m[0].tool \in Near => NearShown(c[0], m[0])
           /\ m[0].tool = NoTool => c[0].valid.proximity = FALSE
<1>1. 0 \in Slots /\ 1 \in Slots /\ NoTool \notin Near /\ tablet.kind \notin Protocol5
  BY DEF Slots, NoTool, Near, Pens, Mice, Protocol5
<1> DEFINE v == channel[0].valid
<1>2. channel[0] \in [work: Records, valid: Records] /\ v.proximity \in BOOLEAN /\ v.type \in Tags
  BY <1>1 DEF Channels, Records
<1>3. m[0].tool \in Near => NearShown(channel[0], m[0])
  BY <1>1 DEF ShowsOne, OutBefore
<1>4. CASE TouchInControl
  <2>1. v.proximity = TRUE /\ v.type = "TOUCH"
    BY <1>2, <1>4 DEF TouchInControl
  <2>2. m[0].tool = NoTool
    <3>1. NearShown(channel[0], m[0]) => v.type # "TOUCH"
      BY DEF NearShown, Typed, Pens
    <3> QED
      BY <1>3, <2>1, <3>1
  <2> DEFINE out == [Blank EXCEPT !.type = v.type]
  <2>3. out \in Records /\ out.type = "TOUCH" /\ out.proximity = FALSE
    BY <2>1 DEF Blank, Records, Tags
  <2>4. c = [channel EXCEPT ![0].valid = out]
    BY <1>4 DEF SoftOut, Out
  <2> HIDE DEF out, v
  <2>5. c \in Channels /\ c[0].valid = out /\ c[1] = channel[1]
    BY <1>1, <1>2, <2>3, <2>4 DEF Channels
  <2>6. OneChannel(c)
    BY <1>1, <2>1, <2>3, <2>5 DEF OneChannel, v
  <2>7. OutBefore(c[0], q, m)
    BY <2>2, <2>3, <2>5 DEF OutBefore
  <2> QED
    BY <1>1, <2>2, <2>3, <2>5, <2>6, <2>7
<1>5. CASE ~TouchInControl
  <2>1. c = channel
    BY <1>5
  <2>2. v.type = "TOUCH" => v.proximity = FALSE
    BY <1>2, <1>5 DEF TouchInControl
  <2>3. m[0].tool = NoTool => v.proximity = FALSE
    BY <2>2 DEF ShowsOne, OutBefore
  <2> QED
    BY <1>3, <2>1, <2>3
<1> QED
  BY <1>4, <1>5

\* A digitizer's packet
LEMMA DigitizerSettles ==
    ASSUME SerialInv, SettleInv, Parse, lost = 0, tablet.kind = "TPC"
    PROVE  ReadInv'
<1>1. UnreadInv /\ channel \in Channels /\ OneChannel(channel) /\ tablet.kind \notin Protocol5
  BY DEF SettleInv, ReadInv, Protocol5
<1>2. PICK q \in Seq(Sent), m \in Moments :
        Stream(Rest, q) /\ Chain(q, m, Now) /\ Shown(channel, q, m)
  BY DEF SettleInv, ReadInv, Unread
<1> DEFINE p == Head(q)
<1>3. q # <<>> /\ p \in Sent
  BY <1>1, <1>2, FirstPacket
<1>4. PICK g \in Moments : Tells(m, p, g) /\ Chain(Tail(q), g, Now)
  BY <1>2, <1>3, ChainShrinks
<1>5. /\ m[0].tool \in (Near \cup {NoTool}) \ Mice
      /\ ShowsOne(channel[0], m) \/ OutBefore(channel[0], q, m)
  BY <1>1, <1>2 DEF Shown, Near, Mice, NoTool
<1>6. m[0] \in Moment /\ g[0] \in Moment
  BY DEF Moments, Slots
<1> HIDE DEF p
<1>7. CASE p.kind = "TOUCH"
  <2>1. g[0] = m[0] /\ g[1].buttons = p.buttons
    BY <1>1, <1>4, <1>7 DEF Tells, Slots
  <2>2. ShowsOne(channel[0], m)
    BY <1>5, <1>7 DEF OutBefore, p
  <2> DEFINE c == IF PenInControl \/ ~common.wcmTouch THEN channel
                  ELSE Passed(Finger(channel, 0, 1 \in p.buttons), 0)
  <2>3. /\ Length(p) <= Available /\ pos' = pos + Length(p) /\ buffer' = buffer
        /\ channel' = c
    BY <1>1, <1>2, <1>7, TouchParsed DEF p
  <2>4. c \in Channels /\ OneChannel(c) /\ ShowsOne(c[0], g)
    BY <1>1, <1>5, <2>1, <2>2, FingerShown
  <2> HIDE DEF c
  <2>5. Shown(c, Tail(q), g)
    BY <1>1, <1>5, <2>1, <2>4 DEF Shown
  <2> QED
    BY <1>1, <1>2, <1>3, <1>4, <2>3, <2>4, <2>5, PacketParsed DEF p
<1>8. CASE p.kind # "TOUCH"
  <2>1. p.kind = "PEN" /\ Turns4(p, m[0], g[0])
    BY <1>1, <1>4, <1>8 DEF Tells, Turns4
  <2> DEFINE chans == IF TouchInControl THEN SoftOut(channel, 0) ELSE channel
  <2>2. /\ Length(p) = 9
        /\ ~Complete(9) => EndRead /\ channel' = chans
        /\ Complete(9) => /\ pos' = pos + 9 /\ buffer' = buffer
                          /\ channel' = PenPacket(chans, p, 0).channel
    BY <1>1, <1>2, <2>1, PenParsed DEF p
  <2>3. /\ chans \in Channels /\ OneChannel(chans)
        /\ ShowsOne(chans[0], m) \/ OutBefore(chans[0], q, m)
        /\ m[0].tool \in Near => NearShown(chans[0], m[0])
        /\ m[0].tool = NoTool => chans[0].valid.proximity = FALSE
    BY <1>1, <1>3, <1>5, <1>8, FingerOut DEF p
  <2> HIDE DEF chans
  <2>4. CASE ~Complete(9)
    <3>1. Shown(chans, q, m)
      BY <1>1, <1>5, <2>3 DEF Shown
    <3>2. /\ SameTablet /\ UNCHANGED <<tablet, wire, lost>>
          /\ common'.wcmTouch = common.wcmTouch /\ Now' = Now
      BY ParseKeeps
    <3>3. Rest' = Rest
      BY <1>1, <2>2, <2>4, <3>2, RestKept DEF UnreadInv
    <3>4. Unread(chans, Rest, Now)
      BY <1>2, <3>1 DEF Unread
    <3>5. OneChannel(channel)'
      BY <2>2, <2>3, <2>4, <3>2 DEF OneChannel
    <3>6. channel' = chans
      BY <2>2, <2>4
    <3> QED
      BY <2>3, <3>2, <3>3, <3>4, <3>5, <3>6, ReadNext
  <2>5. CASE Complete(9)
    <3> DEFINE c == PenPacket(chans, p, 0).channel
    <3>1. /\ c \in Channels /\ c[1] = chans[1]
          /\ g[0].tool \in Near => NearShown(c[0], g[0])
          /\ g[0].tool = NoTool => /\ c[0].valid.proximity = FALSE
                                  /\ c[0].valid.type # "TOUCH"
      BY <1>3, <1>6, <2>1, <2>3, PenPacketShows
    <3>2. channel' = c /\ pos' = pos + Length(p) /\ buffer' = buffer
      BY <2>2, <2>5
    <3> HIDE DEF c
    <3>3. g[0].tool \in (Near \cup {NoTool}) \ Mice
      BY <2>1 DEF Turns4, NearTurns, AwayTurns, NoTool, Mice
    <3>4. ShowsOne(c[0], g)
      BY <3>1 DEF ShowsOne
    <3>5. OneChannel(c)
      <4>1. NearShown(c[0], g[0]) => c[0].valid.type # "TOUCH"
        BY DEF NearShown, Typed, Pens
      <4>2. c[0].valid.type # "TOUCH"
        BY <3>1, <3>3, <4>1
      <4> QED
        BY <1>1, <2>3, <3>1, <4>2 DEF OneChannel
    <3>6. Shown(c, Tail(q), g)
      BY <1>1, <3>3, <3>4 DEF Shown
    <3>7. Length(p) <= Available
      BY <2>2, <2>5 DEF Complete
    <3> QED
      BY <1>1, <1>2, <1>3, <1>4, <3>1, <3>2, <3>5, <3>6, <3>7, PacketParsed DEF p
  <2> QED
    BY <2>4, <2>5
<1> QED
  BY <1>7, <1>8

-----------------------------------------------------------------------------
(* The tools: what is sent leads on from what was near the tablet.         *)

\* The packets tell moment c after moment b.
Told(packets, b, c) ==
    \A q \in Seq(Sent), a \in Moments : Chain(q, a, b) => Chain(q \o packets, a, c)

\* One packet tells what it tells, ...
LEMMA ToldOne ==
    ASSUME NEW f \in Sent, NEW b \in Moments, NEW c \in Moments, Tells(b, f, c)
    PROVE  Told(<<f>>, b, c)
<1>1. SUFFICES ASSUME NEW q \in Seq(Sent), NEW a \in Moments, Chain(q, a, b)
               PROVE  Chain(q \o <<f>>, a, c)
  BY DEF Told
<1>2. Append(q, f) = q \o <<f>>
  OBVIOUS
<1>3. Chain(Append(q, f), a, c)
  BY <1>1, ChainGrows
<1> QED
  BY <1>2, <1>3

\* ... and two runs of packets what both tell.
LEMMA ToldBoth ==
    ASSUME NEW u \in Seq(Sent), NEW v \in Seq(Sent), NEW b, NEW c, NEW d,
           Told(u, b, c), Told(v, c, d)
    PROVE  Told(u \o v, b, d)
<1>1. SUFFICES ASSUME NEW q \in Seq(Sent), NEW a \in Moments, Chain(q, a, b)
               PROVE  Chain(q \o (u \o v), a, d)
  BY DEF Told
<1>2. q \o u \in Seq(Sent)
  OBVIOUS
<1>3. Chain(q \o u, a, c)
  BY <1>1 DEF Told
<1>4. Chain((q \o u) \o v, a, d)
  BY <1>2, <1>3 DEF Told
<1>5. (q \o u) \o v = q \o (u \o v)
  BY Assoc
<1> QED
  BY <1>4, <1>5

\* A moment of one hand
At0(h) == [s \in Slots |-> Whole(h[s])]

\* The moment of a hand has its tools and buttons.
LEMMA HandMoment ==
    ASSUME NEW h \in [Slots -> Held]
    PROVE  /\ At0(h) \in Moments
           /\ \A s \in Slots : /\ At0(h)[s].tool = h[s].tool /\ At0(h)[s].buttons = h[s].buttons
                               /\ At0(h)[s].stage = "whole" /\ h[s].tool \in {NoTool, "FINGER"} \cup Near
                               /\ h[s].buttons \in SUBSET {1, 2, 4, 8}
<1>1. \A s \in Slots : Whole(h[s]) \in Moment
  BY DEF Held, Whole, Moment, Near, Stages
<1> QED
  BY <1>1 DEF At0, Moments, Whole, Held, Near

\* The packets of a position
LEMMA PositionTold ==
    ASSUME NEW h \in [Slots -> Held], NEW s \in Slots, NEW m \in Moments,
           tablet.kind \in Serial \cup {"TPC"},
           h[s].tool \in Near, s = 1 => tablet.kind \in Protocol5,
           tablet.kind = "TPC" => h[s].tool \notin Mice,
           h[s].tool = "ERASER" => EraserBit \in h[s].buttons,
           m[s].tool \in {h[s].tool} \cup (IF tablet.kind \in Protocol5 THEN {} ELSE {NoTool}),
           \A o \in Slots : o # s => m[o] = At0(h)[o]
    PROVE  Told(Position(h, s), m, At0(h))
<1> DEFINE g == At0(h)
           t == h[s].tool
           b == h[s].buttons
<1>1. /\ g \in Moments /\ g[s].tool = t /\ g[s].buttons = b /\ g[s].stage = "whole"
      /\ b \in SUBSET {1, 2, 4, 8}
  BY HandMoment
<1>2. t \in Near /\ t \in {NoTool, "FINGER"} \cup Pens \cup Mice /\ TRUE \in BOOLEAN
  BY DEF Near
<1>3. \A o \in Slots : o # s => g[o] = m[o]
  OBVIOUS
<1>4. {"MOUSE", "ROTATION", "P4"} \subseteq PacketKinds
      /\ (tablet.kind \in Protocol5 \cup {"TPC"} => "PEN" \in PacketKinds)
  BY DEF PacketKinds
<1>5. Position(h, s) =
        CASE tablet.kind = "TPC" /\ t \in Pens -> <<Packet("PEN", 0, t, TRUE, b)>>
          [] tablet.kind \in Protocol5 /\ t \in Pens -> <<Packet("PEN", s, t, TRUE, b)>>
          [] tablet.kind \in Protocol5 /\ t = "MOUSE_4D" ->
               <<Packet("MOUSE", s, t, TRUE, b), Packet("ROTATION", s, t, TRUE, b)>>
          [] tablet.kind \in Protocol5 /\ t = "MOUSE_2D" -> <<Packet("MOUSE", s, t, TRUE, b)>>
          [] OTHER -> <<Packet("P4", 0, t, TRUE, b)>>
  BY DEF Position
<1>6. "TPC" \notin Protocol5
  BY DEF Protocol5
<1>7. s = 0 \/ tablet.kind \in Protocol5
  BY DEF Slots
<1> HIDE DEF g, t, b
<1>8. ASSUME tablet.kind \in Protocol5, NEW kind \in {"PEN", "MOUSE"},
             t \in (IF kind = "PEN" THEN Pens ELSE Mice), NEW x \in Moments,
             x[s].tool = t, x[s].buttons = b,
             x[s].stage = (IF t = "MOUSE_4D" THEN "half" ELSE "whole"),
             \A o \in Slots : o # s => x[o] = m[o]
      PROVE  Told(<<Packet(kind, s, t, TRUE, b)>>, m, x)
  <2> DEFINE p == Packet(kind, s, t, TRUE, b)
  <2>1. p \in Sent
    BY <1>1, <1>2, <1>4, <1>8, PacketSent
  <2>2. p.kind = kind /\ p.slot = s /\ p.proximity = TRUE /\ p.buttons = b
    BY DEF Packet
  <2> HIDE DEF p
  <2>3. m[s].tool = t
    BY <1>8 DEF t
  <2>4. PositionTurns(p, m[s], x[s])
    BY <1>8, <2>2, <2>3 DEF PositionTurns
  <2>5. Tells(m, p, x)
    BY <1>8, <2>2, <2>4 DEF Tells, Turns5
  <2>6. Told(<<p>>, m, x)
    BY <1>8, <2>1, <2>5, ToldOne
  <2> QED
    BY <2>6 DEF p
<1>9. CASE tablet.kind \in Protocol5 /\ t \in Pens
  <2>1. Position(h, s) = <<Packet("PEN", s, t, TRUE, b)>>
    BY <1>5, <1>6, <1>9 DEF Pens
  <2>2. t # "MOUSE_4D"
    BY <1>9 DEF Pens
  <2>3. Told(<<Packet("PEN", s, t, TRUE, b)>>, m, g)
    BY <1>1, <1>3, <1>8, <1>9, <2>2
  <2> QED
    BY <2>1, <2>3 DEF g
<1>10. CASE tablet.kind \in Protocol5 /\ t = "MOUSE_2D"
  <2>1. Position(h, s) = <<Packet("MOUSE", s, t, TRUE, b)>>
    BY <1>5, <1>6, <1>10 DEF Pens
  <2>2. t # "MOUSE_4D" /\ t \in Mice
    BY <1>10 DEF Mice
  <2>3. Told(<<Packet("MOUSE", s, t, TRUE, b)>>, m, g)
    BY <1>1, <1>3, <1>8, <1>10, <2>2
  <2> QED
    BY <2>1, <2>3 DEF g
<1>11. CASE tablet.kind \in Protocol5 /\ t = "MOUSE_4D"
  <2> DEFINE first == Packet("MOUSE", s, t, TRUE, b)
             second == Packet("ROTATION", s, t, TRUE, b)
             half == [tool |-> t, buttons |-> b, stage |-> "half"]
             x == [m EXCEPT ![s] = half]
  <2>1. Position(h, s) = <<first, second>>
    BY <1>5, <1>6, <1>11 DEF Pens
  <2>2. first \in Sent /\ second \in Sent
    BY <1>1, <1>2, <1>4, PacketSent
  <2>3. second.kind = "ROTATION" /\ second.slot = s /\ second.proximity = TRUE
    BY DEF Packet
  <2>4. half \in Moment /\ half.tool = t /\ half.buttons = b /\ half.stage = "half"
    BY <1>1, <1>2 DEF Moment, Stages
  <2> HIDE DEF half
  <2>5. x \in Moments /\ x[s] = half /\ \A o \in Slots : o # s => x[o] = m[o]
    BY <2>4 DEF Moments
  <2> HIDE DEF x, second
  <2>6. t \in Mice
    BY <1>11 DEF Mice
  <2>7. Told(<<first>>, m, x)
    <3>1. /\ x[s].tool = t /\ x[s].buttons = b
          /\ x[s].stage = (IF t = "MOUSE_4D" THEN "half" ELSE "whole")
      BY <1>11, <2>4, <2>5
    <3>2. Told(<<Packet("MOUSE", s, t, TRUE, b)>>, m, x)
      BY <1>8, <1>11, <2>5, <2>6, <3>1
    <3> QED
      BY <3>2
  <2> HIDE DEF first
  <2>8. RotationTurns(second, x[s], g[s])
    BY <1>1, <1>11, <2>3, <2>4, <2>5 DEF RotationTurns
  <2>9. \A o \in Slots : o # s => g[o] = x[o]
    BY <1>3, <2>5
  <2>10. Tells(x, second, g)
    BY <1>11, <2>3, <2>8, <2>9 DEF Tells, Turns5
  <2>11. Told(<<second>>, x, g)
    BY <1>1, <2>2, <2>5, <2>10, ToldOne
  <2>12. <<first>> \in Seq(Sent) /\ <<second>> \in Seq(Sent) /\ <<first>> \o <<second>> = <<first, second>>
    BY <2>2, Pair
  <2>13. Told(<<first>> \o <<second>>, m, g)
    BY <2>7, <2>11, <2>12, ToldBoth
  <2> QED
    BY <2>1, <2>12, <2>13 DEF g
<1>12. CASE tablet.kind \notin Protocol5
  <2>1. s = 0 /\ m[s].tool \in {t, NoTool}
    BY <1>7, <1>12 DEF t
  <2>3. PICK kind \in PacketKinds :
          /\ Position(h, s) = <<Packet(kind, 0, t, TRUE, b)>> /\ kind # "TOUCH"
          /\ tablet.kind = "TPC" => kind = "PEN"
    <3>1. CASE tablet.kind = "TPC"
      <4>1. t \in Pens
        BY <1>2, <3>1 DEF Near, t
      <4>2. Position(h, s) = <<Packet("PEN", 0, t, TRUE, b)>>
        BY <1>5, <1>12, <3>1, <4>1 DEF Pens
      <4> QED
        BY <1>4, <3>1, <4>2
    <3>2. CASE tablet.kind # "TPC"
      <4>1. Position(h, s) = <<Packet("P4", 0, t, TRUE, b)>>
        BY <1>5, <1>12, <3>2
      <4> QED
        BY <1>4, <3>2, <4>1
    <3> QED
      BY <3>1, <3>2
  <2> DEFINE p == Packet(kind, 0, t, TRUE, b)
  <2>4. p \in Sent
    BY <1>1, <1>2, <2>1, PacketSent
  <2>5. p.kind = kind /\ p.slot = 0 /\ p.proximity = TRUE /\ p.buttons = b /\ p.tool = t
    BY DEF Packet
  <2> HIDE DEF p
  <2>6. NearTurns(p, m[0], g[0])
    <3>1. t = "ERASER" => EraserBit \in b
      BY DEF t, b
    <3> QED
      BY <1>1, <1>2, <2>1, <2>5, <3>1 DEF NearTurns
  <2>7. Turns4(p, m[0], g[0])
    <3>1. tablet.kind = "TPC" => p.kind = "PEN" /\ g[0].tool \notin Mice
      BY <1>1, <2>1, <2>3, <2>5 DEF t
    <3> QED
      BY <1>1, <2>1, <2>6, <3>1 DEF Turns4
  <2>8. Tells(m, p, g)
    BY <1>3, <1>12, <2>1, <2>3, <2>5, <2>7 DEF Tells
  <2>9. Told(<<p>>, m, g)
    BY <1>1, <2>4, <2>8, ToldOne
  <2> QED
    BY <2>3, <2>9 DEF p, g
<1> QED
  BY <1>2, <1>9, <1>10, <1>11, <1>12 DEF Near, Mice

\* The packets that a tool sends at once are of one length.
LEMMA SameLengths ==
    ASSUME tablet.kind # "TPC", NEW p \in Sent
    PROVE  Length(p) = SerialLength(tablet.kind)
<1>1. p.kind \in PacketKinds
  BY DEF Sent
<1>2. p.kind # "TOUCH" /\ (p.kind = "PEN" => tablet.kind \in Protocol5)
  BY <1>1 DEF PacketKinds
<1> QED
  BY <1>2 DEF Length, SerialLength, Protocol5

\* All packets of one sending have one length.
LEMMA OneLength ==
    ASSUME NEW packets \in Seq(Sent), Len(packets) \in 1 .. 3,
           tablet.kind # "TPC" \/ Len(packets) = 1
    PROVE  \A j \in 1 .. Len(packets) : Length(packets[j]) = Length(packets[1])
<1>1. SUFFICES ASSUME NEW j \in 1 .. Len(packets)
               PROVE  Length(packets[j]) = Length(packets[1])
  OBVIOUS
<1>2. CASE tablet.kind # "TPC"
  <2>1. packets[j] \in Sent /\ packets[1] \in Sent
    OBVIOUS
  <2> QED
    BY <1>2, <2>1, SameLengths
<1>3. CASE Len(packets) = 1
  <2>1. j = 1
    BY <1>3
  <2> QED
    BY <2>1
<1> QED
  BY <1>2, <1>3

\* What is sent is what tells the new moment.
LEMMA SentSettles ==
    ASSUME SerialInv, SettleInv, lost = 0, At("running"), ~trouble,
           NEW packets \in Seq(Sent), Len(packets) \in 1 .. 3,
           tablet.kind # "TPC" \/ Len(packets) = 1,
           Sends(packets), NEW now \in Moments, now = Now', Told(packets, Now, now)
    PROVE  ReadInv'
<1>1. UnreadInv /\ channel \in Channels /\ OneChannel(channel)
  BY DEF SettleInv, ReadInv
<1>2. PICK q \in Seq(Sent), m \in Moments :
        Stream(Rest, q) /\ Chain(q, m, Now) /\ Shown(channel, q, m)
  BY DEF SettleInv, ReadInv, Unread
<1>3. StartTypeOK /\ tablet.streaming /\ UNCHANGED <<tablet, common, lost, buffer, pos, channel>>
  BY DEF SerialInv, StartInv, DialogueInv, CalmInv, At, Sends, startVars
<1> DEFINE u == Bytes(packets)
           r == Rest \o u
           all == q \o packets
<1>4. u \in Seq(Byte) /\ Stream(u, packets)
  BY <1>3, BytesSent, OneLength, BytesStream
<1>5. wire' = wire \o u
  BY <1>3 DEF Sends
<1> HIDE DEF u
<1>6. Rest' = r
  BY <1>1, <1>3, <1>4, <1>5, RestSent DEF UnreadInv
<1>7. Stream(r, all)
  <2>1. Rest \in Seq(Byte)
    BY <1>1, RestIs DEF UnreadInv
  <2> QED
    BY <1>2, <1>4, <2>1, StreamJoins
<1>8. Chain(all, m, now)
  BY <1>2 DEF Told
<1>9. all \in Seq(Sent) /\ (q # <<>> => all # <<>> /\ Head(all) = Head(q))
  <2>1. all \in Seq(Sent) /\ Len(all) = Len(q) + Len(packets)
        /\ \A k \in 1 .. Len(q) : all[k] = q[k]
    BY Joined
  <2> HIDE DEF all
  <2>2. ASSUME q # <<>>
        PROVE  all # <<>> /\ Head(all) = Head(q)
    <3>1. 1 \in 1 .. Len(q) /\ Len(q) \in Nat
      BY <2>2
    <3>2. all[1] = q[1] /\ Len(all) # 0
      BY <2>1, <3>1
    <3> QED
      BY <2>1, <2>2, <3>2
  <2> QED
    BY <2>1, <2>2
<1> HIDE DEF r, all
<1>10. Shown(channel, all, m)
  BY <1>2, <1>9 DEF Shown, OutBefore
<1>11. Unread(channel, r, now)
  BY <1>7, <1>8, <1>9, <1>10 DEF Unread
<1>12. SameTablet
  BY <1>3 DEF SameTablet, StartTypeOK
<1>13. OneChannel(channel)' /\ channel' \in Channels /\ channel' = channel /\ lost' = 0
  BY <1>1, <1>3 DEF OneChannel
<1> DEFINE c == channel
<1>14. c = channel' /\ Unread(c, r, now)
  BY <1>11, <1>13
<1> HIDE DEF c
<1> QED
  BY <1>6, <1>12, <1>13, <1>14, ReadNext

\* A tool comes, ...
LEMMA EnterSettles ==
    ASSUME SerialInv, SettleInv, At("running"), ~trouble, NEW s \in Slots, Enter(s)
    PROVE  HandsInv' /\ (lost = 0 => ReadInv')
<1>1. hand \in [Slots -> Held] /\ tablet.kind \in Serial \cup {"TPC"} /\ tablet' = tablet
  BY DEF SerialInv, StreamInv, StartInv, StartTypeOK, Tablet, Enter, Sends, startVars
<1>2. PICK t \in Tools[tablet.kind] : \E b \in Sendable(t) :
          LET h == [hand EXCEPT ![s] = [tool |-> t, buttons |-> b]]
              id == IF tablet.kind \in Protocol5 THEN <<Packet("ID", s, t, TRUE, {})>> ELSE <<>>
          IN  hand' = h /\ Sends(id \o Position(h, s))
  BY DEF Enter
<1>3. PICK b \in Sendable(t) :
          LET h == [hand EXCEPT ![s] = [tool |-> t, buttons |-> b]]
              id == IF tablet.kind \in Protocol5 THEN <<Packet("ID", s, t, TRUE, {})>> ELSE <<>>
          IN  hand' = h /\ Sends(id \o Position(h, s))
  BY <1>2
<1> DEFINE h == [hand EXCEPT ![s] = [tool |-> t, buttons |-> b]]
           id == IF tablet.kind \in Protocol5 THEN <<Packet("ID", s, t, TRUE, {})>> ELSE <<>>
<1>4. /\ t \in Near /\ (tablet.kind = "TPC" => t \in Pens) /\ b \in SUBSET {1, 2, 4, 8}
      /\ t = "ERASER" => EraserBit \in b
  BY <1>1, <1>2, <1>3, SerialAssumption DEF Sendable, Near
<1>5. /\ h \in [Slots -> Held] /\ h[s].tool = t /\ h[s].buttons = b
      /\ \A o \in Slots : o # s => h[o] = hand[o]
  <2> DEFINE new == [tool |-> t, buttons |-> b]
  <2>1. new \in Held /\ new.tool = t /\ new.buttons = b
    BY <1>4 DEF Held, Near
  <2> HIDE DEF new
  <2>2. [hand EXCEPT ![s] = new] \in [Slots -> Held] /\ [hand EXCEPT ![s] = new][s] = new
        /\ \A o \in Slots : o # s => [hand EXCEPT ![s] = new][o] = hand[o]
    BY <1>1, <2>1
  <2> QED
    BY <2>1, <2>2 DEF new
<1>6. hand' = h /\ Sends(id \o Position(h, s))
  BY <1>3
<1>7. hand[s].tool = NoTool /\ (s = 1 => tablet.kind \in Protocol5)
  BY DEF Enter
<1>8. t \notin Mice \/ tablet.kind # "TPC"
  BY <1>4 DEF Pens, Mice
<1>9. t # "FINGER" /\ t # NoTool
  BY <1>4 DEF Near, Pens, Mice, NoTool
<1> HIDE DEF h, id
<1>10. HandsInv'
  BY <1>1, <1>5, <1>6, <1>7, <1>8, <1>9 DEF SettleInv, HandsInv, Slots
<1>11. ASSUME lost = 0
       PROVE  ReadInv'
  <2>1. At0(hand) = Now /\ At0(h) = Now'
    BY <1>6 DEF At0, Now
  <2>2. Now \in Moments /\ At0(h) \in Moments
    BY <1>1, <1>5, <2>1, HandMoment
  <2>3. \A o \in Slots : o # s => At0(h)[o] = Now[o]
    BY <1>5 DEF At0, Now
  <2>4. Now[s].tool = NoTool
    BY <1>7 DEF Now, Whole
  <2>5. Position(h, s) \in Seq(Sent) /\ Len(Position(h, s)) \in 1 .. 2
    BY <1>5, PositionSent
  <2>6. CASE tablet.kind \in Protocol5
    <3> DEFINE p == Packet("ID", s, t, TRUE, {})
               named == [tool |-> t, buttons |-> {}, stage |-> "named"]
               m == [Now EXCEPT ![s] = named]
    <3>1. p \in Sent
      <4>1. "ID" \in PacketKinds /\ TRUE \in BOOLEAN /\ {} \in SUBSET {1, 2, 4, 8}
            /\ t \in {NoTool, "FINGER"} \cup Pens \cup Mice
        BY <1>4 DEF PacketKinds, Near
      <4> QED
        BY <4>1, PacketSent
    <3>2. p.kind = "ID" /\ p.slot = s /\ p.tool = t
      BY DEF Packet
    <3>3. named \in Moment /\ named.tool = t /\ named.stage = "named"
      BY <1>4 DEF Moment, Stages
    <3> HIDE DEF p, named
    <3>4. m \in Moments /\ m[s] = named /\ \A o \in Slots : o # s => m[o] = Now[o]
      BY <2>2, <3>3 DEF Moments
    <3> HIDE DEF m
    <3>5. Tells(Now, p, m)
      <4>1. IdTurns(p, m[s])
        BY <1>4, <3>2, <3>3, <3>4 DEF IdTurns
      <4> QED
        BY <2>6, <3>2, <3>4, <4>1 DEF Tells, Turns5
    <3>6. Told(<<p>>, Now, m)
      BY <2>2, <3>1, <3>4, <3>5, ToldOne
    <3>7. Told(Position(h, s), m, At0(h))
      <4>1. m[s].tool \in {h[s].tool} \cup (IF tablet.kind \in Protocol5 THEN {} ELSE {NoTool})
        BY <1>5, <3>3, <3>4
      <4>2. \A o \in Slots : o # s => m[o] = At0(h)[o]
        BY <2>3, <3>4
      <4> QED
        BY <1>1, <1>4, <1>5, <1>7, <1>8, <3>4, <4>1, <4>2, PositionTold
    <3>8. id = <<p>> /\ <<p>> \in Seq(Sent) /\ Len(<<p>>) = 1
      <4>1. id = <<p>>
        BY <2>6 DEF id, p
      <4> QED
        BY <3>1, <4>1, PacketsSent
    <3>9. Told(id \o Position(h, s), Now, At0(h))
      BY <2>5, <3>6, <3>7, <3>8, ToldBoth
    <3>10. id \o Position(h, s) \in Seq(Sent) /\ Len(id \o Position(h, s)) \in 1 .. 3
      <4>1. /\ id \o Position(h, s) \in Seq(Sent)
            /\ Len(id \o Position(h, s)) = Len(id) + Len(Position(h, s))
        BY <2>5, <3>8, Joined
      <4>2. Len(id) = 1
        BY <3>8
      <4>3. \A i \in 1 .. 2 : 1 + i \in 1 .. 3
        OBVIOUS
      <4> QED
        BY <2>5, <4>1, <4>2, <4>3
    <3>11. tablet.kind # "TPC"
      BY <2>6 DEF Protocol5
    <3> QED
      BY <1>6, <1>11, <2>1, <2>2, <3>9, <3>10, <3>11, SentSettles
  <2>7. CASE tablet.kind \notin Protocol5
    <3>1. id \o Position(h, s) = Position(h, s)
      BY <2>5, <2>7 DEF id
    <3>2. Told(Position(h, s), Now, At0(h))
      <4>1. Now[s].tool \in {h[s].tool} \cup (IF tablet.kind \in Protocol5 THEN {} ELSE {NoTool})
        BY <2>4, <2>7
      <4>2. \A o \in Slots : o # s => Now[o] = At0(h)[o]
        BY <2>3
      <4> QED
        BY <1>1, <1>4, <1>5, <1>7, <1>8, <2>2, <4>1, <4>2, PositionTold
    <3>3. Len(Position(h, s)) \in 1 .. 3
      BY <2>5
    <3>4. tablet.kind = "TPC" => Len(Position(h, s)) = 1
      <4>1. SUFFICES ASSUME tablet.kind = "TPC"
                     PROVE  Len(Position(h, s)) = 1
        OBVIOUS
      <4>2. t \in Pens
        BY <1>4, <4>1
      <4>3. Position(h, s) = <<Packet("PEN", 0, t, TRUE, b)>>
        BY <1>5, <4>1, <4>2 DEF Position, Protocol5, Pens
      <4> QED
        BY <4>3
    <3> QED
      BY <1>6, <1>11, <2>1, <2>2, <2>5, <3>1, <3>2, <3>3, <3>4, SentSettles
  <2> QED
    BY <2>6, <2>7
<1> QED
  BY <1>10, <1>11

\* ... is moved, or its buttons, ...
LEMMA PressSettles ==
    ASSUME SerialInv, SettleInv, At("running"), ~trouble, NEW s \in Slots, Press(s)
    PROVE  HandsInv' /\ (lost = 0 => ReadInv')
<1>1. hand \in [Slots -> Held] /\ tablet.kind \in Serial \cup {"TPC"} /\ tablet' = tablet
  BY DEF SerialInv, StreamInv, StartInv, StartTypeOK, Tablet, Press, Sends, startVars
<1>2. PICK b \in Sendable(hand[s].tool) :
        LET h == [hand EXCEPT ![s].buttons = b] IN hand' = h /\ Sends(Position(h, s))
  BY DEF Press
<1> DEFINE h == [hand EXCEPT ![s].buttons = b]
           t == hand[s].tool
<1>3. b \in SUBSET {1, 2, 4, 8} /\ (t = "ERASER" => EraserBit \in b)
  BY <1>1, SerialAssumption DEF Sendable
<1>4. t \in Near
  BY <1>1 DEF Press, Held, Near
<1>5. /\ h \in [Slots -> Held] /\ h[s].tool = t /\ h[s].buttons = b
      /\ \A o \in Slots : o # s => h[o] = hand[o]
  <2> DEFINE new == [hand[s] EXCEPT !.buttons = b]
  <2>1. new \in Held /\ new.tool = t /\ new.buttons = b
    BY <1>1, <1>3 DEF Held
  <2>2. h = [hand EXCEPT ![s] = new]
    OBVIOUS
  <2> HIDE DEF new, h
  <2> QED
    BY <1>1, <2>1, <2>2
<1>6. hand' = h /\ Sends(Position(h, s))
  BY <1>2
<1>7. /\ s = 1 => tablet.kind \in Protocol5
      /\ tablet.kind = "TPC" => t \notin Mice
  <2>1. s \in {0, 1} /\ NoTool \notin Near /\ "FINGER" \notin Near
    BY DEF Slots, Near, Pens, Mice, NoTool
  <2>2. HandsInv
    BY DEF SettleInv
  <2>3. s = 1 => tablet.kind \in Protocol5
    BY <1>4, <2>1, <2>2 DEF HandsInv
  <2>4. tablet.kind = "TPC" => s = 0
    BY <2>1, <2>3 DEF Protocol5
  <2> QED
    BY <2>2, <2>3, <2>4 DEF HandsInv
<1> HIDE DEF h, t
<1>8. HandsInv'
  <2>1. \A o \in Slots : hand'[o].tool = hand[o].tool
    BY <1>5, <1>6 DEF t
  <2>2. tablet.kind \notin Protocol5 => hand'[1] = hand[1]
    <3>1. s # 1 /\ tablet.kind \notin Protocol5 => hand'[1] = hand[1]
      BY <1>5, <1>6 DEF Slots
    <3> QED
      BY <1>7, <3>1
  <2> QED
    BY <1>1, <2>1, <2>2 DEF SettleInv, HandsInv, Slots
<1>9. ASSUME lost = 0
      PROVE  ReadInv'
  <2>1. At0(hand) = Now /\ At0(h) = Now'
    BY <1>6 DEF At0, Now
  <2>2. Now \in Moments /\ At0(h) \in Moments /\ Now[s].tool = t
    BY <1>1, <1>5, <2>1, HandMoment DEF t
  <2>3. \A o \in Slots : o # s => Now[o] = At0(h)[o]
    BY <1>5 DEF At0, Now
  <2>4. Position(h, s) \in Seq(Sent) /\ Len(Position(h, s)) \in 1 .. 2
    BY <1>5, PositionSent
  <2>5. Told(Position(h, s), Now, At0(h))
    <3>1. Now[s].tool \in {h[s].tool} \cup (IF tablet.kind \in Protocol5 THEN {} ELSE {NoTool})
      BY <1>5, <2>2
    <3> QED
      BY <1>1, <1>3, <1>4, <1>5, <1>7, <2>2, <2>3, <3>1, PositionTold
  <2>6. Len(Position(h, s)) \in 1 .. 3
    BY <2>4
  <2>7. tablet.kind = "TPC" => Len(Position(h, s)) = 1
    <3>1. SUFFICES ASSUME tablet.kind = "TPC"
                   PROVE  Len(Position(h, s)) = 1
      OBVIOUS
    <3>2. t \in Pens
      BY <1>4, <1>7, <3>1 DEF Near
    <3>3. Position(h, s) = <<Packet("PEN", 0, t, TRUE, b)>>
      BY <1>5, <3>1, <3>2 DEF Position, Protocol5, Pens
    <3> QED
      BY <3>3
  <2> QED
    BY <1>6, <1>9, <2>1, <2>2, <2>4, <2>5, <2>6, <2>7, SentSettles
<1> QED
  BY <1>8, <1>9

\* ... or goes.
LEMMA LeaveSettles ==
    ASSUME SerialInv, SettleInv, At("running"), ~trouble, NEW s \in Slots, Leave(s)
    PROVE  HandsInv' /\ (lost = 0 => ReadInv')
<1>1. hand \in [Slots -> Held] /\ tablet.kind \in Serial \cup {"TPC"} /\ tablet' = tablet
  BY DEF SerialInv, StreamInv, StartInv, StartTypeOK, Tablet, Leave, Sends, startVars
<1> DEFINE h == [hand EXCEPT ![s] = Free]
           t == hand[s].tool
<1>2. hand' = h /\ Sends(Away(s)) /\ t \in Near
  BY <1>1 DEF Leave, Held, Near
<1>3. Free \in Held /\ Free.tool = NoTool
  BY DEF Free, Held
<1>4. h \in [Slots -> Held] /\ h[s] = Free /\ \A o \in Slots : o # s => h[o] = hand[o]
  BY <1>1, <1>3
<1> HIDE DEF h, t
<1>5. s = 1 => tablet.kind \in Protocol5
  <2>1. NoTool \notin Near /\ "FINGER" \notin Near
    BY DEF Near, Pens, Mice, NoTool
  <2> QED
    BY <1>2, <2>1 DEF SettleInv, HandsInv, t
<1>6. HandsInv'
  <2>1. NoTool \notin Mice /\ NoTool # "FINGER"
    BY DEF Mice, NoTool
  <2> QED
    BY <1>1, <1>2, <1>3, <1>4, <1>5, <2>1 DEF SettleInv, HandsInv, Slots
<1>7. ASSUME lost = 0
      PROVE  ReadInv'
  <2>1. At0(hand) = Now /\ At0(h) = Now'
    BY <1>2 DEF At0, Now
  <2> DEFINE g == At0(h)
  <2>2. /\ Now \in Moments /\ g \in Moments /\ Now[s].tool = t
        /\ g[s].tool = NoTool /\ g[s].stage = "whole"
    BY <1>1, <1>3, <1>4, <2>1, HandMoment DEF t
  <2>3. \A o \in Slots : o # s => g[o] = Now[o]
    BY <1>4 DEF At0, Now
  <2>4. Away(s) \in Seq(Sent) /\ Len(Away(s)) = 1
    BY <1>1, AwaySent
  <2>5. PICK p \in Sent : Away(s) = <<p>>
    <3>1. \A u \in Seq(Sent) : Len(u) = 1 => u[1] \in Sent /\ u = <<u[1]>>
      OBVIOUS
    <3> QED
      BY ONLY <2>4, <3>1
  <2>6. /\ tablet.kind = "TPC" => p = Packet("PEN", 0, NoTool, FALSE, {})
        /\ tablet.kind \in Protocol5 => p = Packet("OUT", s, NoTool, FALSE, {})
        /\ tablet.kind \notin Protocol5 \cup {"TPC"} => p = Packet("P4", 0, t, FALSE, {})
    <3>1. "TPC" \notin Protocol5
      BY DEF Protocol5
    <3>2. /\ tablet.kind = "TPC" => Away(s) = <<Packet("PEN", 0, NoTool, FALSE, {})>>
          /\ tablet.kind \in Protocol5 => Away(s) = <<Packet("OUT", s, NoTool, FALSE, {})>>
          /\ tablet.kind \notin Protocol5 \cup {"TPC"} => Away(s) = <<Packet("P4", 0, t, FALSE, {})>>
      BY <3>1 DEF Away, t
    <3>3. \A x, y : <<x>> = <<y>> => x = y
      OBVIOUS
    <3> QED
      BY <2>5, <3>2, <3>3
  <2> HIDE DEF g
  <2>7. Tells(Now, p, g)
    <3>1. CASE tablet.kind \in Protocol5
      <4>1. p.kind = "OUT" /\ p.slot = s
        BY <2>6, <3>1 DEF Packet
      <4>2. OutTurns(p, g[s])
        BY <2>2, <4>1 DEF OutTurns
      <4> QED
        BY <2>3, <3>1, <4>1, <4>2 DEF Tells, Turns5
    <3>2. CASE tablet.kind \notin Protocol5
      <4>1. s = 0
        BY <1>5, <3>2 DEF Slots
      <4>2. /\ p.kind # "TOUCH" /\ p.slot = 0 /\ p.proximity = FALSE
            /\ tablet.kind = "TPC" => p.kind = "PEN"
        BY <2>6, <3>2 DEF Packet
      <4>3. AwayTurns(p, Now[0], g[0])
        BY <1>2, <2>2, <4>1, <4>2 DEF AwayTurns
      <4>4. Turns4(p, Now[0], g[0])
        <5>1. g[0].tool \notin Mice
          BY <2>2, <4>1 DEF Mice, NoTool
        <5> QED
          BY <2>2, <4>1, <4>2, <4>3, <5>1 DEF Turns4
      <4> QED
        BY <2>3, <3>2, <4>1, <4>2, <4>4 DEF Tells
    <3> QED
      BY <3>1, <3>2
  <2>8. Told(Away(s), Now, g)
    BY <2>2, <2>5, <2>7, ToldOne
  <2>9. Len(Away(s)) \in 1 .. 3
    BY <2>4
  <2> QED
    BY <1>2, <1>7, <2>1, <2>2, <2>4, <2>8, <2>9, SentSettles DEF g
<1> QED
  BY <1>6, <1>7

\* Fingers come, move and go.
LEMMA TouchSettles ==
    ASSUME SerialInv, SettleInv, At("running"), ~trouble, Touch
    PROVE  HandsInv' /\ (lost = 0 => ReadInv')
<1>1. /\ hand \in [Slots -> Held] /\ tablet.kind = "TPC" /\ tablet' = tablet
      /\ tablet.kind \notin Protocol5
  BY DEF SerialInv, StreamInv, Touch, Sends, startVars, Protocol5
<1>2. PICK down \in SUBSET (IF tablet.sensor = 5 THEN Fingers ELSE {1}), body \in Bodies :
        /\ hand' = [hand EXCEPT ![1] = IF down = {} THEN Free
                                       ELSE [tool |-> "FINGER", buttons |-> down]]
        /\ Sends(<<[Packet("TOUCH", 1, "FINGER", down # {}, down) EXCEPT !.body = body]>>)
  BY DEF Touch
<1> DEFINE new == IF down = {} THEN Free ELSE [tool |-> "FINGER", buttons |-> down]
           h == [hand EXCEPT ![1] = new]
<1>3. down \in SUBSET {1, 2, 4, 8}
  BY <1>2 DEF Fingers
<1>4. new \in Held /\ new.tool \in {NoTool, "FINGER"} /\ new.buttons = down
  <2>1. CASE down = {}
    BY <1>3, <2>1 DEF Held, Free
  <2>2. CASE down # {}
    BY <1>3, <2>2 DEF Held
  <2> QED
    BY <2>1, <2>2
<1>5. hand' = h
  BY <1>2
<1> HIDE DEF new
<1>6. h \in [Slots -> Held] /\ h[1] = new /\ h[0] = hand[0]
  BY <1>1, <1>4 DEF Slots
<1> HIDE DEF h
<1>7. HandsInv'
  BY <1>1, <1>4, <1>5, <1>6 DEF SettleInv, HandsInv
<1>8. ASSUME lost = 0
      PROVE  ReadInv'
  <2> DEFINE g == At0(h)
             near == down # {}
             p == [Packet("TOUCH", 1, "FINGER", near, down) EXCEPT !.body = body]
  <2>1. At0(hand) = Now /\ g = Now'
    BY <1>5 DEF At0, Now
  <2>2. /\ Now \in Moments /\ g \in Moments /\ g[1].buttons = down /\ g[0] = Now[0]
    <3>1. 0 \in Slots /\ 1 \in Slots
      BY DEF Slots
    <3>2. Now \in Moments /\ g \in Moments /\ g[1].buttons = h[1].buttons
      BY <1>1, <1>6, <2>1, <3>1, HandMoment
    <3>3. g[0] = Now[0]
      BY <1>6, <3>1 DEF At0, Now
    <3> QED
      BY <1>4, <1>6, <3>2, <3>3
  <2>3. p \in Sent /\ p.kind = "TOUCH" /\ p.slot = 1 /\ p.buttons = down
    <3>1. near \in BOOLEAN /\ "TOUCH" \in PacketKinds /\ 1 \in Slots
      BY <1>1 DEF PacketKinds, Slots
    <3> HIDE DEF near
    <3>2. p \in Sent
      BY <1>2, <1>3, <3>1, PacketSent
    <3> QED
      BY <3>2 DEF Packet
  <2>4. Sends(<<p>>)
    BY <1>2
  <2> HIDE DEF g, p
  <2>5. Tells(Now, p, g)
    BY <1>1, <2>2, <2>3 DEF Tells, Slots
  <2>6. Told(<<p>>, Now, g)
    BY <2>2, <2>3, <2>5, ToldOne
  <2>7. <<p>> \in Seq(Sent) /\ Len(<<p>>) = 1 /\ Len(<<p>>) \in 1 .. 3
    BY <2>3
  <2> QED
    BY <1>8, <2>1, <2>2, <2>4, <2>6, <2>7, SentSettles
<1> QED
  BY <1>7, <1>8

-----------------------------------------------------------------------------
(* The other steps.                                                        *)

\* The Touch option stays what it is.
LEMMA TouchModeStays ==
    ASSUME SerialInv, SerialNext
    PROVE  common'.wcmTouch = common.wcmTouch
<1>1. common \in CommonRec
  BY DEF SerialInv, StartInv, StartTypeOK, CommonRec
<1>a. "wcmTouch" \in DOMAIN common
  BY <1>1 DEF CommonRec
<1>2. CASE OpenPort
  <2>1. \/ UNCHANGED common
        \/ common' = [common EXCEPT !.model = "TPC", !.pktLength = 9, !.tablet_id = \h90]
    BY <1>2 DEF OpenPort, Open
  <2> QED
    BY ONLY <1>a, <2>1
<1>3. CASE ClosePort \/ Hardware \/ Read \/ Drained
  BY <1>3 DEF ClosePort, Close, Hardware, Enter, Press, Leave, Touch, Lose, Sends, Read, Drained,
              startVars
<1>4. CASE Parse
  BY <1>4, ParseKeeps
<1>5. CASE StartUp
  <2>1. CASE ResetFast \/ ResetMedium \/ ResetSlow \/ Setup \/ Start
    BY <2>1 DEF ResetFast, ResetMedium, ResetSlow, Setup, Start
  <2>2. CASE AskModel
    <3>1. PICK answer : ModelRead(answer)
      BY <2>2 DEF AskModel
    <3> DEFINE kind == IF answer = "model" THEN tablet.kind ELSE "UD"
               resolution == common.resolution \/ kind # "UD"
               ranges == common.ranges \/ kind = "ET"
               id == SerialId[kind]
               length == SerialLength(kind)
    <3>2. \/ UNCHANGED common
          \/ common' = [common EXCEPT !.model = kind, !.tablet_id = id, !.pktLength = length,
                          !.resolution = resolution, !.ranges = ranges]
      BY <3>1 DEF ModelRead
    <3> HIDE DEF kind, resolution, ranges, id, length
    <3>3. CASE UNCHANGED common
      BY <3>3
    <3>4. CASE common' = [common EXCEPT !.model = kind, !.tablet_id = id, !.pktLength = length,
                            !.resolution = resolution, !.ranges = ranges]
      BY ONLY <1>a, <3>4
    <3> QED
      BY ONLY <3>2, <3>3, <3>4
  <2>3. CASE AskConfig \/ AskCoord
    BY <1>1, <2>3 DEF AskConfig, ConfigRead, AskCoord, CoordRead, CommonRec
  <2>4. CASE SetLinkSpeed
    BY <1>1, <2>4 DEF SetLinkSpeed, CommonRec
  <2>5. CASE QueryPen
    <3>1. PICK answer : PenRead(answer)
      BY <2>5 DEF QueryPen
    <3> DEFINE control == answer \notin {NoAnswer, "data"}
               id == IF control /\ ~tablet.pen THEN \hE2 ELSE common.tablet_id
    <3>2. \/ common' = [common EXCEPT !.isdv4Speed = 19200]
          \/ common' = [common EXCEPT !.isdv4Speed = 38400, !.tablet_id = id]
      BY <3>1 DEF PenRead
    <3> HIDE DEF id
    <3>3. CASE common' = [common EXCEPT !.isdv4Speed = 19200]
      BY ONLY <1>a, <3>3
    <3>4. CASE common' = [common EXCEPT !.isdv4Speed = 38400, !.tablet_id = id]
      BY ONLY <1>a, <3>4
    <3> QED
      BY ONLY <3>2, <3>3, <3>4
  <2>6. CASE QueryTouch
    <3>1. PICK answer : TouchRead(answer)
      BY <2>6 DEF QueryTouch
    <3>2. \/ UNCHANGED common
          \/ \E id, length : common' = [common EXCEPT !.tablet_id = id, !.pktLength = length]
      BY <3>1 DEF TouchRead
    <3> QED
      BY ONLY <1>a, <3>2
  <2>7. CASE WriteFails
    <3>1. CASE GivesUp
      <4> DEFINE speed == IF At("speed") THEN LinkSpeed ELSE common.linkSpeed
      <4>1. common' = [common EXCEPT !.linkSpeed = speed]
        BY <1>1, <3>1 DEF GivesUp, CommonRec
      <4> HIDE DEF speed
      <4> QED
        BY ONLY <1>a, <4>1
    <3>2. CASE NoResolution \/ NoPenQuery
      BY <1>1, <3>2 DEF NoResolution, NoPenQuery, ConfigRead, CommonRec
    <3>3. CASE NoTouchQuery
      BY <3>3 DEF NoTouchQuery, TouchRead, NoAnswer
    <3> QED
      BY <2>7, <3>1, <3>2, <3>3 DEF WriteFails
  <2> QED
    BY <1>5, <2>1, <2>2, <2>3, <2>4, <2>5, <2>6, <2>7 DEF StartUp, StartNext
<1> QED
  BY <1>2, <1>3, <1>4, <1>5 DEF SerialNext

\* What is unread and what is shown of it stays.
LEMMA NothingRead ==
    ASSUME SettleInv, SameTablet, Rest' = Rest, UNCHANGED <<hand, lost, channel>>,
           common'.wcmTouch = common.wcmTouch
    PROVE  HandsInv' /\ (lost = 0 => ReadInv')
<1>1. HandsInv'
  BY DEF SettleInv, HandsInv, SameTablet
<1>2. ASSUME lost = 0
      PROVE  ReadInv'
  <2>1. channel \in Channels /\ OneChannel(channel) /\ Unread(channel, Rest, Now)
    BY <1>2 DEF SettleInv, ReadInv
  <2>2. Now' = Now /\ OneChannel(channel)' /\ lost' = 0 /\ channel' \in Channels
    BY <1>2, <2>1 DEF Now, OneChannel, SameTablet
  <2> DEFINE c == channel
             r == Rest
             now == Now
  <2>3. c = channel' /\ r = Rest' /\ now = Now' /\ Unread(c, r, now)
    BY <2>1, <2>2
  <2> HIDE DEF c, r, now
  <2> QED
    BY <2>2, <2>3, ReadNext
<1> QED
  BY <1>1, <1>2

\* The invariant holds through every step, and through none.
LEMMA SettleSteady ==
    ASSUME SerialInv, SettleInv, [SerialNext /\ CarefulUser]_serialVars
    PROVE  SettleInv'
<1>1. UnreadInv'
  BY UnreadSteady DEF SettleInv
<1>2. UnreadInv /\ lost \in Nat
  BY DEF SettleInv
<1>3. SUFFICES lost' \in Nat /\ HandsInv' /\ ReadInv'
  BY <1>1 DEF SettleInv
<1>4. ASSUME UNCHANGED lost, HandsInv', lost = 0 => ReadInv'
      PROVE  lost' \in Nat /\ HandsInv' /\ ReadInv'
  BY <1>2, <1>4 DEF ReadInv
<1>5. CASE OpenPort \/ StartUp \/ ClosePort
  <2>1. wire' = wire
    <3>1. CASE OpenPort
      <4>1. ~At("running")
        BY <3>1 DEF OpenPort, Open, At
      <4> QED
        BY <3>1, <4>1 DEF SerialInv, QuietInv, OpenPort
    <3>2. CASE StartUp
      BY <3>2 DEF StartUp
    <3>3. CASE ClosePort
      <4>1. CarefulUser \/ UNCHANGED serialVars
        OBVIOUS
      <4>2. At("running") /\ step' = "closed"
        BY <3>3 DEF ClosePort, Close
      <4>3. CASE UNCHANGED serialVars
        BY <4>3 DEF serialVars
      <4>4. CASE CarefulUser
        BY <3>3, <4>2, <4>4 DEF CarefulUser, ClosePort
      <4> QED
        BY <4>1, <4>3, <4>4
    <3> QED
      BY <1>5, <3>1, <3>2, <3>3
  <2>2. UNCHANGED <<hand, lost, buffer, pos, channel>>
    BY <1>5 DEF OpenPort, StartUp, ClosePort, Idle
  <2>3. Rest' = Rest
    BY <2>1, <2>2 DEF Rest
  <2>4. SameTablet /\ common'.wcmTouch = common.wcmTouch
    BY <1>5, TabletStays, TouchModeStays DEF SerialNext
  <2>5. HandsInv' /\ (lost = 0 => ReadInv')
    BY <2>2, <2>3, <2>4, NothingRead
  <2> QED
    BY <1>4, <2>2, <2>5
<1>6. CASE Hardware /\ CarefulUser
  <2>1. At("running") /\ ~trouble /\ UNCHANGED startVars
    BY <1>6, HardwareRuns
  <2>2. ASSUME NEW s \in Slots, Enter(s)
        PROVE  UNCHANGED lost /\ HandsInv' /\ (lost = 0 => ReadInv')
    BY <2>1, <2>2, EnterSettles DEF Enter, Sends
  <2>3. ASSUME NEW s \in Slots, Press(s)
        PROVE  UNCHANGED lost /\ HandsInv' /\ (lost = 0 => ReadInv')
    BY <2>1, <2>3, PressSettles DEF Press, Sends
  <2>4. ASSUME NEW s \in Slots, Leave(s)
        PROVE  UNCHANGED lost /\ HandsInv' /\ (lost = 0 => ReadInv')
    BY <2>1, <2>4, LeaveSettles DEF Leave, Sends
  <2>5. ASSUME Touch
        PROVE  UNCHANGED lost /\ HandsInv' /\ (lost = 0 => ReadInv')
    BY <2>1, <2>5, TouchSettles DEF Touch, Sends
  <2>6. CASE Lose
    <3>1. lost' = lost + 1 /\ UNCHANGED <<hand, tablet>>
      BY <2>6 DEF Lose, startVars
    <3>2. lost' \in Nat /\ lost' # 0
      BY <1>2, <3>1
    <3>3. HandsInv'
      BY <3>1 DEF SettleInv, HandsInv
    <3> QED
      BY <3>2, <3>3 DEF ReadInv
  <2> QED
    BY <1>4, <1>6, <2>2, <2>3, <2>4, <2>5, <2>6 DEF Hardware
<1>7. CASE Read \/ Drained
  <2>1. UNCHANGED <<hand, lost, channel>>
    BY <1>7 DEF Read, Drained
  <2>2. SameTablet /\ common'.wcmTouch = common.wcmTouch
    BY <1>7, TabletStays, TouchModeStays DEF SerialNext
  <2>3. Rest' = Rest
    <3>1. CASE Read
      BY <1>2, <3>1, RestRead
    <3>2. CASE Drained
      BY <1>2, <3>2, RestKept DEF Drained, UnreadInv
    <3> QED
      BY <1>7, <3>1, <3>2
  <2>4. HandsInv' /\ (lost = 0 => ReadInv')
    BY <2>1, <2>2, <2>3, NothingRead
  <2> QED
    BY <1>4, <2>1, <2>4
<1>8. CASE Parse
  <2>1. SameTablet /\ UNCHANGED <<tablet, hand, lost>>
    BY <1>8, ParseKeeps
  <2>2. HandsInv'
    BY <2>1 DEF SettleInv, HandsInv
  <2>3. lost = 0 => ReadInv'
    BY <1>8, SerialSettles, DigitizerSettles
  <2> QED
    BY <1>4, <2>1, <2>2, <2>3
<1>9. CASE UNCHANGED serialVars
  <2>1. UNCHANGED <<tablet, common, hand, wire, lost, buffer, pos, channel>>
    BY <1>9 DEF serialVars, startVars, readVars
  <2>2. SameTablet
    BY <2>1 DEF SameTablet, SerialInv, StartInv, StartTypeOK
  <2>3. Rest' = Rest
    BY <2>1 DEF Rest
  <2>4. HandsInv' /\ (lost = 0 => ReadInv')
    BY <2>1, <2>2, <2>3, NothingRead
  <2> QED
    BY <1>4, <2>1, <2>4
<1> QED
  BY <1>5, <1>6, <1>7, <1>8, <1>9 DEF SerialNext

-----------------------------------------------------------------------------
(* The theorem: at the start nothing is shown, and once nothing is unread  *)
(* what is shown is what is near.                                          *)

\* What is shown of a hand fits it: nothing near, a pen or mouse of a tablet
\* that has one channel, ...
LEMMA FitsOut ==
    ASSUME NEW v, NEW h, v.proximity = FALSE, h.tool = NoTool
    PROVE  Fits(v, h)
  BY DEF Fits

\* ... a pen or mouse that is near, ...
LEMMA FitsNear ==
    ASSUME NEW v, NEW h, v.proximity = TRUE, h.tool \in Near, Typed(v, Whole(h)),
           tablet.kind \notin Protocol5
    PROVE  Fits(v, h)
<1>1. (h.tool # NoTool) = TRUE
  BY DEF Near, Pens, Mice, NoTool
<1>2. Whole(h).tool = h.tool /\ Whole(h).buttons = h.buttons
  BY DEF Whole
<1>3. Own(Whole(h)) = Own(h) /\ (Distinct(h) => h.buttons # {} /\ Plain(Whole(h)))
  BY <1>2 DEF Own, Distinct, Plain
<1> QED
  BY <1>1, <1>2, <1>3 DEF Fits, Typed

\* ... and a tool of protocol 5.
LEMMA Fits5 ==
    ASSUME NEW c, NEW h, h.tool \in Near \cup {NoTool}, Shows5(c, Whole(h))
    PROVE  Fits(c.valid, h)
<1>1. Whole(h).tool = h.tool /\ Whole(h).buttons = h.buttons /\ Whole(h).stage = "whole"
  BY DEF Whole
<1>2. CASE h.tool = NoTool
  BY <1>1, <1>2, FitsOut DEF Shows5
<1>3. CASE h.tool # NoTool
  <2>1. (h.tool # NoTool) = TRUE
    BY <1>3
  <2>2. /\ c.valid.proximity = TRUE /\ c.valid.type = Own(h)
        /\ c.valid.buttons = h.buttons
    BY <1>1, <1>3 DEF Shows5, Own
  <2> QED
    BY <2>1, <2>2 DEF Fits
<1> QED
  BY <1>2, <1>3

\* When all is read the channels show the hand itself.
LEMMA SettledShown ==
    ASSUME SerialInv, SettleInv, Settled
    PROVE  /\ channel \in Channels /\ OneChannel(channel)
           /\ Shown(channel, <<>>, Now)
<1>1. channel \in Channels /\ OneChannel(channel) /\ Unread(channel, Rest, Now)
  BY DEF SettleInv, ReadInv, Settled
<1>2. Rest = <<>>
  BY DEF SettleInv, UnreadInv, Settled, Rest
<1>3. PICK q \in Seq(Sent), m \in Moments :
        Stream(Rest, q) /\ Chain(q, m, Now) /\ Shown(channel, q, m)
  BY <1>1 DEF Unread
<1>4. q = <<>>
  <2>1. Rest \in Seq(Byte)
    BY <1>2
  <2> QED
    BY <1>2, <1>3, <2>1, StreamEnds
<1>5. m = Now
  BY <1>3, <1>4, NoChain
<1> QED
  BY <1>1, <1>3, <1>4, <1>5

\* ... of protocol 5 both tools, ...
LEMMA Settled5 ==
    ASSUME SerialInv, SettleInv, Settled, tablet.kind \in Protocol5
    PROVE  \A s \in Slots : Fits(channel[s].valid, hand[s])
<1>1. SUFFICES ASSUME NEW s \in Slots
               PROVE  Fits(channel[s].valid, hand[s])
  OBVIOUS
<1>2. Shows5(channel[s], Whole(hand[s]))
  <2>1. Shows5(channel[s], Now[s])
    BY SettledShown DEF Shown
  <2> QED
    BY <2>1 DEF Now
<1>3. hand[s] \in Held /\ hand[s].tool # "FINGER"
  BY DEF SettleInv, HandsInv, SerialInv, StreamInv, Slots
<1>4. hand[s].tool \in Near \cup {NoTool}
  BY <1>3 DEF Held, Near
<1> QED
  BY <1>2, <1>4, Fits5

\* ... and else the pen or mouse, or the finger.
LEMMA SettledOne ==
    ASSUME SerialInv, SettleInv, Settled, tablet.kind \notin Protocol5
    PROVE  /\ channel[1].valid.proximity = FALSE
           /\ IF channel[0].valid.type = "TOUCH"
              THEN /\ hand[0].tool = NoTool
                   /\ channel[0].valid.proximity \in BOOLEAN
                   /\ channel[0].valid.proximity <=> 1 \in hand[1].buttons
              ELSE Fits(channel[0].valid, hand[0])
<1>1. channel \in Channels /\ OneChannel(channel) /\ Shown(channel, <<>>, Now)
  BY SettledShown
<1>2. channel[1].valid.proximity = FALSE
  BY <1>1 DEF OneChannel
<1>3. Now[0] = Whole(hand[0]) /\ Now[1] = Whole(hand[1])
  BY DEF Now, Slots
<1>4. Now[0].tool = hand[0].tool /\ Now[1].buttons = hand[1].buttons
  BY <1>3 DEF Whole
<1>5. hand[0].tool \in Near \cup {NoTool} /\ ShowsOne(channel[0], Now)
  BY <1>1, <1>4 DEF Shown, OutBefore
<1>6. CASE channel[0].valid.type = "TOUCH"
  <2>1. ~NearShown(channel[0], Now[0])
    BY <1>6 DEF NearShown, Typed, Pens
  <2>2. hand[0].tool = NoTool
    BY <1>4, <1>5, <2>1 DEF ShowsOne
  <2>3. channel[0].valid.proximity <=> 1 \in hand[1].buttons
    BY <1>4, <1>5, <1>6, <2>2 DEF ShowsOne
  <2>4. channel[0].valid.proximity \in BOOLEAN
    BY <1>1 DEF Channels, Records, Slots
  <2> QED
    BY <1>2, <1>6, <2>2, <2>3, <2>4
<1>7. CASE channel[0].valid.type # "TOUCH"
  <2>1. CASE hand[0].tool = NoTool
    <3>1. channel[0].valid.proximity = FALSE
      BY <1>4, <1>5, <1>7, <2>1 DEF ShowsOne
    <3>2. Fits(channel[0].valid, hand[0])
      BY <2>1, <3>1, FitsOut
    <3> QED
      BY <1>2, <1>7, <3>2
  <2>2. CASE hand[0].tool \in Near
    <3>1. channel[0].valid.proximity = TRUE /\ Typed(channel[0].valid, Whole(hand[0]))
      BY <1>3, <1>4, <1>5, <2>2 DEF ShowsOne, NearShown
    <3>2. Fits(channel[0].valid, hand[0])
      BY <2>2, <3>1, FitsNear
    <3> QED
      BY <1>2, <1>7, <3>2
  <2> QED
    BY <1>5, <2>1, <2>2
<1> QED
  BY <1>6, <1>7

\* A tablet whose dialogue went wrong may be taken for another, but nothing
\* is near it.
LEMMA SettledTrouble ==
    ASSUME SerialInv, SettleInv, Settled, trouble
    PROVE  /\ \A s \in Slots : Fits(channel[s].valid, hand[s])
           /\ channel[0].valid.type = "TOUCH" =>
                channel[0].valid.proximity \in BOOLEAN
                  /\ (channel[0].valid.proximity <=> 1 \in hand[1].buttons)
<1>1. \A s \in Slots : hand[s].tool = NoTool /\ hand[s].buttons = {}
  BY DEF SerialInv, QuietInv, Free
<1>2. 0 \in Slots /\ 1 \in Slots /\ \A s \in Slots : s \in {0, 1}
  BY DEF Slots
<1>3. CASE tablet.kind \in Protocol5
  <2>1. \A s \in Slots : Fits(channel[s].valid, hand[s])
    BY <1>3, Settled5
  <2>2. channel[0].valid.proximity = (hand[0].tool # NoTool)
    BY <1>2, <2>1 DEF Fits
  <2>3. channel[0].valid.proximity = FALSE
    BY <1>1, <1>2, <2>2
  <2>4. 1 \notin hand[1].buttons
    BY <1>1, <1>2
  <2> QED
    BY <2>1, <2>3, <2>4
<1>4. CASE tablet.kind \notin Protocol5
  <2>1. 1 \notin hand[1].buttons
    BY <1>1, <1>2
  <2>2. Fits(channel[1].valid, hand[1])
    BY <1>1, <1>2, <1>4, SettledOne, FitsOut
  <2>3. CASE channel[0].valid.type = "TOUCH"
    <3>1. /\ channel[0].valid.proximity \in BOOLEAN
          /\ channel[0].valid.proximity <=> 1 \in hand[1].buttons
      BY <1>4, <2>3, SettledOne
    <3>2. channel[0].valid.proximity = FALSE
      BY <2>1, <3>1
    <3>3. Fits(channel[0].valid, hand[0])
      BY <1>1, <1>2, <3>2, FitsOut
    <3> QED
      BY <1>2, <2>2, <3>1, <3>3
  <2>4. CASE channel[0].valid.type # "TOUCH"
    BY <1>2, <1>4, <2>2, <2>4, SettledOne
  <2> QED
    BY <2>3, <2>4
<1> QED
  BY <1>3, <1>4

\* All that is near is shown.
LEMMA SettleShows ==
    ASSUME SerialInv, SettleInv
    PROVE  SettledFollowsHand
<1>1. SUFFICES ASSUME Settled
               PROVE  SettledFollowsHand
  BY DEF SettledFollowsHand
<1>2. 0 \in Slots
  BY DEF Slots
<1>a. trouble \/ common.model = tablet.kind
  <2>1. step = "running"
    BY <1>1 DEF Settled, At
  <2>2. tablet.kind = "TPC" => common.model = "TPC"
    BY <2>1 DEF SerialInv, StartInv, LinkInv
  <2>3. trouble \/ Known
    BY <2>1 DEF SerialInv, StartInv, DialogueInv, CalmInv
  <2> QED
    BY <2>2, <2>3 DEF Known
<1>3. common.model \in Protocol5 => tablet.kind \in Protocol5 \/ trouble
  BY <1>a
<1>4. common.model \notin Protocol5 => tablet.kind \notin Protocol5 \/ trouble
  BY <1>a
<1>5. CASE common.model \in Protocol5
  <2>1. \A s \in Slots : Fits(channel[s].valid, hand[s])
    BY <1>1, <1>3, <1>5, Settled5, SettledTrouble
  <2> QED
    BY <1>5, <2>1 DEF SettledFollowsHand
<1>6. CASE common.model \notin Protocol5 /\ channel[0].valid.type = "TOUCH"
  <2> DEFINE near == channel[0].valid.proximity
             pressed == 1 \in hand[1].buttons
  <2>1. near \in BOOLEAN /\ (near <=> pressed)
    BY <1>1, <1>4, <1>6, SettledOne, SettledTrouble
  <2>2. pressed \in BOOLEAN
    OBVIOUS
  <2>3. near = pressed
    <3> HIDE DEF near, pressed
    <3> QED
      BY <2>1, <2>2
  <2> QED
    BY <1>6, <2>3 DEF SettledFollowsHand
<1>7. CASE common.model \notin Protocol5 /\ channel[0].valid.type # "TOUCH"
  <2>1. Fits(channel[0].valid, hand[0])
    BY <1>1, <1>2, <1>4, <1>7, SettledOne, SettledTrouble
  <2> QED
    BY <1>7, <2>1 DEF SettledFollowsHand
<1> QED
  BY <1>5, <1>6, <1>7

\* At the start nothing is near, sent or shown.
LEMMA SettleStarts ==
    ASSUME SerialInit, TouchLength(IdOf(tablet)) # 13, SerialInv
    PROVE  SettleInv
<1>1. UnreadInv /\ lost \in Nat
  BY DEF SerialInit, UnreadInv, KeepsUnread
<1>2. \A s \in Slots : /\ hand[s] = Free /\ hand[s].tool = NoTool
                       /\ channel[s] = NoChannel
  BY DEF SerialInit, Free
<1>3. 0 \in Slots /\ 1 \in Slots
  BY DEF Slots
<1>4. HandsInv
  BY <1>2, <1>3 DEF HandsInv, NoTool, Mice
<1>5. /\ Blank \in Records /\ Blank.proximity = FALSE /\ Blank.type = NoTool
      /\ NoChannel.work = Blank /\ NoChannel.valid = Blank
      /\ NoChannel \in [work: Records, valid: Records]
  BY DEF Blank, Records, NoChannel, Tags, NoTool
<1>6. channel \in Channels
  BY <1>5 DEF SerialInit, Channels
<1>7. OneChannel(channel)
  BY <1>2, <1>3, <1>5 DEF OneChannel, NoTool
<1>8. Rest = <<>>
  BY DEF SerialInit, Rest
<1>9. Now \in Moments /\ \A s \in Slots : Now[s].tool = NoTool
  <2>1. \A s \in Slots : Now[s] = Whole(Free)
    BY <1>2 DEF Now
  <2>2. Whole(Free) \in Moment /\ Whole(Free).tool = NoTool
    BY DEF Whole, Free, Moment, Stages, Near
  <2>3. Now = [s \in Slots |-> Whole(Free)]
    BY <1>2 DEF Now
  <2> QED
    BY <2>1, <2>2, <2>3 DEF Moments
<1>10. Shown(channel, <<>>, Now)
  <2>1. \A s \in Slots : Shows5(channel[s], Now[s])
    BY <1>2, <1>5, <1>9 DEF Shows5
  <2>2. ShowsOne(channel[0], Now)
    <3>1. Now[0].tool = NoTool /\ NoTool \notin Near /\ NoTool # "TOUCH"
      BY <1>3, <1>9 DEF NoTool, Near, Pens, Mice
    <3> QED
      BY <1>2, <1>3, <1>5, <3>1 DEF ShowsOne
  <2>3. Now[0].tool \in Near \cup {NoTool} /\ Now[0].tool \notin Mice
    BY <1>3, <1>9 DEF NoTool, Mice
  <2> QED
    BY <2>1, <2>2, <2>3 DEF Shown
<1>11. Unread(channel, Rest, Now)
  <2>1. Stream(Rest, <<>>) /\ Chain(<<>>, Now, Now)
    BY <1>8, <1>9, StreamStarts, ChainStarts
  <2>2. <<>> \in Seq(Sent)
    OBVIOUS
  <2> QED
    BY <1>9, <1>10, <2>1, <2>2 DEF Unread
<1> QED
  BY <1>1, <1>4, <1>6, <1>7, <1>11 DEF SettleInv, ReadInv

\* When all that a serial tablet has sent is read, the channels show the tool
\* in the hand, wherever the bytes were cut. Digitizers of two fingers are
\* left out, of whose packets isdv4Parse takes more bytes than there may be.
THEOREM SettledFollows ==
    CarefulSpec /\ TouchLength(IdOf(tablet)) # 13 => []SettledFollowsHand
<1>1. SerialInit /\ TouchLength(IdOf(tablet)) # 13 /\ SerialInv => SettleInv
  BY SettleStarts
<1>2. SerialInv /\ SettleInv /\ [SerialNext /\ CarefulUser]_serialVars => SettleInv'
  BY SettleSteady
<1>3. SerialInv /\ SettleInv => SettledFollowsHand
  BY SettleShows
<1> QED
  BY <1>1, <1>2, <1>3, SerialInvariant, PTL DEF CarefulSpec

=============================================================================
