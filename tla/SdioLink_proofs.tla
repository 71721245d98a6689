--------------------------- MODULE SdioLink_proofs ---------------------------
(***************************************************************************)
(* Proofs about the SDIO link, for every number of frames, images, chunks, *)
(* BLE frame IDs and clock queries, every length of the queues, and any    *)
(* damage, losses, faults and restarts.                                    *)
(***************************************************************************)
EXTENDS SdioLink, TLAPS

Frame == 1 .. LastFrame
Query == 1 .. LastRequest
AnyBle == BleFrame \cup {0}
P4Job == [frame : Frame, image : Image]
Final == C6!Final

-----------------------------------------------------------------------------
(* Types *)

\* The P4: what it may put on the link
P4Data ==
  /\ reserved \in 0 .. LastFrame /\ nextFrame \in 0 .. LastFrame
  /\ nextRequest \in 0 .. LastRequest
  /\ app \in P4Job \cup {None} /\ txQueue \in P4Job \cup {None}
  /\ tx.pc \in {"check", "sendChunk"} =>
       tx \in [pc : {"check", "sendChunk"}, job : P4Job, index : C6!Index]
  /\ tx.pc = "sendQuery" => tx.frame \in 0 .. LastFrame
  /\ tx.pc = "sendTime" => tx.id \in Query

RxData ==
  /\ rx.pc = "chunk" => /\ rx.chunk.frame \in Frame /\ rx.chunk.image \in Image
                        /\ rx.chunk.index \in C6!Index
  /\ rx.pc = "reply" => /\ rx.control \in C6!Control
                        /\ rx.control.state \in {"BUSY", "FAILED"}

Terminal == {c \in C6!Control : c.state \in Final} \cup {None}

WorkData ==
  /\ work.pc = "submit" => work.frame \in Frame
  /\ work.pc = "submitted" => work.frame \in Frame /\ work.ble \in AnyBle
  /\ work.pc = "send" => work.control \in C6!Control
  /\ work.pc = "answer" =>
       /\ work.frame \in 0 .. LastFrame /\ work.active \in 0 .. LastFrame
       /\ work.ble \in AnyBle
       /\ work.terminal \in Terminal

C6Flags ==
  /\ silent \in BOOLEAN /\ readyEdge \in BOOLEAN
  /\ ready \in BOOLEAN /\ outstanding \in BOOLEAN

ReceiverData ==
  /\ state \in {"IDLE", "ASSEMBLING", "VERIFYING", "PENDING_BLE", "BLE_ACTIVE"}
  /\ first \in P4Job \cup {None}
  /\ first = None <=> state = "IDLE"
  /\ next \in 0 .. ChunkCount
  /\ ble \in AnyBle
  /\ buffer \in [C6!Index -> Image \cup {Noise}]

QueueData ==
  /\ terminal \in Terminal
  /\ events \in Seq(C6!Event) /\ Len(events) <= EventQueue
  /\ lifecycle \in C6!Lifecycle \cup {None}
  /\ job \in C6!Job \cup {None}
  /\ finished \in C6!Lifecycle \cup {None}
  /\ acked \subseteq Frame
  /\ toP4 \in Seq(C6!Control \cup C6!Sample)

C6Data == ReceiverData /\ QueueData /\ RxData /\ WorkData

-----------------------------------------------------------------------------
(* The one buffer and its frame *)

ImageJob == job # None /\ job.kind = "image"
IsDone(e) == e # None /\ e.kind = "BLE_FRAME_DONE"
Posted == lifecycle # None /\ lifecycle.kind = "FRAME_COMPLETE"

\* The source has frame f under the ID b, and the worker knows it or is about to.
Taken(f, b) ==
  /\ C6!ActiveFrame = f
  /\ \/ state = "BLE_ACTIVE" /\ ble = b
     \/ state = "PENDING_BLE" /\ work.pc = "submitted" /\ work.ok /\ work.ble = b

\* A frame is at one place between its verification and the end of its job,
\* and wherever that is, the frame is the buffer's.
OneToken ==
  /\ rx.pc = "verify" <=> state = "VERIFYING"
  /\ rx.pc = "complete" =>
       /\ state = "PENDING_BLE"
       /\ ~Posted /\ work.pc \notin {"submit", "submitted"}
  /\ Posted =>
       /\ state = "PENDING_BLE" /\ C6!ActiveFrame = lifecycle.frame
       /\ work.pc \notin {"submit", "submitted"}
  /\ work.pc \in {"submit", "submitted"} =>
       state = "PENDING_BLE" /\ C6!ActiveFrame = work.frame
  /\ ImageJob =>
       /\ Taken(job.frame, job.ble) /\ job.image = first.image
       /\ ~IsDone(finished) /\ ~IsDone(lifecycle)
  /\ IsDone(finished) => Taken(finished.frame, finished.ble) /\ ~IsDone(lifecycle)
  /\ IsDone(lifecycle) => Taken(lifecycle.frame, lifecycle.ble)
  /\ finished # None => finished.kind # "FRAME_COMPLETE"

BufferHolds ==
  state \in {"PENDING_BLE", "BLE_ACTIVE"} =>
    \A i \in C6!Index : buffer[i] = first.image

\* A clock query and a frame do not share the source or the mailbox, while the
\* RX task leaves the two halves of a report together.
TimeApart ==
  "race" \notin Trouble =>
    /\ job # None => outstanding
    /\ rx.pc = "chunk" /\ job # None /\ job.kind = "time" => rx.busy
    /\ state # "IDLE" => /\ job # None => job.kind # "time"
                         /\ finished # None => finished.kind # "BLE_TIME_DONE"

-----------------------------------------------------------------------------
(* Where the first chunk of a frame is *)

InApp(f) == app # None /\ app.frame = f
InQueue(f) == txQueue # None /\ txQueue.frame = f
InTx(f) == tx.pc \in {"check", "sendChunk"} /\ tx.index = 0 /\ tx.job.frame = f
InRx(f) == rx.pc = "chunk" /\ rx.chunk.index = 0 /\ rx.chunk.frame = f
Unused(f) == f > nextFrame

\* The C6 does not have, or has not handled, the first chunk of f.
Unsent(f) == InApp(f) \/ InQueue(f) \/ InTx(f) \/ Unused(f)
Pending(f) == Unsent(f) \/ InRx(f)

OnePlace ==
  \A f \in Frame :
    /\ InApp(f) => ~InQueue(f) /\ ~InTx(f) /\ ~InRx(f) /\ ~Unused(f)
    /\ InQueue(f) => ~InTx(f) /\ ~InRx(f) /\ ~Unused(f)
    /\ InTx(f) => ~InRx(f) /\ ~Unused(f)
    /\ InRx(f) => ~Unused(f)

\* Whatever says SERVER_ACKED of a frame says it of one that the source has
\* reported acknowledged, and that no first chunk begins anew.
TruePast(f) == f \in acked /\ ~Pending(f)

\* What control c says is true.
True(c) == c.state = "SERVER_ACKED" => TruePast(c.frame)

FirstPast == first # None => ~Pending(first.frame)
DoneTrue(e) == IsDone(e) /\ e.ok => e.frame \in acked
CachedTrue == terminal # None => True(terminal)
WorkTrue ==
  /\ work.pc = "send" => True(work.control)
  /\ work.pc = "answer" /\ work.terminal # None => True(work.terminal)
EventsSilent ==
  \A n \in 1 .. Len(events) :
    events[n].kind = "CONTROL" => events[n].control.state # "SERVER_ACKED"
AnswersTrue == \A n \in 1 .. Len(toP4) : ~IsSample(toP4[n]) => True(toP4[n])

AckInv ==
  /\ FirstPast
  /\ DoneTrue(finished) /\ DoneTrue(lifecycle)
  /\ CachedTrue /\ WorkTrue /\ EventsSilent /\ AnswersTrue

-----------------------------------------------------------------------------
(* The steps of the C6 *)

C6Reset ==
  /\ state' = "IDLE" /\ first' = None /\ next' = 0 /\ ble' = 0
  /\ silent' = FALSE
  /\ buffer' = [i \in C6!Index |-> Noise]
  /\ terminal' = None
  /\ events' = <<>> /\ lifecycle' = None /\ readyEdge' = FALSE
  /\ rx' = C6!At("idle") /\ work' = C6!At("idle")
  /\ ready' = FALSE /\ outstanding' = FALSE /\ job' = None /\ finished' = None
  /\ toP4' = <<>>
  /\ UNCHANGED acked

\* A message reaches the RX task.
RxGets ==
  \/ \E f \in 0 .. LastFrame : C6!BadChunk(f) \/ C6!QueryArrives(f)
  \/ \E c \in C6!Chunk : C6!ChunkArrives(c)
  \/ \E id \in Query : C6!TimeQueryArrives(id)

RxRuns == C6!RxStep /\ ("race" \in Trouble \/ finished = None)
SourceRuns == C6!SourceFinishes \/ C6!SourceReports \/ C6!ReadyChanges
AnswerLeaves == toP4 # <<>> /\ toP4' = Tail(toP4) /\ UNCHANGED c6Vars

C6Step ==
  \/ RxGets \/ RxRuns \/ C6!WorkStep \/ SourceRuns \/ C6!Tick \/ C6Reset
  \/ AnswerLeaves \/ UNCHANGED <<c6Vars, toP4>>

LEMMA ArrivesIsStep ==
  ASSUME P4Data, NEW good \in BOOLEAN, P4!Sending, Arrives(good)
  PROVE  RxGets
<1>1. CASE tx.pc = "sendQuery"
  BY <1>1 DEF Arrives, RxGets, P4Data
<1>2. CASE tx.pc = "sendTime"
  BY <1>2 DEF Arrives, RxGets, P4Data
<1>3. CASE tx.pc = "sendChunk"
  <2> DEFINE c == [frame |-> tx.job.frame, image |-> tx.job.image,
                   index |-> tx.index, good |-> good]
  <2>1. c \in C6!Chunk
    BY <1>3 DEF P4Data, P4Job, Frame, C6!Chunk
  <2>2. C6!ChunkArrives(c)
    BY <1>3 DEF Arrives
  <2>3. QED
    BY <2>1, <2>2 DEF RxGets
<1>4. QED
  BY <1>1, <1>2, <1>3 DEF P4!Sending

LEMMA NextIsC6Step == P4Data /\ [Next]_vars => C6Step
<1> SUFFICES ASSUME P4Data, [Next]_vars PROVE C6Step
  OBVIOUS
<1>1. CASE Deliver
  BY <1>1, ArrivesIsStep DEF Deliver, C6Step
<1>2. CASE DeliverDamaged
  <2>1. tx.job.frame \in 0 .. LastFrame /\ 0 \in 0 .. LastFrame
    BY <1>2, LinkAssumption DEF DeliverDamaged, P4Data, P4Job, Frame
  <2>2. P4!Sending
    BY <1>2 DEF DeliverDamaged, P4!Sending
  <2>3. QED
    BY <1>2, <2>1, <2>2, ArrivesIsStep DEF DeliverDamaged, C6Step, RxGets
<1>3. CASE Fault
  BY <1>3, ArrivesIsStep DEF Fault, C6Step
<1>4. CASE Hear \/ LoseAnswer
  BY <1>4 DEF Hear, LoseAnswer, C6Step, AnswerLeaves
<1>5. CASE TransportUp \/ TransportDown \/ HearStart
  BY <1>5 DEF TransportUp, TransportDown, HearStart, C6Step
<1>6. CASE C6Restarts
  BY <1>6 DEF C6Restarts, C6Step, C6Reset
<1>7. CASE MeshComes \/ MeshGoes \/ SourceFinishes \/ SourceReports
  BY <1>7 DEF MeshComes, MeshGoes, SourceFinishes, SourceReports, C6Step, SourceRuns
<1>8. CASE Submits \/ AppQueues \/ P4Works
  BY <1>8 DEF Submits, AppQueues, P4Works, C6Step
<1>9. CASE RxWorks \/ StatusWorks \/ Silence
  BY <1>9 DEF RxWorks, StatusWorks, Silence, C6Step, RxRuns
<1>10. CASE UNCHANGED vars
  BY <1>10 DEF vars, C6Step
<1>11. QED
  BY <1>1, <1>2, <1>3, <1>4, <1>5, <1>6, <1>7, <1>8, <1>9, <1>10 DEF Next

-----------------------------------------------------------------------------
(* The P4's data *)

LEMMA P4Init == Init => P4Data
BY LinkAssumption DEF Init, P4!Init, P4Data

LEMMA P4Unchanged == P4Data /\ UNCHANGED p4Vars => P4Data'
BY DEF P4Data, p4Vars

\* What the P4 hears ends a reservation at most.
LEMMA HearingKeeps ==
  ASSUME NEW m, (m \in C6!Control /\ P4!HearControl(m)) \/ P4!HearSample(m)
  PROVE  /\ reserved' \in {reserved, 0}
         /\ UNCHANGED <<nextFrame, nextRequest, app, txQueue, tx>>
<1>1. CASE P4!HearSample(m)
  BY <1>1 DEF P4!HearSample, P4!reservation, P4!clock
<1>2. CASE m \in C6!Control /\ P4!HearControl(m)
  <2> DEFINE Ended == reserved' \in {reserved, 0} /\ UNCHANGED nextRequest
  <2>1. P4!HearReady => Ended
    BY DEF P4!HearReady, P4!Ignored, P4!reservation, P4!clock
  <2>2. P4!HearNotReady(m) => Ended
    BY DEF P4!HearNotReady, P4!Released, P4!reservation
  <2>3. P4!HearBusy(m) => Ended
    BY DEF P4!HearBusy, P4!Released, P4!reservation, P4!clock
  <2>4. P4!HearAccepted(m) \/ P4!HearFinal(m) => Ended
    BY DEF P4!HearAccepted, P4!HearFinal, P4!Released, P4!Ignored,
      P4!reservation, P4!clock
  <2> HIDE DEF Ended
  <2>5. m.state \in {"READY", "NOT_READY", "BUSY", "ACCEPTED", "SERVER_ACKED", "FAILED"}
    BY <1>2 DEF C6!Control, C6!Final
  <2>6. Ended
    BY <1>2, <2>1, <2>2, <2>3, <2>4, <2>5 DEF P4!HearControl
  <2>7. QED
    BY <1>2, <2>6 DEF P4!HearControl, Ended
<1>3. QED
  BY <1>1, <1>2

LEMMA P4SendType ==
  ASSUME P4Data, P4!Sending, P4!Sent \/ P4!SendFails
  PROVE  P4Data'
<1>1. /\ reserved' \in {reserved, 0}
      /\ UNCHANGED <<nextFrame, nextRequest, app, txQueue>>
  BY DEF P4!Sent, P4!SendFails, P4!MarkDown, P4!Forget, P4!reservation, P4!clock
<1> DEFINE Ends == tx'.pc \in {"time", "take", "loop", "mark"}
           GoesOn == /\ tx.pc = "sendChunk" /\ tx.index + 1 < ChunkCount
                     /\ tx' = [tx EXCEPT !.pc = "check", !.index = @ + 1]
<1>2. Ends \/ GoesOn
  <2>1. CASE P4!Sent /\ tx.pc = "sendQuery"
    BY <2>1 DEF P4!Sent, P4!Goto
  <2>6. CASE P4!Sent /\ tx.pc = "sendTime"
    BY <2>6 DEF P4!Sent, P4!Goto
  <2> DEFINE Moved == tx' \in {[pc |-> "time"], [pc |-> "take"], [pc |-> "loop"]}
  <2>5. CASE P4!SendFails
    <3>1. Moved
      BY <2>5 DEF P4!Sending, P4!SendFails, P4!Goto
    <3>2. QED
      BY <3>1
  <2>2. CASE tx.pc = "sendChunk" /\ P4!Sent /\ tx.index + 1 < ChunkCount
    BY <2>2 DEF P4!Sent
  <2>3. CASE tx.pc = "sendChunk" /\ P4!Sent /\ ~(tx.index + 1 < ChunkCount)
    BY <2>3 DEF P4!Sent
  <2>4. QED
    BY <2>1, <2>2, <2>3, <2>5, <2>6 DEF P4!Sending
<1>3. ASSUME tx'.pc \in {"time", "take", "loop", "mark"}
      PROVE  P4Data'
  BY <1>1, <1>3, LinkAssumption DEF P4Data
<1>4. ASSUME tx.pc = "sendChunk", tx.index + 1 < ChunkCount,
             tx' = [tx EXCEPT !.pc = "check", !.index = @ + 1]
      PROVE  P4Data'
  <2>1. tx' \in [pc : {"check", "sendChunk"}, job : P4Job, index : C6!Index]
    <3>1. tx \in [pc : {"check", "sendChunk"}, job : P4Job, index : C6!Index]
      BY <1>4 DEF P4Data
    <3>2. tx.index + 1 \in C6!Index
      BY <1>4, <3>1, LinkAssumption DEF C6!Index
    <3>3. QED
      BY <1>4, <3>1, <3>2
  <2>2. QED
    BY <1>1, <2>1, LinkAssumption DEF P4Data
<1>5. QED
  BY <1>2, <1>3, <1>4

LEMMA Samples ==
  ASSUME NEW m \in C6!Control \cup C6!Sample, ~IsSample(m)
  PROVE  m \in C6!Control
BY DEF IsSample, C6!Sample

LEMMA P4Next == P4Data /\ C6Data /\ [Next]_vars => P4Data'
<1> SUFFICES ASSUME P4Data, C6Data, [Next]_vars PROVE P4Data'
  OBVIOUS
<1> USE LinkAssumption
<1>1. CASE Deliver \/ DeliverDamaged \/ Fault
  BY <1>1, P4SendType DEF Deliver, DeliverDamaged, Fault, P4!Sending
<1>2. CASE Hear
  <2> DEFINE m == Head(toP4)
  <2>1. m \in C6!Control \cup C6!Sample
    BY <1>2 DEF Hear, C6Data, QueueData
  <2>2. (m \in C6!Control /\ P4!HearControl(m)) \/ P4!HearSample(m)
    BY <1>2, <2>1, Samples DEF Hear
  <2>3. /\ reserved' \in {reserved, 0}
        /\ UNCHANGED <<nextFrame, nextRequest, app, txQueue, tx>>
    BY <2>2, HearingKeeps
  <2>4. QED
    BY <2>3 DEF P4Data
<1>3. CASE TransportUp \/ TransportDown \/ HearStart
  BY <1>3 DEF TransportUp, TransportDown, HearStart, P4!TransportUp,
    P4!TransportDown, P4!C6Initialized, P4!MarkDown, P4!Forget, P4Data
<1>4. CASE Submits
  BY <1>4 DEF Submits, P4!SubmitEvent, P4!clock, P4Data, P4Job, Frame
<1>5. CASE AppQueues
  BY <1>5 DEF AppQueues, P4!QueueJob, P4!reservation, P4!clock, P4Data
<1>6. CASE P4Works
  <2>1. CASE P4!ShouldQuery \/ P4!Query \/ P4!PrepareTime
    BY <1>6, <2>1 DEF P4!ShouldQuery, P4!Query, P4!PrepareTime, P4!Goto,
      P4!reservation, P4!clock, P4Data, Query
  <2>2. CASE P4!TakeJob
    BY <2>2 DEF P4!TakeJob, P4!Goto, P4!reservation, P4!clock, P4Data, C6!Index
  <2>3. CASE P4!CheckJob
    BY <2>3 DEF P4!CheckJob, P4!Goto, P4!reservation, P4!clock, P4Data
  <2>4. CASE P4!ReleaseForQuery \/ P4!MarkComplete
    BY <2>4 DEF P4!ReleaseForQuery, P4!MarkComplete, P4!Goto, P4!reservation,
      P4!clock, P4Data
  <2>5. QED
    BY <1>6, <2>1, <2>2, <2>3, <2>4 DEF P4Works, P4!TxStep
<1>7. CASE \/ LoseAnswer \/ C6Restarts \/ MeshComes \/ MeshGoes \/ RxWorks
           \/ StatusWorks \/ SourceFinishes \/ SourceReports \/ Silence
           \/ UNCHANGED vars
  BY <1>7, P4Unchanged DEF LoseAnswer, C6Restarts, MeshComes, MeshGoes, RxWorks,
    StatusWorks, SourceFinishes, SourceReports, Silence, vars
<1>8. QED
  BY <1>1, <1>2, <1>3, <1>4, <1>5, <1>6, <1>7 DEF Next
-----------------------------------------------------------------------------
(* The C6's data *)

LEMMA Appends ==
  ASSUME NEW S, NEW s \in Seq(S), NEW e \in S
  PROVE  /\ Append(s, e) \in Seq(S) /\ Len(Append(s, e)) = Len(s) + 1
         /\ \A n \in 1 .. Len(s) + 1 :
              Append(s, e)[n] = IF n = Len(s) + 1 THEN e ELSE s[n]
OBVIOUS

LEMMA Tails ==
  ASSUME NEW S, NEW s \in Seq(S), s # <<>>
  PROVE  /\ Tail(s) \in Seq(S) /\ Len(Tail(s)) = Len(s) - 1
         /\ Head(s) = s[1] /\ Head(s) \in S /\ 1 \in 1 .. Len(s)
         /\ \A n \in 1 .. Len(s) - 1 : Tail(s)[n] = s[n + 1] /\ n + 1 \in 1 .. Len(s)
OBVIOUS

LEMMA Enqueues ==
  ASSUME QueueData, NEW e \in C6!Event, C6!Enqueue(e)
  PROVE  /\ events' \in Seq(C6!Event) /\ Len(events') <= EventQueue
         /\ \A n \in 1 .. Len(events') :
              events'[n] = e \/ \E k \in 1 .. Len(events) : events'[n] = events[k]
<1>1. events \in Seq(C6!Event) /\ EventQueue \in Nat
  BY LinkAssumption DEF QueueData
<1>2. CASE Len(events) < EventQueue
  BY <1>1, <1>2, Appends DEF C6!Enqueue
<1>3. CASE ~(Len(events) < EventQueue)
  BY <1>1, <1>3 DEF C6!Enqueue, QueueData
<1>4. QED
  BY <1>2, <1>3

LEMMA Sends ==
  ASSUME QueueData, NEW m \in C6!Control \cup C6!Sample, C6!Send(m)
  PROVE  /\ toP4' \in Seq(C6!Control \cup C6!Sample)
         /\ \A n \in 1 .. Len(toP4') :
              toP4'[n] = m \/ \E k \in 1 .. Len(toP4) : toP4'[n] = toP4[k]
<1>1. toP4 \in Seq(C6!Control \cup C6!Sample)
  BY DEF QueueData
<1>2. CASE Len(toP4) < ChannelMax
  BY <1>1, <1>2, Appends DEF C6!Send
<1>3. CASE ~(Len(toP4) < ChannelMax)
  BY <1>1, <1>3 DEF C6!Send
<1>4. QED
  BY <1>2, <1>3

LEMMA Messages ==
  ASSUME NEW s \in {"READY", "NOT_READY", "BUSY", "ACCEPTED", "SERVER_ACKED", "FAILED"},
         NEW f \in 0 .. LastFrame, NEW b \in AnyBle, NEW o \in 0 .. LastFrame
  PROVE  /\ C6!Msg(s, f, b, o) \in C6!Control
         /\ C6!Msg(s, f, b, o).state = s /\ C6!Msg(s, f, b, o).frame = f
BY LinkAssumption DEF C6!Msg, C6!Control, C6!Final, AnyBle

LEMMA ActiveFrames ==
  ASSUME ReceiverData
  PROVE  /\ C6!ActiveFrame \in 0 .. LastFrame
         /\ state # "IDLE" => first \in P4Job /\ C6!ActiveFrame = first.frame
                              /\ C6!ActiveFrame \in Frame
BY LinkAssumption DEF ReceiverData, C6!ActiveFrame, P4Job, Frame

\* The RX task goes on to a reply.
LEMMA Replies ==
  ASSUME NEW s \in {"BUSY", "FAILED"}, NEW f \in 0 .. LastFrame,
         NEW b \in AnyBle, NEW o \in 0 .. LastFrame,
         C6!Reply(C6!Msg(s, f, b, o))
  PROVE  RxData' /\ rx'.pc = "reply"
<1>1. rx' = [pc |-> "reply", control |-> C6!Msg(s, f, b, o)]
  BY DEF C6!Reply
<1> HIDE DEF C6!Msg
<1>2. C6!Msg(s, f, b, o) \in C6!Control /\ C6!Msg(s, f, b, o).state = s
  BY Messages
<1>3. QED
  BY <1>1, <1>2 DEF RxData

LEMMA ResetType ==
  ASSUME C6!ResetReceiver, UNCHANGED buffer, ReceiverData
  PROVE  ReceiverData'
BY LinkAssumption DEF C6!ResetReceiver, ReceiverData, AnyBle

LEMMA ReceiverKept == ReceiverData /\ UNCHANGED <<C6!receiver, buffer>> => ReceiverData'
BY DEF ReceiverData, C6!receiver

LEMMA QueueKept ==
  QueueData /\ UNCHANGED <<terminal, events, lifecycle, job, finished, acked, toP4>>
    => QueueData'
BY DEF QueueData

LEMMA WorkKept == WorkData /\ UNCHANGED work => WorkData'
BY DEF WorkData

LEMMA RxKept == RxData /\ UNCHANGED rx => RxData'
BY DEF RxData

LEMMA StoresType ==
  ASSUME ReceiverData, NEW c, c.index \in C6!Index, c.image \in Image,
         C6!Stored(c)
  PROVE  /\ buffer' \in [C6!Index -> Image \cup {Noise}]
         /\ next' \in 0 .. ChunkCount
         /\ state' \in {"VERIFYING", "ASSEMBLING"}
         /\ rx'.pc \in {"verify", "idle"}
         /\ rx'.pc = "verify" <=> state' = "VERIFYING"
<1>1. next' \in 0 .. ChunkCount
  BY LinkAssumption DEF C6!Stored, C6!Index
<1>2. buffer' \in [C6!Index -> Image \cup {Noise}]
  <2>1. (IF c.good THEN c.image ELSE Noise) \in Image \cup {Noise}
    OBVIOUS
  <2>2. QED
    BY <2>1 DEF C6!Stored, ReceiverData
<1>3. \/ state' = "VERIFYING" /\ rx' = [pc |-> "verify"]
      \/ state' = "ASSEMBLING" /\ rx' = [pc |-> "idle"]
  BY DEF C6!Stored, C6!At
<1>4. QED
  BY <1>1, <1>2, <1>3

LEMMA TakeChunkType ==
  ASSUME C6Data, C6!TakeChunk
  PROVE  ReceiverData' /\ RxData' /\ acked' \subseteq Frame /\ terminal' \in Terminal
<1> DEFINE c == rx.chunk
<1>1. c.frame \in Frame /\ c.image \in Image /\ c.index \in C6!Index
  BY DEF C6!TakeChunk, C6Data, RxData
<1>2. c.frame \in 0 .. LastFrame /\ 0 \in 0 .. LastFrame /\ ble \in AnyBle /\ 0 \in AnyBle
  BY <1>1, LinkAssumption DEF Frame, C6Data, ReceiverData, AnyBle
<1> HIDE DEF c
<1>3. CASE C6!FirstRefused(c)
  <2>1. RxData'
    BY <1>2, <1>3, Replies, ActiveFrames DEF C6!FirstRefused, C6Data
  <2>2. ReceiverData'
    BY <1>3, ResetType, ReceiverKept DEF C6!FirstRefused, C6Data
  <2>3. QED
    BY <1>3, <2>1, <2>2 DEF C6!FirstRefused, C6Data, QueueData
<1>4. CASE C6!FirstStored(c)
  <2>1. C6!Stored(c) /\ first' = [frame |-> c.frame, image |-> c.image] /\ ble' = 0
    BY <1>4 DEF C6!FirstStored
  <2>2. first' \in P4Job /\ P4Job = [frame : 1 .. LastFrame, image : Image]
    BY <1>1, <2>1 DEF P4Job, Frame
  <2>3. ReceiverData'
    BY <1>1, <1>2, <2>1, <2>2, StoresType, LinkAssumption DEF ReceiverData, C6Data
  <2>4. RxData'
    BY <1>1, <2>1, StoresType DEF RxData, C6Data
  <2>5. QED
    BY <1>4, <2>3, <2>4 DEF C6!FirstStored, C6!Supersede, C6Data, QueueData,
      Terminal
<1>5. CASE C6!LaterRefused(c)
  <2>1. RxData'
    BY <1>2, <1>5, Replies, ActiveFrames DEF C6!LaterRefused, C6Data
  <2>2. ReceiverData'
    BY <1>5, ResetType, ReceiverKept DEF C6!LaterRefused, C6Data
  <2>3. QED
    BY <1>5, <2>1, <2>2 DEF C6!LaterRefused, C6Data, QueueData
<1>6. CASE C6!LaterStored(c)
  <2>1. C6!Stored(c) /\ UNCHANGED <<first, ble, terminal, acked>> /\ state = "ASSEMBLING"
    BY <1>6 DEF C6!LaterStored
  <2>2. ReceiverData'
    BY <1>1, <2>1, StoresType DEF ReceiverData, C6Data
  <2>3. RxData'
    BY <1>1, <2>1, StoresType DEF RxData, C6Data
  <2>4. QED
    BY <2>1, <2>2, <2>3 DEF C6Data, QueueData
<1>7. QED
  BY <1>3, <1>4, <1>5, <1>6 DEF C6!TakeChunk, c
\* A message reaches the RX task: only a bad chunk changes the receiver.
LEMMA RxGetsType ==
  ASSUME C6Data, RxGets
  PROVE  C6Data'
<1> USE DEF C6Data
<1>1. ASSUME NEW f \in 0 .. LastFrame, C6!BadChunk(f)
      PROVE  C6Data'
  <2>1. 0 \in 0 .. LastFrame /\ 0 \in AnyBle
    BY LinkAssumption DEF AnyBle
  <2>2. RxData'
    BY <1>1, <2>1, Replies, ActiveFrames DEF C6!BadChunk
  <2>3. ReceiverData'
    BY <1>1, ResetType, ReceiverKept DEF C6!BadChunk
  <2>4. QED
    BY <1>1, <2>2, <2>3, QueueKept, WorkKept DEF C6!BadChunk, C6!queues, C6!source
<1>2. ASSUME NEW f \in 0 .. LastFrame, C6!QueryArrives(f)
      PROVE  C6Data'
  <2>1. [kind |-> "QUERY", frame |-> f] \in C6!Event
    BY LinkAssumption DEF C6!Event
  <2>2. QueueData'
    BY <1>2, <2>1, Enqueues DEF C6!QueryArrives, C6!source, QueueData
  <2>3. QED
    BY <1>2, <2>2, ReceiverKept, WorkKept, RxKept DEF C6!QueryArrives
<1>3. ASSUME NEW c \in C6!Chunk, C6!ChunkArrives(c)
      PROVE  C6Data'
  <2>1. c.frame \in Frame /\ c.image \in Image /\ c.index \in C6!Index
    BY DEF C6!Chunk, Frame
  <2>2. rx'.pc = "chunk" /\ rx'.chunk = c
    BY <1>3 DEF C6!ChunkArrives
  <2>3. RxData'
    BY <2>1, <2>2 DEF RxData
  <2>4. QED
    BY <1>3, <2>3, ReceiverKept, QueueKept, WorkKept
    DEF C6!ChunkArrives, C6!queues, C6!source
<1>4. ASSUME NEW id \in Query, C6!TimeQueryArrives(id)
      PROVE  C6Data'
  <2>1. [kind |-> "time", id |-> id] \in C6!Job
    BY DEF C6!Job, Query
  <2>2. \A s \in {"BUSY", "NOT_READY"} :
          [kind |-> "SAMPLE", sample |-> [id |-> id, status |-> s]] \in C6!Event
    BY DEF C6!Event, C6!Sample, Query
  <2>3. QueueData'
    <3>1. CASE state = "IDLE" /\ ~outstanding /\ ready
      BY <1>4, <2>1, <3>1 DEF C6!TimeQueryArrives, QueueData
    <3>2. CASE ~(state = "IDLE" /\ ~outstanding /\ ready)
      <4> DEFINE s == IF state # "IDLE" \/ outstanding THEN "BUSY" ELSE "NOT_READY"
                 e == [kind |-> "SAMPLE", sample |-> [id |-> id, status |-> s]]
      <4>1. C6!Enqueue(e) /\ job' = job
        BY <1>4, <3>2 DEF C6!TimeQueryArrives
      <4>2. e \in C6!Event
        BY <2>2
      <4> HIDE DEF e
      <4>3. QED
        BY <1>4, <4>1, <4>2, Enqueues DEF C6!TimeQueryArrives, QueueData
    <3>3. QED
      BY <3>1, <3>2
  <2>4. QED
    BY <1>4, <2>3, ReceiverKept, WorkKept, RxKept DEF C6!TimeQueryArrives
<1>5. QED
  BY <1>1, <1>2, <1>3, <1>4 DEF RxGets

LEMMA RxStepType ==
  ASSUME C6Data, OneToken, C6!RxStep
  PROVE  C6Data'
<1> USE DEF C6Data
<1>1. CASE C6!TakeChunk
  BY <1>1, TakeChunkType, WorkKept DEF C6!TakeChunk, C6!queues, C6!source, QueueData
<1>2. CASE C6!Verify
  <2>1. state = "VERIFYING"
    BY <1>2 DEF C6!Verify, OneToken
  <2>2. 0 \in 0 .. LastFrame /\ 0 \in AnyBle
    BY LinkAssumption DEF AnyBle
  <2>3. ReceiverData'
    BY <1>2, <2>1, ResetType DEF C6!Verify, ReceiverData
  <2>4. RxData'
    <3>1. CASE rx' = C6!At("complete")
      BY <3>1 DEF C6!At, RxData
    <3>2. CASE C6!Reply(C6!Msg("FAILED", C6!ActiveFrame, 0, 0))
      BY <2>2, <3>2, Replies, ActiveFrames
    <3>3. QED
      BY <1>2, <3>1, <3>2 DEF C6!Verify
  <2>5. QED
    BY <1>2, <2>3, <2>4, QueueKept, WorkKept DEF C6!Verify, C6!queues, C6!source
<1>3. CASE C6!Complete
  <2>1. C6!ActiveFrame \in Frame
    BY <1>3, ActiveFrames DEF C6!Complete, OneToken
  <2>2. C6!FrameComplete(C6!ActiveFrame) \in C6!Lifecycle
    BY <2>1 DEF C6!FrameComplete, C6!Lifecycle, Frame
  <2>3. QueueData'
    BY <1>3, <2>2 DEF C6!Complete, C6!source, QueueData
  <2>4. RxData'
    BY <1>3 DEF C6!Complete, C6!At, RxData
  <2>5. QED
    BY <1>3, <2>3, <2>4, ReceiverKept, WorkKept DEF C6!Complete
<1>4. CASE C6!EnqueueReply
  <2>1. rx.control \in C6!Control
    BY <1>4 DEF C6!EnqueueReply, RxData
  <2>2. [kind |-> "CONTROL", control |-> rx.control] \in C6!Event
    BY <2>1 DEF C6!Event
  <2>3. terminal' \in Terminal
    BY <1>4, <2>1 DEF C6!EnqueueReply, C6!CacheTerminal, Terminal, Final, QueueData
  <2>4. QueueData'
    BY <1>4, <2>2, <2>3, Enqueues DEF C6!EnqueueReply, C6!source, QueueData
  <2>5. RxData'
    BY <1>4 DEF C6!EnqueueReply, C6!At, RxData
  <2>6. QED
    BY <1>4, <2>4, <2>5, ReceiverKept, WorkKept DEF C6!EnqueueReply
<1>5. QED
  BY <1>1, <1>2, <1>3, <1>4 DEF C6!RxStep

\* The status worker goes on to send a message of its own.
LEMMA GoesToSend ==
  ASSUME NEW s \in {"READY", "NOT_READY", "BUSY", "ACCEPTED", "SERVER_ACKED", "FAILED"},
         NEW f \in 0 .. LastFrame, NEW b \in AnyBle, NEW o \in 0 .. LastFrame,
         NEW push, C6!GoSend(C6!Msg(s, f, b, o), push)
  PROVE  WorkData' /\ work'.pc = "send" /\ work'.control = C6!Msg(s, f, b, o)
<1>1. work' = [pc |-> "send", control |-> C6!Msg(s, f, b, o), push |-> push]
  BY DEF C6!GoSend
<1> HIDE DEF C6!Msg
<1>2. QED
  BY <1>1, Messages DEF WorkData

LEMMA TakeLifecycleType ==
  ASSUME C6Data, C6!TakeLifecycle
  PROVE  C6Data'
<1> USE DEF C6Data
<1>1. lifecycle \in C6!Lifecycle
  BY DEF C6!TakeLifecycle, QueueData
<1>2. CASE lifecycle.kind = "FRAME_COMPLETE" /\ C6!BeginSubmit(lifecycle)
  <2>1. lifecycle.frame \in Frame
    BY <1>1, <1>2 DEF C6!Lifecycle, Frame
  <2>2. WorkData'
    BY <1>2, <2>1 DEF C6!BeginSubmit, C6!At, WorkData
  <2>3. QueueData'
    BY <1>2 DEF C6!BeginSubmit, C6!TakeLifecycle, C6!source, QueueData
  <2>4. QED
    BY <1>2, <2>2, <2>3, ReceiverKept, RxKept DEF C6!BeginSubmit, C6!TakeLifecycle
<1>3. CASE lifecycle.kind = "BLE_FRAME_DONE" /\ C6!FrameDone(lifecycle)
  <2>1. lifecycle.frame \in 0 .. LastFrame /\ lifecycle.ble \in AnyBle /\ 0 \in 0 .. LastFrame
    BY <1>1, <1>3, LinkAssumption DEF C6!Lifecycle, AnyBle
  <2>2. WorkData'
    <3>1. CASE work' = C6!At("idle")
      BY <3>1 DEF C6!At, WorkData
    <3> DEFINE s == IF lifecycle.ok THEN "SERVER_ACKED" ELSE "FAILED"
    <3>2. CASE C6!GoSend(C6!Msg(s, lifecycle.frame, lifecycle.ble, 0), TRUE)
      <4>1. s \in {"READY", "NOT_READY", "BUSY", "ACCEPTED", "SERVER_ACKED", "FAILED"}
        OBVIOUS
      <4> HIDE DEF s
      <4>2. QED
        BY <2>1, <3>2, <4>1, GoesToSend
    <3>3. QED
      BY <1>3, <3>1, <3>2 DEF C6!FrameDone
  <2>3. ReceiverData'
    BY <1>3, ResetType, ReceiverKept DEF C6!FrameDone, C6!TakeLifecycle
  <2>4. QueueData'
    BY <1>3 DEF C6!FrameDone, C6!TakeLifecycle, C6!source, QueueData
  <2>5. QED
    BY <2>2, <2>3, <2>4, RxKept DEF C6!TakeLifecycle
<1>4. CASE lifecycle.kind = "BLE_TIME_DONE" /\ C6!TimeDone(lifecycle)
  <2>1. lifecycle.sample \in C6!Sample
    BY <1>1, <1>4 DEF C6!Lifecycle
  <2>2. QueueData'
    BY <1>4, <2>1, Sends DEF C6!TimeDone, C6!TakeLifecycle, C6!source, QueueData
  <2>3. WorkData'
    BY <1>4 DEF C6!TimeDone, C6!At, WorkData
  <2>4. QED
    BY <1>4, <2>2, <2>3, ReceiverKept, RxKept DEF C6!TimeDone, C6!TakeLifecycle
<1>5. lifecycle.kind \in {"FRAME_COMPLETE", "BLE_FRAME_DONE", "BLE_TIME_DONE"}
  BY <1>1 DEF C6!Lifecycle
<1>6. QED
  BY <1>2, <1>3, <1>4, <1>5 DEF C6!TakeLifecycle
LEMMA SubmitType ==
  ASSUME C6Data, OneToken, C6!Submit \/ C6!Submitted
  PROVE  C6Data'
<1> USE DEF C6Data
<1>1. CASE C6!Submit
  <2>1. work.frame \in Frame /\ first.image \in Image
    BY <1>1, ActiveFrames DEF C6!Submit, WorkData, OneToken, P4Job
  <2>2. PICK b \in BleFrame :
          IF ready /\ ~outstanding
          THEN /\ job' = [kind |-> "image", frame |-> work.frame, ble |-> b,
                          image |-> first.image]
               /\ work' = [pc |-> "submitted", frame |-> work.frame, ble |-> b,
                           ok |-> TRUE]
          ELSE /\ work' = [pc |-> "submitted", frame |-> work.frame, ble |-> 0,
                           ok |-> FALSE]
               /\ UNCHANGED job
    BY <1>1 DEF C6!Submit
  <2>3. b \in AnyBle /\ 0 \in AnyBle
    BY DEF AnyBle
  <2>4. job' \in C6!Job \cup {None}
    <3>1. [kind |-> "image", frame |-> work.frame, ble |-> b, image |-> first.image]
            \in C6!Job
      BY <2>1 DEF C6!Job, Frame
    <3>2. QED
      BY <2>2, <3>1 DEF QueueData
  <2>5. WorkData'
    BY <2>1, <2>2, <2>3 DEF WorkData
  <2>6. QueueData'
    BY <1>1, <2>4 DEF C6!Submit, C6!queues, QueueData
  <2>7. QED
    BY <1>1, <2>5, <2>6, ReceiverKept, RxKept DEF C6!Submit
<1>2. CASE C6!Submitted
  <2>1. work.frame \in Frame /\ work.ble \in AnyBle /\ state = "PENDING_BLE"
    BY <1>2 DEF C6!Submitted, WorkData, OneToken
  <2>2. ReceiverData'
    <3>1. CASE C6!ResetReceiver
      BY <1>2, <3>1, ResetType DEF C6!Submitted
    <3>2. CASE state' = "BLE_ACTIVE" /\ ble' = work.ble /\ UNCHANGED <<first, next, silent>>
      BY <1>2, <2>1, <3>2 DEF C6!Submitted, ReceiverData
    <3>3. CASE UNCHANGED C6!receiver
      BY <1>2, <3>3, ReceiverKept DEF C6!Submitted
    <3>4. QED
      BY <1>2, <3>1, <3>2, <3>3 DEF C6!Submitted
  <2>3. WorkData'
    <3> DEFINE s == IF work.ok THEN "ACCEPTED" ELSE "FAILED"
    <3>1. C6!GoSend(C6!Msg(s, work.frame, work.ble, 0), ~work.ok)
      BY <1>2 DEF C6!Submitted
    <3>2. /\ s \in {"READY", "NOT_READY", "BUSY", "ACCEPTED", "SERVER_ACKED", "FAILED"}
          /\ work.frame \in 0 .. LastFrame /\ 0 \in 0 .. LastFrame
      BY <2>1, LinkAssumption DEF Frame
    <3> HIDE DEF s
    <3>3. QED
      BY <2>1, <3>1, <3>2, GoesToSend
  <2>4. QED
    BY <1>2, <2>2, <2>3, QueueKept, RxKept DEF C6!Submitted, C6!queues, C6!source
<1>3. QED
  BY <1>1, <1>2

LEMMA WorkTalksType ==
  ASSUME C6Data, C6!SendControl \/ C6!PushReady
  PROVE  C6Data'
<1> USE DEF C6Data
<1>1. CASE C6!SendControl
  <2>1. work.control \in C6!Control
    BY <1>1 DEF C6!SendControl, WorkData
  <2>2. terminal' \in Terminal
    BY <1>1, <2>1 DEF C6!SendControl, C6!CacheTerminal, Terminal, Final, QueueData
  <2>3. QueueData'
    BY <1>1, <2>1, <2>2, Sends DEF C6!SendControl, C6!queues, C6!source, QueueData
  <2>4. WorkData'
    BY <1>1 DEF C6!SendControl, C6!At, WorkData
  <2>5. QED
    BY <1>1, <2>3, <2>4, ReceiverKept, RxKept DEF C6!SendControl
<1>2. CASE C6!PushReady
  <2>1. C6!Msg("READY", 0, 0, 0) \in C6!Control
    BY LinkAssumption, Messages DEF AnyBle
  <2>2. QueueData'
    <3>1. CASE C6!Send(C6!Msg("READY", 0, 0, 0))
      BY <1>2, <2>1, <3>1, Sends DEF C6!PushReady, C6!queues, C6!source, QueueData
    <3>2. CASE UNCHANGED toP4
      BY <1>2, <3>2, QueueKept DEF C6!PushReady, C6!queues, C6!source
    <3>3. QED
      BY <1>2, <3>1, <3>2 DEF C6!PushReady
  <2>3. WorkData'
    BY <1>2 DEF C6!PushReady, C6!At, WorkData
  <2>4. QED
    BY <1>2, <2>2, <2>3, ReceiverKept, RxKept DEF C6!PushReady
<1>3. QED
  BY <1>1, <1>2

LEMMA SnapshotType ==
  ASSUME C6Data, NEW f \in 0 .. LastFrame, C6!Snapshot(f)
  PROVE  WorkData' /\ work'.pc = "answer" /\ work'.terminal = terminal
<1>1. work' = [pc |-> "answer", frame |-> f, state |-> state,
               active |-> C6!ActiveFrame, ble |-> ble, terminal |-> terminal]
  BY DEF C6!Snapshot
<1>2. C6!ActiveFrame \in 0 .. LastFrame /\ ble \in AnyBle /\ terminal \in Terminal
  BY ActiveFrames DEF C6Data, ReceiverData, QueueData
<1> HIDE DEF C6!ActiveFrame
<1>3. QED
  BY <1>1, <1>2 DEF WorkData

LEMMA AnswersType ==
  ASSUME C6Data, C6!Answer
  PROVE  /\ WorkData' /\ work'.pc = "send"
         /\ \/ work'.control.state \in {"BUSY", "READY", "NOT_READY"}
            \/ work'.control = work.terminal /\ work.terminal # None
<1> DEFINE Any == {"READY", "NOT_READY", "BUSY", "ACCEPTED", "SERVER_ACKED", "FAILED"}
           Cached == work.frame # 0 /\ work.terminal # None
                       /\ work.terminal.frame = work.frame
           Busy == work.state # "IDLE" \/ outstanding
<1>1. /\ work.frame \in 0 .. LastFrame /\ work.active \in 0 .. LastFrame
      /\ work.ble \in AnyBle /\ work.terminal \in Terminal
      /\ 0 \in 0 .. LastFrame /\ 0 \in AnyBle
  BY LinkAssumption DEF C6!Answer, C6Data, WorkData, AnyBle
<1>2. CASE Cached
  <2>1. C6!GoSend(work.terminal, FALSE)
    BY <1>2 DEF C6!Answer
  <2>2. work' = [pc |-> "send", control |-> work.terminal, push |-> FALSE]
    BY <2>1 DEF C6!GoSend
  <2>3. QED
    BY <1>1, <1>2, <2>2 DEF WorkData, Terminal
<1>3. CASE ~Cached /\ Busy
  <2> DEFINE f == IF work.frame # 0 THEN work.frame ELSE work.active
  <2>1. C6!GoSend(C6!Msg("BUSY", f, work.ble, work.active), FALSE)
    BY <1>3 DEF C6!Answer
  <2>2. f \in 0 .. LastFrame /\ "BUSY" \in Any
    BY <1>1
  <2> HIDE DEF f, Cached, Busy
  <2> DEFINE c == C6!Msg("BUSY", f, work.ble, work.active)
  <2>3. WorkData' /\ work'.pc = "send" /\ work'.control = c
    <3>1. c \in C6!Control
      BY <1>1, <2>2, Messages
    <3>2. work' = [pc |-> "send", control |-> c, push |-> FALSE]
      BY <2>1 DEF C6!GoSend
    <3> HIDE DEF c
    <3>3. QED
      BY <3>1, <3>2 DEF WorkData
  <2>4. work'.control.state = "BUSY"
    BY <2>3 DEF C6!Msg
  <2>5. QED
    BY <2>3, <2>4
<1>4. CASE ~Cached /\ ~Busy
  <2> DEFINE s == IF ready THEN "READY" ELSE "NOT_READY"
  <2>1. C6!GoSend(C6!Msg(s, work.frame, 0, 0), FALSE)
    BY <1>4 DEF C6!Answer
  <2>2. s \in {"READY", "NOT_READY"} /\ s \in Any
    OBVIOUS
  <2> HIDE DEF s, Cached, Busy
  <2>3. /\ WorkData' /\ work'.pc = "send"
        /\ work'.control = C6!Msg(s, work.frame, 0, 0)
    BY <1>1, <2>1, <2>2, GoesToSend
  <2>4. work'.control.state = s
    BY <2>3 DEF C6!Msg
  <2>5. QED
    BY <2>2, <2>3, <2>4
<1>5. QED
  BY <1>2, <1>3, <1>4

LEMMA WorkTakesType ==
  ASSUME C6Data, C6!TakeReadyEdge \/ C6!TakeEvent \/ C6!Answer \/ C6!CheckTimeout
  PROVE  C6Data'
<1> USE DEF C6Data
<1>1. CASE C6!TakeReadyEdge
  <2>1. WorkData'
    BY <1>1, SnapshotType, LinkAssumption DEF C6!TakeReadyEdge
  <2>2. QED
    BY <1>1, <2>1, ReceiverKept, QueueKept, RxKept DEF C6!TakeReadyEdge, C6!source
<1>2. CASE C6!TakeEvent
  <2> DEFINE e == Head(events)
  <2>1. /\ e \in C6!Event /\ events' \in Seq(C6!Event)
        /\ Len(events') <= EventQueue
    <3>1. events # <<>> /\ events \in Seq(C6!Event) /\ events' = Tail(events)
      BY <1>2 DEF C6!TakeEvent, QueueData
    <3>2. QED
      BY <3>1, Tails, LinkAssumption DEF QueueData
  <2> HIDE DEF e
  <2>2. CASE e.kind = "QUERY" /\ C6!Snapshot(e.frame) /\ UNCHANGED toP4
    <3>1. e.frame \in 0 .. LastFrame
      BY <2>1, <2>2, LinkAssumption DEF C6!Event
    <3>2. WorkData'
      BY <2>2, <3>1, SnapshotType
    <3>3. QueueData'
      BY <1>2, <2>1, <2>2 DEF C6!TakeEvent, C6!source, QueueData
    <3>4. QED
      BY <1>2, <3>2, <3>3, ReceiverKept, RxKept DEF C6!TakeEvent
  <2>3. CASE e.kind = "CONTROL" /\ C6!GoSend(e.control, FALSE) /\ UNCHANGED toP4
    <3>1. e.control \in C6!Control
      BY <2>1, <2>3 DEF C6!Event
    <3>2. WorkData'
      BY <2>3, <3>1 DEF C6!GoSend, WorkData
    <3>3. QueueData'
      BY <1>2, <2>1, <2>3 DEF C6!TakeEvent, C6!source, QueueData
    <3>4. QED
      BY <1>2, <3>2, <3>3, ReceiverKept, RxKept DEF C6!TakeEvent
  <2>4. CASE e.kind = "SAMPLE" /\ C6!Send(e.sample) /\ work' = C6!At("idle")
    <3>1. e.sample \in C6!Sample
      BY <2>1, <2>4 DEF C6!Event
    <3>2. WorkData'
      BY <2>4 DEF C6!At, WorkData
    <3>3. QueueData'
      BY <1>2, <2>1, <2>4, <3>1, Sends DEF C6!TakeEvent, C6!source, QueueData
    <3>4. QED
      BY <1>2, <3>2, <3>3, ReceiverKept, RxKept DEF C6!TakeEvent
  <2>5. QED
    BY <1>2, <2>2, <2>3, <2>4 DEF C6!TakeEvent, e
<1>3. CASE C6!Answer
  BY <1>3, AnswersType, ReceiverKept, QueueKept, RxKept DEF C6!Answer, C6!queues,
    C6!source
<1>4. CASE C6!CheckTimeout
  <2>1. WorkData'
    <3>1. C6!GoSend(C6!Msg("FAILED", C6!ActiveFrame, 0, 0), FALSE)
      BY <1>4 DEF C6!CheckTimeout
    <3>2. C6!ActiveFrame \in 0 .. LastFrame /\ 0 \in 0 .. LastFrame /\ 0 \in AnyBle
      BY ActiveFrames, LinkAssumption DEF AnyBle
    <3>3. QED
      BY <3>1, <3>2, GoesToSend
  <2>2. ReceiverData'
    BY <1>4, ResetType DEF C6!CheckTimeout
  <2>3. QED
    BY <1>4, <2>1, <2>2, QueueKept, RxKept DEF C6!CheckTimeout, C6!queues, C6!source
<1>5. QED
  BY <1>1, <1>2, <1>3, <1>4

LEMMA SourceType ==
  ASSUME C6Data, SourceRuns
  PROVE  C6Data'
<1> USE DEF C6Data
<1>1. UNCHANGED <<C6!receiver, buffer, rx, work>>
  BY DEF SourceRuns, C6!SourceFinishes, C6!SourceReports, C6!ReadyChanges
<1>2. QueueData'
  <2>1. CASE C6!ReadyChanges
    BY <2>1, QueueKept DEF C6!ReadyChanges
  <2>2. CASE C6!SourceReports
    BY <2>2 DEF C6!SourceReports, QueueData
  <2>3. CASE C6!SourceFinishes
    <3>1. job \in C6!Job
      BY <2>3 DEF C6!SourceFinishes, QueueData
    <3>2. CASE job.kind = "image"
      <4>1. job.frame \in Frame /\ job.ble \in BleFrame
        BY <3>1, <3>2 DEF C6!Job, Frame
      <4>2. PICK ok \in BOOLEAN :
              /\ C6!FinishJob(C6!BleFrameDone(job.frame, job.ble, ok))
              /\ acked' = IF ok THEN acked \cup {job.frame} ELSE acked
        BY <2>3, <3>2 DEF C6!SourceFinishes
      <4>3. C6!BleFrameDone(job.frame, job.ble, ok) \in C6!Lifecycle
        BY <4>1 DEF C6!BleFrameDone, C6!Lifecycle, Frame
      <4> HIDE DEF C6!BleFrameDone
      <4>4. QED
        BY <2>3, <4>1, <4>2, <4>3 DEF C6!SourceFinishes, C6!FinishJob, C6!queues,
          QueueData
    <3>3. CASE job.kind = "time"
      <4>1. job.id \in Query
        BY <3>1, <3>3 DEF C6!Job, Query
      <4>2. PICK s \in {"OK", "UNAVAILABLE", "FAILED"} :
              C6!FinishJob(C6!BleTimeDone([id |-> job.id, status |-> s]))
        BY <2>3, <3>3 DEF C6!SourceFinishes
      <4>3. C6!BleTimeDone([id |-> job.id, status |-> s]) \in C6!Lifecycle
        BY <4>1 DEF C6!BleTimeDone, C6!Lifecycle, C6!Sample, Query
      <4> HIDE DEF C6!BleTimeDone
      <4>4. QED
        BY <2>3, <3>3, <4>2, <4>3 DEF C6!SourceFinishes, C6!FinishJob, C6!queues,
          QueueData
    <3>4. QED
      BY <2>3, <3>2, <3>3 DEF C6!SourceFinishes
  <2>4. QED
    BY <2>1, <2>2, <2>3 DEF SourceRuns
<1>3. QED
  BY <1>1, <1>2, ReceiverKept, RxKept, WorkKept

LEMMA C6DataNext == C6Data /\ OneToken /\ C6Step => C6Data'
<1> SUFFICES ASSUME C6Data, OneToken, C6Step PROVE C6Data'
  OBVIOUS
<1> USE DEF C6Data
<1>1. CASE C6!WorkStep
  BY <1>1, TakeLifecycleType, SubmitType, WorkTalksType, WorkTakesType
  DEF C6!WorkStep
<1>2. CASE C6!Tick
  <2>1. ReceiverData'
    BY <1>2 DEF C6!Tick, ReceiverData
  <2>2. QED
    BY <1>2, <2>1, QueueKept, WorkKept, RxKept DEF C6!Tick, C6!queues, C6!source
<1>3. CASE C6Reset
  <2>1. ReceiverData'
    BY <1>3, LinkAssumption DEF C6Reset, ReceiverData, AnyBle
  <2>2. QueueData'
    BY <1>3, LinkAssumption DEF C6Reset, QueueData, Terminal
  <2>3. RxData' /\ WorkData'
    BY <1>3 DEF C6Reset, C6!At, RxData, WorkData
  <2>4. QED
    BY <2>1, <2>2, <2>3
<1>4. CASE AnswerLeaves
  <2>1. toP4' \in Seq(C6!Control \cup C6!Sample)
    BY <1>4 DEF AnswerLeaves, QueueData
  <2>2. QED
    BY <1>4, <2>1, ReceiverKept, RxKept, WorkKept
    DEF AnswerLeaves, c6Vars, C6!receiver, QueueData
<1>5. CASE UNCHANGED <<c6Vars, toP4>>
  BY <1>5, ReceiverKept, QueueKept, RxKept, WorkKept DEF c6Vars, C6!receiver
<1>6. QED
  BY <1>1, <1>2, <1>3, <1>4, <1>5, RxGetsType, RxStepType, SourceType
  DEF C6Step, RxRuns
-----------------------------------------------------------------------------
(* One frame at one place *)

InSource == state \in {"PENDING_BLE", "BLE_ACTIVE"}

NoToken ==
  /\ rx.pc # "complete" /\ ~Posted /\ work.pc \notin {"submit", "submitted"}
  /\ ~ImageJob /\ ~IsDone(finished) /\ ~IsDone(lifecycle)

Verifying == rx.pc = "verify" <=> state = "VERIFYING"
KindsApart == finished # None => finished.kind # "FRAME_COMPLETE"

LEMMA TokensInSource == OneToken /\ ~InSource => NoToken
BY DEF OneToken, InSource, NoToken, Taken

LEMMA NoTokenIsOne == NoToken /\ Verifying /\ KindsApart => OneToken
BY DEF OneToken, NoToken, Verifying, KindsApart

\* No step but these moves a frame on.
WorkAside(w) == w.pc \notin {"submit", "submitted"}
RxAside(r) == r.pc \notin {"verify", "complete"}

LEMMA TokenKept ==
  ASSUME OneToken, UNCHANGED <<state, first, ble, lifecycle, job, finished>>,
         UNCHANGED rx \/ (RxAside(rx) /\ RxAside(rx')),
         UNCHANGED work \/ (WorkAside(work) /\ WorkAside(work'))
  PROVE  OneToken'
<1>1. UNCHANGED <<ImageJob, IsDone(finished), IsDone(lifecycle), Posted, C6!ActiveFrame>>
  BY DEF ImageJob, IsDone, Posted, C6!ActiveFrame
<1>2. \A f, b : Taken(f, b) => Taken(f, b)'
  BY <1>1 DEF Taken, WorkAside
<1>3. QED
  BY <1>1, <1>2 DEF OneToken, RxAside, WorkAside

\* The assembly is dropped or goes on, before or after which no frame is with
\* the source.
LEMMA TokenAssembly ==
  ASSUME OneToken, ~InSource,
         UNCHANGED <<lifecycle, job, finished>>,
         rx'.pc # "complete", Verifying',
         WorkAside(work')
  PROVE  OneToken'
<1>1. NoToken'
  BY TokensInSource DEF NoToken, Posted, ImageJob, IsDone, WorkAside
<1>2. KindsApart'
  BY DEF OneToken, KindsApart
<1>3. QED
  BY <1>1, <1>2, NoTokenIsOne, PTL

LEMMA ResetFacts ==
  ASSUME C6!ResetReceiver
  PROVE  state' = "IDLE" /\ first' = None
BY DEF C6!ResetReceiver

LEMMA ReplyFacts ==
  ASSUME NEW c, C6!Reply(c)
  PROVE  rx'.pc = "reply" /\ RxAside(rx')
BY DEF C6!Reply, RxAside

LEMMA RxGetsToken ==
  ASSUME C6Data, OneToken, RxGets
  PROVE  OneToken'
<1>1. RxAside(rx) /\ rx.pc = "idle"
  BY DEF RxGets, C6!BadChunk, C6!QueryArrives, C6!ChunkArrives,
    C6!TimeQueryArrives, C6!RxIdle, RxAside
<1>2. ASSUME NEW f, C6!BadChunk(f)
      PROVE  OneToken'
  <2>1. RxAside(rx') /\ UNCHANGED <<lifecycle, job, finished, work>>
    BY <1>2, ReplyFacts DEF C6!BadChunk, C6!queues, C6!source
  <2>2. CASE state = "ASSEMBLING" /\ C6!ResetReceiver
    <3>1. ~InSource /\ WorkAside(work)
      BY <2>2, TokensInSource DEF InSource, NoToken, WorkAside
    <3>2. QED
      BY <2>1, <2>2, <3>1, ResetFacts, TokenAssembly DEF Verifying, RxAside
  <2>3. CASE UNCHANGED C6!receiver
    BY <1>1, <2>1, <2>3, TokenKept DEF C6!receiver
  <2>4. QED
    BY <1>1, <1>2, <2>2, <2>3 DEF C6!BadChunk, OneToken
<1>3. ASSUME NEW f, C6!QueryArrives(f)
      PROVE  OneToken'
  BY <1>3, TokenKept DEF C6!QueryArrives, C6!receiver, C6!source
<1>4. ASSUME NEW c, C6!ChunkArrives(c)
      PROVE  OneToken'
  <2>1. RxAside(rx')
    BY <1>4 DEF C6!ChunkArrives, RxAside
  <2>2. QED
    BY <1>1, <1>4, <2>1, TokenKept DEF C6!ChunkArrives, C6!receiver, C6!source,
      C6!queues
<1>5. ASSUME NEW id, C6!TimeQueryArrives(id)
      PROVE  OneToken'
  <2>1. CASE state = "IDLE" /\ job' = [kind |-> "time", id |-> id]
    <3>1. NoToken'
      BY <1>5, <2>1, TokensInSource DEF C6!TimeQueryArrives, InSource, NoToken,
        Posted, ImageJob, IsDone
    <3>2. Verifying' /\ KindsApart'
      BY <1>5 DEF C6!TimeQueryArrives, C6!receiver, OneToken, Verifying, KindsApart
    <3>3. QED
      BY <3>1, <3>2, NoTokenIsOne, PTL
  <2>2. CASE UNCHANGED job
    BY <1>5, <2>2, TokenKept DEF C6!TimeQueryArrives, C6!receiver
  <2>3. QED
    BY <1>5, <2>1, <2>2 DEF C6!TimeQueryArrives
<1>6. QED
  BY <1>2, <1>3, <1>4, <1>5 DEF RxGets

LEMMA TakeChunkToken ==
  ASSUME C6Data, OneToken, C6!TakeChunk
  PROVE  OneToken'
<1> DEFINE c == rx.chunk
<1>1. /\ RxAside(rx) /\ UNCHANGED <<lifecycle, job, finished, work>>
      /\ state # "VERIFYING"
  BY DEF C6!TakeChunk, C6!queues, C6!source, RxAside, OneToken
<1>2. ~InSource => WorkAside(work)
  BY TokensInSource DEF NoToken, WorkAside
<1> HIDE DEF c
<1>3. ASSUME RxAside(rx'), UNCHANGED C6!receiver
      PROVE  OneToken'
  BY <1>1, <1>3, TokenKept DEF C6!receiver
<1>4. ASSUME RxAside(rx'), state = "ASSEMBLING", C6!ResetReceiver
      PROVE  OneToken'
  BY <1>1, <1>2, <1>4, ResetFacts, TokenAssembly DEF InSource, RxAside, Verifying
<1>5. ASSUME C6!Stored(c), state \in {"IDLE", "ASSEMBLING"}
      PROVE  OneToken'
  <2>1. \/ state' = "VERIFYING" /\ rx' = [pc |-> "verify"]
        \/ state' = "ASSEMBLING" /\ rx' = [pc |-> "idle"]
    BY <1>5 DEF C6!Stored, C6!At
  <2>2. Verifying' /\ rx'.pc # "complete"
    BY <2>1 DEF Verifying
  <2>3. QED
    BY <1>1, <1>2, <1>5, <2>2, TokenAssembly DEF InSource
<1>6. CASE C6!FirstRefused(c)
  BY <1>3, <1>4, <1>6, ReplyFacts DEF C6!FirstRefused, C6!Repeated
<1>7. CASE C6!FirstStored(c)
  BY <1>5, <1>7 DEF C6!FirstStored, C6!BufferTaken
<1>8. CASE C6!LaterRefused(c)
  BY <1>3, <1>4, <1>8, ReplyFacts DEF C6!LaterRefused
<1>9. CASE C6!LaterStored(c)
  BY <1>5, <1>9 DEF C6!LaterStored
<1>10. QED
  BY <1>6, <1>7, <1>8, <1>9 DEF C6!TakeChunk, c

LEMMA RxStepToken ==
  ASSUME C6Data, OneToken, C6!RxStep
  PROVE  OneToken'
<1>1. CASE C6!Verify
  <2>1. state = "VERIFYING" /\ ~InSource /\ UNCHANGED <<lifecycle, job, finished, work>>
    BY <1>1 DEF C6!Verify, OneToken, InSource, C6!queues, C6!source
  <2>2. NoToken
    BY <2>1, TokensInSource
  <2>3. CASE state' = "PENDING_BLE" /\ rx' = C6!At("complete")
    BY <2>1, <2>2, <2>3 DEF C6!At, OneToken, NoToken, Posted, ImageJob, IsDone
  <2>4. CASE C6!ResetReceiver /\ C6!Reply(C6!Msg("FAILED", C6!ActiveFrame, 0, 0))
    BY <2>1, <2>2, <2>4, ReplyFacts, ResetFacts, TokenAssembly
    DEF NoToken, WorkAside, Verifying, RxAside
  <2>5. QED
    BY <1>1, <2>3, <2>4 DEF C6!Verify
<1>2. CASE C6!Complete
  <2>1. /\ rx.pc = "complete" /\ rx' = [pc |-> "idle"]
        /\ lifecycle' = [kind |-> "FRAME_COMPLETE", frame |-> C6!ActiveFrame]
        /\ UNCHANGED <<state, first, ble, work, job, finished>>
    BY <1>2 DEF C6!Complete, C6!At, C6!FrameComplete, C6!receiver, C6!source
  <2>2. ~ImageJob /\ ~IsDone(finished) /\ ~IsDone(lifecycle) /\ state = "PENDING_BLE"
    BY <2>1 DEF OneToken, Taken
  <2>3. ~ImageJob' /\ ~IsDone(finished)' /\ ~IsDone(lifecycle')
    BY <2>1, <2>2 DEF ImageJob, IsDone
  <2>4. C6!ActiveFrame' = C6!ActiveFrame
    BY <2>1 DEF C6!ActiveFrame
  <2>5. QED
    BY <2>1, <2>2, <2>3, <2>4 DEF OneToken, Posted
<1>3. CASE C6!EnqueueReply
  <2>1. RxAside(rx) /\ RxAside(rx')
    BY <1>3 DEF C6!EnqueueReply, C6!At, RxAside
  <2>2. QED
    BY <1>3, <2>1, TokenKept DEF C6!EnqueueReply, C6!receiver, C6!source
<1>4. QED
  BY <1>1, <1>2, <1>3, TakeChunkToken DEF C6!RxStep

LEMMA TakeLifecycleToken ==
  ASSUME C6Data, OneToken, C6!TakeLifecycle
  PROVE  OneToken'
<1>1. /\ work.pc = "idle" /\ lifecycle # None /\ lifecycle' = None
      /\ UNCHANGED <<rx, job, finished>>
  BY DEF C6!TakeLifecycle, C6!WorkIdle, C6!source
<1>2. ~Posted' /\ ~IsDone(lifecycle') /\ ImageJob' = ImageJob
      /\ IsDone(finished') = IsDone(finished)
  BY <1>1 DEF Posted, IsDone, ImageJob
<1>3. CASE lifecycle.kind = "FRAME_COMPLETE" /\ C6!BeginSubmit(lifecycle)
  <2>1. Posted /\ state = "PENDING_BLE" /\ C6!ActiveFrame = lifecycle.frame
    BY <1>1, <1>3 DEF Posted, OneToken
  <2>2. /\ work' = [pc |-> "submit", frame |-> lifecycle.frame]
        /\ UNCHANGED <<state, first, ble>>
    BY <1>3, <2>1 DEF C6!BeginSubmit, C6!receiver
  <2>3. ~ImageJob /\ ~IsDone(finished) /\ rx.pc # "complete"
    BY <1>1, <2>1 DEF OneToken, Taken
  <2>4. C6!ActiveFrame' = C6!ActiveFrame
    BY <2>2 DEF C6!ActiveFrame
  <2>5. QED
    BY <1>1, <1>2, <2>1, <2>2, <2>3, <2>4 DEF OneToken
<1>4. CASE lifecycle.kind = "BLE_FRAME_DONE" /\ C6!FrameDone(lifecycle)
  <2>1. /\ IsDone(lifecycle) /\ Taken(lifecycle.frame, lifecycle.ble)
        /\ ~ImageJob /\ ~IsDone(finished)
    BY <1>1, <1>4 DEF IsDone, OneToken
  <2>2. state = "BLE_ACTIVE" /\ C6!Matches(lifecycle)
    BY <1>1, <2>1 DEF Taken, C6!Matches
  <2>3. C6!ResetReceiver /\ work'.pc = "send"
    BY <1>4, <2>2 DEF C6!FrameDone, C6!GoSend
  <2>4. NoToken'
    BY <1>1, <1>2, <2>1, <2>2, <2>3 DEF NoToken, OneToken
  <2>5. Verifying' /\ KindsApart'
    BY <1>1, <2>2, <2>3, ResetFacts DEF Verifying, KindsApart, OneToken
  <2>6. QED
    BY <2>4, <2>5, NoTokenIsOne, PTL
<1>5. CASE lifecycle.kind = "BLE_TIME_DONE" /\ C6!TimeDone(lifecycle)
  <2>1. work'.pc = "push" /\ UNCHANGED <<state, first, ble>>
    BY <1>5 DEF C6!TimeDone, C6!At, C6!receiver
  <2>2. ~Posted /\ ~IsDone(lifecycle)
    BY <1>5 DEF Posted, IsDone
  <2>3. \A f, b : Taken(f, b) => Taken(f, b)'
    BY <1>1, <2>1 DEF Taken, C6!ActiveFrame
  <2>4. QED
    BY <1>1, <1>2, <2>1, <2>2, <2>3 DEF OneToken
<1>6. lifecycle.kind \in {"FRAME_COMPLETE", "BLE_FRAME_DONE", "BLE_TIME_DONE"}
  BY <1>1 DEF C6Data, QueueData, C6!Lifecycle
<1>7. QED
  BY <1>3, <1>4, <1>5, <1>6 DEF C6!TakeLifecycle
LEMMA SubmitToken ==
  ASSUME C6Data, OneToken, C6!Submit \/ C6!Submitted
  PROVE  OneToken'
<1>1. /\ work.pc \in {"submit", "submitted"} /\ state = "PENDING_BLE"
      /\ C6!ActiveFrame = work.frame /\ ~Posted /\ rx.pc # "complete"
      /\ UNCHANGED <<rx, lifecycle, finished>>
  BY DEF C6!Submit, C6!Submitted, C6!queues, C6!source, OneToken
<1>2. ~Posted' /\ IsDone(lifecycle') = IsDone(lifecycle)
      /\ IsDone(finished') = IsDone(finished)
  BY <1>1 DEF Posted, IsDone
<1>3. CASE C6!Submit
  <2>1. ~ImageJob /\ ~IsDone(finished) /\ ~IsDone(lifecycle)
    BY <1>1, <1>3 DEF C6!Submit, OneToken, Taken
  <2>2. UNCHANGED <<state, first, ble>> /\ C6!ActiveFrame' = C6!ActiveFrame
    BY <1>3 DEF C6!Submit, C6!receiver, C6!ActiveFrame
  <2>3. PICK b \in BleFrame :
          IF ready /\ ~outstanding
          THEN /\ job' = [kind |-> "image", frame |-> work.frame, ble |-> b,
                          image |-> first.image]
               /\ work' = [pc |-> "submitted", frame |-> work.frame, ble |-> b,
                           ok |-> TRUE]
          ELSE /\ work' = [pc |-> "submitted", frame |-> work.frame, ble |-> 0,
                           ok |-> FALSE]
               /\ UNCHANGED job
    BY <1>3 DEF C6!Submit
  <2>4. CASE ready /\ ~outstanding
    <3>1. /\ work'.pc = "submitted" /\ work'.frame = work.frame
          /\ work'.ok /\ work'.ble = b
          /\ job'.frame = work.frame /\ job'.ble = b /\ job'.image = first.image
      BY <2>3, <2>4
    <3>2. Taken(job.frame, job.ble)'
      BY <1>1, <2>2, <3>1 DEF Taken
    <3>3. QED
      BY <1>1, <1>2, <2>1, <2>2, <3>1, <3>2 DEF OneToken
  <2>5. CASE ~(ready /\ ~outstanding)
    <3>1. ~ImageJob' /\ work'.pc = "submitted" /\ work'.frame = work.frame
      BY <2>1, <2>3, <2>5 DEF ImageJob
    <3>2. QED
      BY <1>1, <1>2, <2>1, <2>2, <3>1 DEF OneToken
  <2>6. QED
    BY <2>4, <2>5
<1>4. CASE C6!Submitted
  <2>1. /\ UNCHANGED job /\ work'.pc = "send" /\ ImageJob' = ImageJob
        /\ work.pc = "submitted"
    BY <1>4 DEF C6!Submitted, C6!source, C6!GoSend, ImageJob
  <2>2. CASE work.ok
    <3>1. state' = "BLE_ACTIVE" /\ ble' = work.ble /\ first' = first
      BY <1>1, <1>4, <2>2 DEF C6!Submitted
    <3>2. \A f, b : Taken(f, b) => Taken(f, b)'
      BY <1>1, <3>1 DEF Taken, C6!ActiveFrame
    <3>3. QED
      BY <1>1, <1>2, <2>1, <3>1, <3>2 DEF OneToken
  <2>3. CASE ~work.ok
    <3>1. ~ImageJob /\ ~IsDone(finished) /\ ~IsDone(lifecycle)
      BY <1>1, <2>3 DEF OneToken, Taken
    <3>2. C6!ResetReceiver
      BY <1>1, <1>4, <2>3 DEF C6!Submitted
    <3>3. NoToken'
      BY <1>1, <1>2, <2>1, <3>1 DEF NoToken
    <3>4. Verifying' /\ KindsApart'
      BY <1>1, <3>2, ResetFacts DEF Verifying, KindsApart, OneToken
    <3>5. QED
      BY <3>3, <3>4, NoTokenIsOne, PTL
  <2>4. QED
    BY <2>2, <2>3
<1>5. QED
  BY <1>3, <1>4

LEMMA WorkToken ==
  ASSUME C6Data, OneToken,
         \/ C6!SendControl \/ C6!PushReady \/ C6!TakeReadyEdge \/ C6!TakeEvent
         \/ C6!Answer \/ C6!CheckTimeout
  PROVE  OneToken'
<1>1. UNCHANGED <<lifecycle, job, finished, rx>> /\ WorkAside(work)
  BY DEF C6!SendControl, C6!PushReady, C6!TakeReadyEdge, C6!TakeEvent, C6!Answer,
    C6!CheckTimeout, C6!queues, C6!source, C6!WorkIdle, WorkAside
<1>2. CASE C6!CheckTimeout
  <2>1. state = "ASSEMBLING" /\ C6!ResetReceiver /\ WorkAside(work')
    BY <1>2 DEF C6!CheckTimeout, C6!Abandoned, C6!GoSend, WorkAside
  <2>2. ~InSource
    BY <2>1 DEF InSource
  <2>3. QED
    BY <1>1, <2>1, <2>2, ResetFacts, TokensInSource, TokenAssembly
    DEF NoToken, Verifying, OneToken
<1>3. CASE \/ C6!SendControl \/ C6!PushReady \/ C6!TakeReadyEdge \/ C6!TakeEvent
           \/ C6!Answer
  <2>1. UNCHANGED C6!receiver /\ WorkAside(work')
    BY <1>3 DEF C6!SendControl, C6!PushReady, C6!TakeReadyEdge, C6!TakeEvent,
      C6!Answer, C6!Snapshot, C6!GoSend, C6!At, WorkAside
  <2>2. QED
    BY <1>1, <2>1, TokenKept DEF C6!receiver
<1>4. QED
  BY <1>2, <1>3

LEMMA SourceToken ==
  ASSUME C6Data, OneToken, SourceRuns
  PROVE  OneToken'
<1>1. /\ UNCHANGED <<rx, work, state, first, ble>>
      /\ \A f, b : Taken(f, b)' = Taken(f, b)
  BY DEF SourceRuns, C6!SourceFinishes, C6!SourceReports, C6!ReadyChanges,
    C6!receiver, Taken, C6!ActiveFrame
<1>2. CASE C6!ReadyChanges
  BY <1>2, TokenKept DEF C6!ReadyChanges, C6!receiver
<1>3. CASE C6!SourceReports
  <2>1. /\ lifecycle' = finished /\ finished' = None /\ UNCHANGED job
        /\ finished # None /\ finished.kind # "FRAME_COMPLETE"
    BY <1>3 DEF C6!SourceReports, OneToken
  <2>2. /\ ~Posted' /\ ~IsDone(finished') /\ ImageJob' = ImageJob
        /\ IsDone(lifecycle') = IsDone(finished)
    BY <2>1 DEF Posted, IsDone, ImageJob
  <2>3. rx.pc = "complete" => ~IsDone(finished)
    BY DEF OneToken, Taken
  <2>4. IsDone(lifecycle') => Taken(lifecycle.frame, lifecycle.ble)' /\ ~ImageJob'
    <3>1. IsDone(finished) => Taken(finished.frame, finished.ble) /\ ~ImageJob
      BY DEF OneToken
    <3>2. QED
      BY <1>1, <2>1, <2>2, <3>1 DEF Taken, C6!ActiveFrame
  <2>5. ImageJob' => Taken(job.frame, job.ble)' /\ job'.image = first'.image
    <3>1. ImageJob => Taken(job.frame, job.ble) /\ job.image = first.image
      BY DEF OneToken
    <3>2. QED
      BY <1>1, <2>1, <2>2, <3>1 DEF Taken, C6!ActiveFrame
  <2>6. C6!ActiveFrame' = C6!ActiveFrame
    BY <1>1 DEF C6!ActiveFrame
  <2>7. QED
    BY <1>1, <2>1, <2>2, <2>4, <2>5, <2>6 DEF OneToken
<1>4. CASE C6!SourceFinishes
  <2>1. /\ job # None /\ finished = None /\ job' = None /\ UNCHANGED lifecycle
        /\ ~ImageJob' /\ Posted' = Posted /\ IsDone(lifecycle') = IsDone(lifecycle)
    BY <1>4 DEF C6!SourceFinishes, C6!FinishJob, C6!queues, ImageJob, Posted, IsDone
  <2>2. CASE job.kind = "image"
    <3>1. PICK ok \in BOOLEAN :
            finished' = C6!BleFrameDone(job.frame, job.ble, ok)
      BY <1>4, <2>2 DEF C6!SourceFinishes, C6!FinishJob
    <3>2. /\ finished'.kind = "BLE_FRAME_DONE" /\ finished'.frame = job.frame
          /\ finished'.ble = job.ble
      BY <3>1 DEF C6!BleFrameDone
    <3>3. Taken(job.frame, job.ble) /\ ~IsDone(lifecycle)
      BY <2>1, <2>2 DEF OneToken, ImageJob
    <3>4. Taken(finished.frame, finished.ble)'
      BY <1>1, <3>2, <3>3 DEF Taken, C6!ActiveFrame
    <3>5. QED
      BY <1>1, <2>1, <3>2, <3>3, <3>4 DEF OneToken, C6!ActiveFrame, Posted
  <2>3. CASE job.kind = "time"
    <3>1. PICK sample : finished' = C6!BleTimeDone(sample)
      BY <1>4, <2>3 DEF C6!SourceFinishes, C6!FinishJob
    <3>2. finished'.kind = "BLE_TIME_DONE" /\ ~IsDone(finished')
      BY <3>1 DEF C6!BleTimeDone, IsDone
    <3>3. QED
      BY <1>1, <2>1, <3>2 DEF OneToken, C6!ActiveFrame, Posted
  <2>4. QED
    BY <1>4, <2>2, <2>3 DEF C6!SourceFinishes
<1>5. QED
  BY <1>2, <1>3, <1>4 DEF SourceRuns

LEMMA TokenNext == C6Data /\ OneToken /\ C6Step => OneToken'
<1> SUFFICES ASSUME C6Data, OneToken, C6Step PROVE OneToken'
  OBVIOUS
<1>1. CASE C6!WorkStep
  BY <1>1, TakeLifecycleToken, SubmitToken, WorkToken DEF C6!WorkStep
<1>2. CASE C6!Tick
  BY <1>2, TokenKept DEF C6!Tick, C6!queues, C6!source
<1>3. CASE C6Reset
  <2>1. NoToken' /\ Verifying' /\ KindsApart'
    BY <1>3 DEF C6Reset, C6!At, NoToken, Posted, ImageJob, IsDone, Verifying,
      KindsApart
  <2>2. QED
    BY <2>1, NoTokenIsOne, PTL
<1>4. CASE AnswerLeaves \/ UNCHANGED <<c6Vars, toP4>>
  BY <1>4, TokenKept DEF AnswerLeaves, c6Vars
<1>5. QED
  BY <1>1, <1>2, <1>3, <1>4, RxGetsToken, RxStepToken, SourceToken
  DEF C6Step, RxRuns

LEMMA C6Init == Init => C6Data /\ OneToken /\ BufferHolds /\ TimeApart
<1> SUFFICES ASSUME Init PROVE C6Data /\ OneToken /\ BufferHolds /\ TimeApart
  OBVIOUS
<1> USE LinkAssumption DEF Init, C6!Init, C6!At
<1>1. ReceiverData
  BY DEF ReceiverData, AnyBle
<1>2. QueueData
  BY DEF QueueData, Terminal
<1>3. RxData /\ WorkData
  BY DEF RxData, WorkData
<1>4. NoToken /\ Verifying /\ KindsApart
  BY DEF NoToken, Posted, ImageJob, IsDone, Verifying, KindsApart
<1>5. BufferHolds /\ TimeApart
  BY DEF BufferHolds, TimeApart
<1>6. QED
  BY <1>1, <1>2, <1>3, <1>4, <1>5, NoTokenIsOne DEF C6Data

-----------------------------------------------------------------------------
(* The buffer that the source sends from *)

\* The buffer and its frame change only while no frame is with the source.
LEMMA BufferKept ==
  ASSUME BufferHolds, UNCHANGED <<first, buffer>>, InSource' => InSource
  PROVE  BufferHolds'
BY DEF BufferHolds, InSource

LEMMA BufferFree ==
  ASSUME ~InSource'
  PROVE  BufferHolds'
BY DEF BufferHolds, InSource

LEMMA BufferNext ==
  C6Data /\ OneToken /\ BufferHolds /\ C6Step => BufferHolds'
<1> SUFFICES ASSUME C6Data, OneToken, BufferHolds, C6Step PROVE BufferHolds'
  OBVIOUS
<1>1. C6!ResetReceiver => BufferHolds'
  BY BufferFree, ResetFacts DEF InSource
<1>2. UNCHANGED <<C6!receiver, buffer>> => BufferHolds'
  BY BufferKept DEF C6!receiver, InSource
<1>3. CASE RxGets
  BY <1>1, <1>2, <1>3 DEF RxGets, C6!BadChunk, C6!QueryArrives, C6!ChunkArrives,
    C6!TimeQueryArrives
<1>4. CASE C6!RxStep
  <2>1. CASE C6!TakeChunk
    <3>1. ASSUME NEW c, C6!Stored(c) PROVE BufferHolds'
      BY <3>1, BufferFree DEF C6!Stored, InSource
    <3>2. QED
      BY <1>1, <1>2, <2>1, <3>1 DEF C6!TakeChunk, C6!FirstRefused,
        C6!FirstStored, C6!LaterRefused, C6!LaterStored
  <2>2. CASE C6!Verify
    <3>1. CASE C6!ImageVerified /\ UNCHANGED <<first, buffer>>
      BY <3>1 DEF C6!ImageVerified, BufferHolds, C6!Index
    <3>2. QED
      BY <1>1, <2>2, <3>1 DEF C6!Verify
  <2>3. QED
    BY <1>2, <1>4, <2>1, <2>2 DEF C6!RxStep, C6!Complete, C6!EnqueueReply
<1>5. CASE C6!WorkStep
  <2>1. CASE C6!TakeLifecycle
    <3>1. lifecycle \in C6!Lifecycle
      BY <2>1 DEF C6!TakeLifecycle, C6Data, QueueData
    <3>2. lifecycle.kind \in {"FRAME_COMPLETE", "BLE_FRAME_DONE", "BLE_TIME_DONE"}
      BY <3>1 DEF C6!Lifecycle
    <3>3. C6!ResetReceiver \/ UNCHANGED C6!receiver
      BY <2>1, <3>2 DEF C6!TakeLifecycle, C6!BeginSubmit, C6!FrameDone, C6!TimeDone
    <3>4. QED
      BY <1>1, <1>2, <2>1, <3>3 DEF C6!TakeLifecycle
  <2>2. CASE C6!Submitted
    <3>1. InSource /\ UNCHANGED buffer
      BY <2>2 DEF C6!Submitted, OneToken, InSource
    <3>2. C6!ResetReceiver \/ UNCHANGED first
      BY <2>2 DEF C6!Submitted, C6!receiver
    <3>3. QED
      BY <1>1, <3>1, <3>2, BufferKept
  <2>3. QED
    BY <1>1, <1>2, <1>5, <2>1, <2>2 DEF C6!WorkStep, C6!Submit, C6!SendControl,
      C6!PushReady, C6!TakeReadyEdge, C6!TakeEvent, C6!Answer, C6!CheckTimeout
<1>6. CASE SourceRuns
  BY <1>2, <1>6 DEF SourceRuns, C6!SourceFinishes, C6!SourceReports, C6!ReadyChanges
<1>7. CASE C6!Tick \/ AnswerLeaves \/ UNCHANGED <<c6Vars, toP4>>
  BY <1>7, BufferKept DEF C6!Tick, AnswerLeaves, c6Vars, InSource
<1>8. CASE C6Reset
  BY <1>8, BufferFree DEF C6Reset, InSource
<1>9. QED
  BY <1>3, <1>4, <1>5, <1>6, <1>7, <1>8 DEF C6Step, RxRuns

C6Inv == P4Data /\ C6Data /\ OneToken /\ BufferHolds

LEMMA C6Invariant == Spec => []C6Inv
<1>1. Init => C6Inv
  BY P4Init, C6Init DEF C6Inv
<1>2. C6Inv /\ [Next]_vars => C6Inv'
  BY NextIsC6Step, P4Next, C6DataNext, TokenNext, BufferNext DEF C6Inv
<1>3. QED
  BY <1>1, <1>2, PTL DEF Spec

\* The source sends an image straight from the receive buffer: the buffer
\* holds that very image from its verification until the source has reported
\* it, whatever arrives, times out or restarts meanwhile (s_jpeg_buffer,
\* frame_chunk_callback, submit_completed_frame).
THEOREM BufferIsIntact == Spec => []BufferIntact
<1>1. C6Inv => BufferIntact
  <2> SUFFICES ASSUME C6Inv PROVE C6!BufferIntact
    BY DEF BufferIntact
  <2>1. ASSUME job # None, job.kind = "image"
        PROVE  /\ C6!ActiveFrame = job.frame
               /\ \A i \in C6!Index : buffer[i] = job.image
    BY <2>1 DEF C6Inv, OneToken, BufferHolds, ImageJob, Taken
  <2>2. QED
    BY <2>1 DEF C6Inv, BufferHolds, C6!BufferIntact
<1>2. QED
  BY <1>1, C6Invariant, PTL

-----------------------------------------------------------------------------
(* The receiver's type *)

LEMMA FlagsInit == Init => C6Flags
BY DEF Init, C6!Init, C6Flags

LEMMA FlagsNext == C6Flags /\ C6Data /\ C6Step => C6Flags'
<1> SUFFICES ASSUME C6Flags, C6Data, C6Step PROVE C6Flags'
  OBVIOUS
<1> USE DEF C6Flags
<1>1. CASE RxGets
  BY <1>1 DEF RxGets, C6!BadChunk, C6!QueryArrives, C6!ChunkArrives,
    C6!TimeQueryArrives, C6!ResetReceiver, C6!receiver, C6!queues, C6!source
<1>2. CASE C6!RxStep
  <2>1. CASE C6!TakeChunk
    <3>1. silent' = FALSE \/ UNCHANGED silent
      BY <2>1 DEF C6!TakeChunk, C6!FirstRefused, C6!FirstStored, C6!LaterRefused,
        C6!LaterStored, C6!Stored, C6!ResetReceiver, C6!receiver
    <3>2. QED
      BY <2>1, <3>1 DEF C6!TakeChunk, C6!queues, C6!source
  <2>2. QED
    BY <1>2, <2>1 DEF C6!RxStep, C6!Verify, C6!Complete, C6!EnqueueReply,
      C6!ResetReceiver, C6!receiver, C6!queues, C6!source
<1>3. CASE C6!WorkStep
  <2>1. CASE C6!TakeLifecycle
    <3>1. lifecycle \in C6!Lifecycle
      BY <2>1 DEF C6!TakeLifecycle, C6Data, QueueData
    <3>2. lifecycle.kind \in {"FRAME_COMPLETE", "BLE_FRAME_DONE", "BLE_TIME_DONE"}
      BY <3>1 DEF C6!Lifecycle
    <3>3. silent' = FALSE \/ UNCHANGED silent
      BY <2>1, <3>2 DEF C6!TakeLifecycle, C6!BeginSubmit, C6!FrameDone,
        C6!TimeDone, C6!ResetReceiver, C6!receiver
    <3>4. QED
      BY <2>1, <3>3 DEF C6!TakeLifecycle, C6!source
  <2>2. CASE C6!Submit \/ C6!Submitted
    BY <2>2 DEF C6!Submit, C6!Submitted, C6!ResetReceiver, C6!receiver,
      C6!queues, C6!source
  <2>3. QED
    BY <1>3, <2>1, <2>2 DEF C6!WorkStep, C6!SendControl, C6!PushReady,
      C6!TakeReadyEdge, C6!TakeEvent, C6!Answer, C6!CheckTimeout,
      C6!ResetReceiver, C6!receiver, C6!queues, C6!source
<1>4. CASE SourceRuns
  BY <1>4 DEF SourceRuns, C6!SourceFinishes, C6!SourceReports, C6!ReadyChanges,
    C6!FinishJob, C6!receiver, C6!queues, C6!source
<1>5. CASE C6!Tick \/ C6Reset \/ AnswerLeaves \/ UNCHANGED <<c6Vars, toP4>>
  BY <1>5 DEF C6!Tick, C6Reset, AnswerLeaves, c6Vars, C6!queues, C6!source
<1>6. QED
  BY <1>1, <1>2, <1>3, <1>4, <1>5 DEF C6Step, RxRuns

\* The receiver's own state is of its type under the P4's messages: no queue
\* holds more than it can, and the header of an assembly is there exactly
\* while the receiver is not idle (s_receiver, reset_receiver_locked).
THEOREM TypeCorrect == Spec => []TypeOK
<1>1. C6Inv /\ C6Flags => TypeOK
  BY DEF TypeOK, C6!TypeOK, C6Inv, C6Flags, C6Data, ReceiverData, QueueData,
    Terminal, Final, AnyBle, P4Job, Frame
<1>2. Init => C6Flags
  BY FlagsInit
<1>3. C6Inv /\ C6Flags /\ [Next]_vars => C6Flags'
  BY NextIsC6Step, FlagsNext DEF C6Inv
<1>4. QED
  BY <1>1, <1>2, <1>3, C6Invariant, PTL DEF Spec

-----------------------------------------------------------------------------
(* The mailbox *)

NoTime ==
  /\ job # None => job.kind # "time"
  /\ finished # None => finished.kind # "BLE_TIME_DONE"

LEMMA TimeNext == C6Data /\ OneToken /\ TimeApart /\ C6Step => TimeApart'
<1> SUFFICES ASSUME C6Data, OneToken, TimeApart, C6Step, "race" \notin Trouble
             PROVE  /\ job' # None => outstanding'
                    /\ rx'.pc = "chunk" /\ job' # None /\ job'.kind = "time" => rx'.busy
                    /\ state' # "IDLE" => NoTime'
  BY DEF TimeApart, NoTime
<1>1. /\ job # None => outstanding
      /\ rx.pc = "chunk" /\ job # None /\ job.kind = "time" => rx.busy
      /\ state # "IDLE" => NoTime
  BY DEF TimeApart, NoTime
<1> DEFINE Goal ==
      /\ job' # None => outstanding'
      /\ rx'.pc = "chunk" /\ job' # None /\ job'.kind = "time" => rx'.busy
      /\ state' # "IDLE" => NoTime'
<1>2. ASSUME UNCHANGED <<job, finished, outstanding>>,
             UNCHANGED rx \/ rx'.pc # "chunk",
             state' # "IDLE" => NoTime
      PROVE  Goal
  BY <1>1, <1>2 DEF NoTime
<1>3. CASE RxGets
  <2>1. ASSUME NEW f, C6!BadChunk(f) PROVE Goal
    BY <1>1, <1>2, <2>1, ReplyFacts, ResetFacts DEF C6!BadChunk, C6!source, C6!receiver
  <2>2. ASSUME NEW f, C6!QueryArrives(f) PROVE Goal
    BY <1>1, <1>2, <2>2 DEF C6!QueryArrives, C6!source, C6!receiver
  <2>3. ASSUME NEW c, C6!ChunkArrives(c) PROVE Goal
    <3>1. rx'.busy = outstanding /\ UNCHANGED <<state, job, finished, outstanding>>
      BY <2>3 DEF C6!ChunkArrives, C6!source, C6!receiver
    <3>2. QED
      BY <1>1, <3>1 DEF NoTime
  <2>4. ASSUME NEW id, C6!TimeQueryArrives(id) PROVE Goal
    <3>1. rx' = rx /\ rx.pc = "idle" /\ UNCHANGED <<state, finished>>
      BY <2>4 DEF C6!TimeQueryArrives, C6!RxIdle, C6!receiver
    <3>2. \/ state = "IDLE" /\ outstanding'
          \/ UNCHANGED <<job, outstanding>>
      BY <2>4 DEF C6!TimeQueryArrives
    <3>3. QED
      BY <1>1, <3>1, <3>2 DEF NoTime
  <2>5. QED
    BY <1>3, <2>1, <2>2, <2>3, <2>4 DEF RxGets
<1>4. CASE RxRuns
  <2>1. finished = None /\ UNCHANGED <<job, finished, outstanding>>
    BY <1>4 DEF RxRuns, C6!RxStep, C6!TakeChunk, C6!Verify, C6!Complete,
      C6!EnqueueReply, C6!source
  <2>2. CASE C6!TakeChunk
    <3>1. rx'.pc # "chunk"
      <4>1. (\E c : C6!Reply(c)) \/ (\E c : C6!Stored(c))
        BY <2>2 DEF C6!TakeChunk, C6!FirstRefused, C6!FirstStored,
          C6!LaterRefused, C6!LaterStored
      <4>2. \A c : C6!Reply(c) => rx'.pc # "chunk"
        BY DEF C6!Reply
      <4>3. \A c : C6!Stored(c) => rx'.pc # "chunk"
        BY DEF C6!Stored, C6!At
      <4>4. QED
        BY <4>1, <4>2, <4>3
    <3>2. state' # "IDLE" => NoTime
      <4>1. CASE C6!FirstStored(rx.chunk)
        BY <1>1, <2>1, <2>2, <4>1 DEF C6!TakeChunk, C6!FirstStored, C6!SourceTaken,
          NoTime
      <4>2. CASE \/ C6!FirstRefused(rx.chunk) \/ C6!LaterRefused(rx.chunk)
                 \/ C6!LaterStored(rx.chunk)
        BY <1>1, <4>2, ResetFacts DEF C6!FirstRefused, C6!LaterRefused,
          C6!LaterStored, C6!receiver
      <4>3. QED
        BY <2>2, <4>1, <4>2 DEF C6!TakeChunk
    <3>3. QED
      BY <1>2, <2>1, <3>1, <3>2
  <2>3. CASE C6!Verify
    <3>1. state # "IDLE" /\ rx'.pc # "chunk"
      BY <2>3, ReplyFacts DEF C6!Verify, OneToken, C6!At
    <3>2. QED
      BY <1>1, <1>2, <2>1, <3>1
  <2>4. CASE C6!Complete \/ C6!EnqueueReply
    BY <1>1, <1>2, <2>1, <2>4 DEF C6!Complete, C6!EnqueueReply, C6!At, C6!receiver
  <2>5. QED
    BY <1>4, <2>2, <2>3, <2>4 DEF RxRuns, C6!RxStep
<1>5. CASE C6!WorkStep
  <2>1. CASE C6!TakeLifecycle
    <3>1. lifecycle \in C6!Lifecycle
      BY <2>1 DEF C6!TakeLifecycle, C6Data, QueueData
    <3>2. lifecycle.kind \in {"FRAME_COMPLETE", "BLE_FRAME_DONE", "BLE_TIME_DONE"}
      BY <3>1 DEF C6!Lifecycle
    <3>3. C6!ResetReceiver \/ UNCHANGED C6!receiver
      BY <2>1, <3>2 DEF C6!TakeLifecycle, C6!BeginSubmit, C6!FrameDone, C6!TimeDone
    <3>4. QED
      BY <1>1, <1>2, <2>1, <3>3, ResetFacts DEF C6!TakeLifecycle, C6!source, C6!receiver
  <2>2. CASE C6!Submit
    <3>1. /\ UNCHANGED <<state, finished, rx>>
          /\ \/ outstanding' /\ job'.kind = "image"
             \/ UNCHANGED <<job, outstanding>>
      BY <2>2 DEF C6!Submit, C6!receiver
    <3>2. QED
      BY <1>1, <3>1 DEF NoTime
  <2>3. CASE C6!Submitted
    <3>1. state # "IDLE"
      BY <2>3 DEF C6!Submitted, OneToken
    <3>2. QED
      BY <1>1, <1>2, <2>3, <3>1 DEF C6!Submitted, C6!source
  <2>4. CASE C6!CheckTimeout
    BY <1>1, <1>2, <2>4, ResetFacts DEF C6!CheckTimeout, C6!source
  <2>5. QED
    BY <1>1, <1>2, <1>5, <2>1, <2>2, <2>3, <2>4 DEF C6!WorkStep, C6!SendControl,
      C6!PushReady, C6!TakeReadyEdge, C6!TakeEvent, C6!Answer, C6!source,
      C6!receiver
<1>6. CASE SourceRuns
  <2>1. CASE C6!ReadyChanges
    BY <1>1, <1>2, <2>1 DEF C6!ReadyChanges, C6!receiver
  <2>2. CASE C6!SourceReports
    BY <1>1, <2>2 DEF C6!SourceReports, C6!receiver, NoTime
  <2>3. CASE C6!SourceFinishes
    <3>1. job' = None /\ UNCHANGED state
      BY <2>3 DEF C6!SourceFinishes, C6!FinishJob, C6!receiver
    <3>2. CASE job.kind = "image"
      <4>1. finished'.kind = "BLE_FRAME_DONE"
        BY <2>3, <3>2 DEF C6!SourceFinishes, C6!FinishJob, C6!BleFrameDone
      <4>2. QED
        BY <3>1, <4>1 DEF NoTime
    <3>3. CASE job.kind = "time"
      BY <1>1, <2>3, <3>1, <3>3 DEF C6!SourceFinishes, NoTime
    <3>4. QED
      BY <2>3, <3>2, <3>3 DEF C6!SourceFinishes
  <2>4. QED
    BY <1>6, <2>1, <2>2, <2>3 DEF SourceRuns
<1>7. CASE C6!Tick \/ AnswerLeaves \/ UNCHANGED <<c6Vars, toP4>>
  BY <1>1, <1>2, <1>7 DEF C6!Tick, AnswerLeaves, c6Vars, C6!source
<1>8. CASE C6Reset
  BY <1>8 DEF C6Reset, C6!At
<1>9. QED
  BY <1>3, <1>4, <1>5, <1>6, <1>7, <1>8 DEF C6Step

LEMMA MailboxStep ==
  ASSUME C6Data, OneToken, TimeApart, C6Step, "race" \notin Trouble
  PROVE  C6!MailboxKept
<1> DEFINE Kept == lifecycle' \in {lifecycle, None}
<1>1. CASE C6!Complete
  <2>1. ~Posted /\ ~IsDone(lifecycle)
    BY <1>1 DEF C6!Complete, OneToken, Taken
  <2>2. QED
    BY <2>1 DEF C6!MailboxKept, Posted, IsDone
<1>2. CASE C6!SourceReports
  <2>1. finished # None /\ finished \in C6!Lifecycle
    BY <1>2 DEF C6!SourceReports, C6Data, QueueData
  <2>2. finished.kind \in {"BLE_FRAME_DONE", "BLE_TIME_DONE"}
    BY <2>1 DEF OneToken, C6!Lifecycle
  <2>3. Posted => ~IsDone(finished) /\ state # "IDLE"
    BY DEF OneToken, Taken
  <2>4. IsDone(lifecycle) => ~IsDone(finished) /\ state # "IDLE"
    BY DEF OneToken, Taken
  <2>5. ~Posted /\ ~IsDone(lifecycle)
    BY <2>1, <2>2, <2>3, <2>4 DEF TimeApart, IsDone
  <2>6. QED
    BY <2>5 DEF C6!MailboxKept, Posted, IsDone
<1>3. CASE C6!RxStep /\ ~C6!Complete
  BY <1>3 DEF C6!RxStep, C6!TakeChunk, C6!Verify, C6!EnqueueReply, C6!queues,
    C6!MailboxKept
<1>4. CASE RxGets
  BY <1>4 DEF RxGets, C6!BadChunk, C6!QueryArrives, C6!ChunkArrives,
    C6!TimeQueryArrives, C6!queues, C6!MailboxKept
<1>5. CASE C6!WorkStep
  BY <1>5 DEF C6!WorkStep, C6!TakeLifecycle, C6!Submit, C6!Submitted,
    C6!SendControl, C6!PushReady, C6!TakeReadyEdge, C6!TakeEvent, C6!Answer,
    C6!CheckTimeout, C6!queues, C6!MailboxKept
<1>6. CASE C6!SourceFinishes \/ C6!ReadyChanges \/ C6!Tick \/ C6Reset
  BY <1>6 DEF C6!SourceFinishes, C6!ReadyChanges, C6!Tick, C6Reset, C6!queues,
    C6!MailboxKept
<1>7. CASE AnswerLeaves \/ UNCHANGED <<c6Vars, toP4>>
  BY <1>7 DEF AnswerLeaves, c6Vars, C6!MailboxKept
<1>8. QED
  BY <1>1, <1>2, <1>3, <1>4, <1>5, <1>6, <1>7 DEF C6Step, RxRuns, SourceRuns

\* The one-slot mailbox of the receiver loses no transition of a frame as long
\* as the RX task does not run between the two halves of a completion report:
\* that race, which the run mailbox finds, is the only way to lose
\* one (enqueue_lifecycle_event, publish_time_done).
THEOREM MailboxLossless ==
  ASSUME "race" \notin Trouble
  PROVE  Spec => LifecycleLossless
<1>1. Init => C6Inv /\ TimeApart
  BY P4Init, C6Init DEF C6Inv
<1>2. C6Inv /\ TimeApart /\ [Next]_vars => (C6Inv /\ TimeApart)'
  BY NextIsC6Step, P4Next, C6DataNext, TokenNext, BufferNext, TimeNext DEF C6Inv
<1>3. C6Inv /\ TimeApart /\ [Next]_vars => C6!MailboxKept
  BY NextIsC6Step, MailboxStep DEF C6Inv
<1>4. C6Inv /\ TimeApart /\ [Next]_vars => [C6!MailboxKept]_vars
  BY <1>3
<1>5. QED
  BY <1>1, <1>2, <1>4, PTL DEF Spec, LifecycleLossless

-----------------------------------------------------------------------------
(* The first chunk of a frame is sent once *)

LEMMA PlaceInit == Init => OnePlace
BY DEF Init, P4!Init, C6!Init, C6!At, OnePlace, InApp, InQueue, InTx, InRx, Unused

\* No step puts a first chunk back on its way.
PendingShrinks ==
  \A f \in Frame : (Unsent(f)' => Unsent(f)) /\ (Pending(f)' => Pending(f))

LEMMA PlaceKept ==
  ASSUME OnePlace, UNCHANGED <<app, txQueue, nextFrame>>,
         UNCHANGED tx \/ tx'.pc \notin {"check", "sendChunk"},
         UNCHANGED rx \/ rx'.pc # "chunk"
  PROVE  OnePlace' /\ PendingShrinks
<1>1. \A f \in Frame : /\ InApp(f)' = InApp(f) /\ InQueue(f)' = InQueue(f)
                       /\ Unused(f)' = Unused(f)
                       /\ InTx(f)' => InTx(f)
                       /\ InRx(f)' => InRx(f)
  BY DEF InApp, InQueue, InTx, InRx, Unused
<1>2. QED
  BY <1>1 DEF OnePlace, PendingShrinks, Pending, Unsent

\* The RX task's own steps end with no chunk in hand.
LEMMA RxEnds ==
  ASSUME C6!RxStep \/ \E f : C6!BadChunk(f) \/ C6!QueryArrives(f) \/ C6!TimeQueryArrives(f)
  PROVE  UNCHANGED rx \/ rx'.pc # "chunk"
<1>1. \A c : C6!Reply(c) \/ C6!Stored(c) => rx'.pc # "chunk"
  BY DEF C6!Reply, C6!Stored, C6!At
<1>2. CASE C6!TakeChunk
  BY <1>1, <1>2 DEF C6!TakeChunk, C6!FirstRefused, C6!FirstStored,
    C6!LaterRefused, C6!LaterStored
<1>3. CASE C6!Verify \/ C6!Complete \/ C6!EnqueueReply
  BY <1>1, <1>3 DEF C6!Verify, C6!Complete, C6!EnqueueReply, C6!At
<1>4. ASSUME NEW f, C6!BadChunk(f) \/ C6!QueryArrives(f) \/ C6!TimeQueryArrives(f)
      PROVE  UNCHANGED rx \/ rx'.pc # "chunk"
  BY <1>1, <1>4 DEF C6!BadChunk, C6!QueryArrives, C6!TimeQueryArrives
<1>5. QED
  BY <1>2, <1>3, <1>4 DEF C6!RxStep

\* A send: what arrives is what is sent, and it is not sent again.
LEMMA SendPlace ==
  ASSUME P4Data, OnePlace, P4!Sending, P4!Sent \/ P4!SendFails,
         NEW good \in BOOLEAN,
         \/ Arrives(good)
         \/ \E f : C6!BadChunk(f)
         \/ UNCHANGED c6Vars
  PROVE  OnePlace' /\ PendingShrinks
<1>1. UNCHANGED <<app, txQueue, nextFrame>>
  BY DEF P4!Sent, P4!SendFails
<1>2. \A f \in Frame : ~InTx(f)'
  <2> DEFINE Moved == tx' \in {[pc |-> "time"], [pc |-> "take"], [pc |-> "loop"]}
  <2>1. CASE P4!SendFails
    <3>1. Moved
      BY <2>1 DEF P4!Sending, P4!SendFails, P4!Goto
    <3>2. QED
      BY <3>1 DEF InTx
  <2>2. CASE P4!Sent /\ tx.pc = "sendQuery"
    BY <2>2 DEF P4!Sent, P4!Goto, InTx
  <2>3. CASE P4!Sent /\ tx.pc = "sendTime"
    BY <2>3 DEF P4!Sent, P4!Goto, InTx
  <2>4. CASE P4!Sent /\ tx.pc = "sendChunk"
    <3>1. \/ tx' = [tx EXCEPT !.pc = "check", !.index = @ + 1]
          \/ tx' = [pc |-> "mark", frame |-> tx.job.frame]
      BY <2>4 DEF P4!Sent
    <3>2. tx \in [pc : {"check", "sendChunk"}, job : P4Job, index : C6!Index]
      BY <2>4 DEF P4Data
    <3>3. tx.index + 1 # 0
      BY <3>2, LinkAssumption DEF C6!Index
    <3>4. tx' = [tx EXCEPT !.pc = "check", !.index = @ + 1] => tx'.index # 0
      BY <3>2, <3>3
    <3>5. QED
      BY <3>1, <3>4 DEF InTx
  <2>5. QED
    BY <2>1, <2>2, <2>3, <2>4 DEF P4!Sending
<1>3. \A f \in Frame : InRx(f)' => InRx(f) \/ InTx(f)
  <2>1. CASE UNCHANGED c6Vars
    BY <2>1 DEF c6Vars, InRx
  <2>2. CASE \E f : C6!BadChunk(f)
    BY <2>2, RxEnds DEF InRx
  <2>3. CASE Arrives(good) /\ tx.pc = "sendQuery"
    BY <2>3, RxEnds DEF Arrives, InRx
  <2>4. CASE Arrives(good) /\ tx.pc = "sendTime"
    BY <2>4, RxEnds DEF Arrives, InRx
  <2>5. CASE Arrives(good) /\ tx.pc = "sendChunk"
    <3>1. C6!ChunkArrives([frame |-> tx.job.frame, image |-> tx.job.image,
                           index |-> tx.index, good |-> good])
      BY <2>5 DEF Arrives
    <3>2. rx'.pc = "chunk" /\ rx'.chunk.frame = tx.job.frame /\ rx'.chunk.index = tx.index
      BY <3>1 DEF C6!ChunkArrives
    <3>3. QED
      BY <2>5, <3>2 DEF InRx, InTx
  <2>6. QED
    BY <2>1, <2>2, <2>3, <2>4, <2>5 DEF P4!Sending
<1>4. \A f \in Frame : /\ InApp(f)' = InApp(f) /\ InQueue(f)' = InQueue(f)
                       /\ Unused(f)' = Unused(f)
  BY <1>1 DEF InApp, InQueue, Unused
<1>5. QED
  BY <1>2, <1>3, <1>4 DEF OnePlace, PendingShrinks, Pending, Unsent

LEMMA PlaceNext ==
  P4Data /\ C6Data /\ OnePlace /\ [Next]_vars => OnePlace' /\ PendingShrinks
<1> SUFFICES ASSUME P4Data, C6Data, OnePlace, [Next]_vars
             PROVE  OnePlace' /\ PendingShrinks
  OBVIOUS
<1>1. CASE Deliver \/ DeliverDamaged \/ Fault
  <2>1. P4!Sending
    BY <1>1 DEF Deliver, DeliverDamaged, Fault, P4!Sending
  <2>2. P4!Sent \/ P4!SendFails
    BY <1>1 DEF Deliver, DeliverDamaged, Fault
  <2>3. \/ \E good \in BOOLEAN : Arrives(good)
        \/ \E f : C6!BadChunk(f)
        \/ UNCHANGED c6Vars
    BY <1>1 DEF Deliver, DeliverDamaged, Fault
  <2>4. QED
    BY <2>1, <2>2, <2>3, SendPlace
<1>2. CASE Hear
  <2> DEFINE m == Head(toP4)
  <2>1. m \in C6!Control \cup C6!Sample
    BY <1>2 DEF Hear, C6Data, QueueData
  <2>2. (m \in C6!Control /\ P4!HearControl(m)) \/ P4!HearSample(m)
    BY <1>2, <2>1, Samples DEF Hear
  <2>3. UNCHANGED <<nextFrame, app, txQueue, tx>>
    BY <2>2, HearingKeeps
  <2>4. QED
    BY <1>2, <2>3, PlaceKept DEF Hear, c6Vars
<1>3. CASE TransportUp \/ TransportDown \/ HearStart
  BY <1>3, PlaceKept DEF TransportUp, TransportDown, HearStart, P4!TransportUp,
    P4!TransportDown, P4!C6Initialized, c6Vars
<1>4. CASE Submits
  <2>1. PICK image \in Image : P4!SubmitEvent(image)
    BY <1>4 DEF Submits
  <2>2. /\ app = None /\ nextFrame' = nextFrame + 1
        /\ app' = [frame |-> nextFrame + 1, image |-> image]
        /\ UNCHANGED <<txQueue, tx, rx>>
    BY <1>4, <2>1 DEF Submits, P4!SubmitEvent, c6Vars
  <2>3. nextFrame \in Nat
    BY LinkAssumption DEF P4Data
  <2>4. app'.frame = nextFrame + 1
    BY <2>2
  <2>5. \A f \in Frame :
          /\ ~InApp(f) /\ (InApp(f)' => Unused(f)) /\ (Unused(f)' => Unused(f))
          /\ ~(InApp(f)' /\ Unused(f)')
          /\ InQueue(f)' = InQueue(f) /\ InTx(f)' = InTx(f) /\ InRx(f)' = InRx(f)
    BY <2>2, <2>3, <2>4 DEF InApp, InQueue, InTx, InRx, Unused, Frame
  <2>6. QED
    BY <2>5 DEF OnePlace, PendingShrinks, Pending, Unsent
<1>5. CASE AppQueues
  <2>1. app # None /\ app' = None /\ UNCHANGED <<nextFrame, tx, rx>>
    BY <1>5 DEF AppQueues, P4!QueueJob, c6Vars
  <2>2. (txQueue = None /\ txQueue' = app) \/ txQueue' = txQueue
    BY <1>5 DEF AppQueues, P4!QueueJob
  <2>3. \A f \in Frame :
          /\ ~InApp(f)' /\ (InQueue(f)' => InQueue(f) \/ InApp(f))
          /\ Unused(f)' = Unused(f) /\ InTx(f)' = InTx(f) /\ InRx(f)' = InRx(f)
    BY <2>1, <2>2 DEF InApp, InQueue, InTx, InRx, Unused
  <2>4. QED
    BY <2>3 DEF OnePlace, PendingShrinks, Pending, Unsent
<1>6. CASE P4Works
  <2>1. UNCHANGED <<rx, app, nextFrame>>
    BY <1>6 DEF P4Works, P4!TxStep, P4!ShouldQuery, P4!Query, P4!PrepareTime,
      P4!TakeJob, P4!CheckJob, P4!ReleaseForQuery, P4!MarkComplete, c6Vars
  <2>2. CASE P4!ShouldQuery \/ P4!Query \/ P4!PrepareTime
    BY <2>1, <2>2, PlaceKept DEF P4!ShouldQuery, P4!Query, P4!PrepareTime, P4!Goto
  <2>3. CASE P4!TakeJob
    <3>1. txQueue' = None /\ tx.pc = "take"
      BY <2>3 DEF P4!TakeJob
    <3>2. \/ /\ tx' = [pc |-> "check", job |-> txQueue, index |-> 0]
             /\ txQueue # None
          \/ tx' = [pc |-> "loop"]
      BY <2>3 DEF P4!TakeJob, P4!Goto
    <3>3. \A f \in Frame :
            /\ ~InQueue(f)' /\ (InTx(f)' => InQueue(f))
            /\ InApp(f)' = InApp(f) /\ Unused(f)' = Unused(f) /\ InRx(f)' = InRx(f)
      BY <2>1, <3>1, <3>2 DEF InApp, InQueue, InTx, InRx, Unused
    <3>4. QED
      BY <3>3 DEF OnePlace, PendingShrinks, Pending, Unsent
  <2>4. CASE P4!CheckJob
    <3>1. tx \in [pc : {"check", "sendChunk"}, job : P4Job, index : C6!Index]
      BY <2>4 DEF P4!CheckJob, P4Data
    <3>2. tx' = [tx EXCEPT !.pc = "sendChunk"] \/ tx' = [pc |-> "loop"]
      BY <2>4 DEF P4!CheckJob, P4!Goto
    <3>3. \A f \in Frame :
            /\ InTx(f)' => InTx(f)
            /\ InQueue(f)' = InQueue(f) /\ InApp(f)' = InApp(f)
            /\ Unused(f)' = Unused(f) /\ InRx(f)' = InRx(f)
      BY <2>1, <2>4, <3>1, <3>2 DEF P4!CheckJob, InApp, InQueue, InTx, InRx, Unused
    <3>4. QED
      BY <3>3 DEF OnePlace, PendingShrinks, Pending, Unsent
  <2>5. CASE P4!ReleaseForQuery \/ P4!MarkComplete
    BY <2>1, <2>5, PlaceKept DEF P4!ReleaseForQuery, P4!MarkComplete, P4!Goto
  <2>6. QED
    BY <1>6, <2>2, <2>3, <2>4, <2>5 DEF P4Works, P4!TxStep
<1>7. CASE RxWorks
  BY <1>7, RxEnds, PlaceKept DEF RxWorks, p4Vars
<1>8. CASE C6Restarts
  BY <1>8, PlaceKept DEF C6Restarts, C6!At, p4Vars
<1>9. CASE StatusWorks
  <2>1. UNCHANGED rx
    BY <1>9 DEF StatusWorks, C6!WorkStep, C6!TakeLifecycle, C6!Submit, C6!Submitted,
      C6!SendControl, C6!PushReady, C6!TakeReadyEdge, C6!TakeEvent, C6!Answer,
      C6!CheckTimeout
  <2>2. QED
    BY <1>9, <2>1, PlaceKept DEF StatusWorks, p4Vars
<1>10. CASE SourceFinishes \/ SourceReports \/ Silence \/ MeshComes \/ MeshGoes
  BY <1>10, PlaceKept DEF SourceFinishes, SourceReports, Silence, MeshComes,
    MeshGoes, C6!SourceFinishes, C6!SourceReports, C6!Tick, C6!ReadyChanges, p4Vars
<1>11. CASE LoseAnswer \/ UNCHANGED vars
  BY <1>11, PlaceKept DEF LoseAnswer, vars, c6Vars, p4Vars
<1>12. QED
  BY <1>1, <1>2, <1>3, <1>4, <1>5, <1>6, <1>7, <1>8, <1>9, <1>10, <1>11 DEF Next
-----------------------------------------------------------------------------
(* What is said of an acknowledged frame is true *)

LEMMA AckInit == Init => AckInv
BY DEF Init, P4!Init, C6!Init, C6!At, AckInv, FirstPast, DoneTrue, IsDone, CachedTrue,
  WorkTrue, EventsSilent, AnswersTrue

\* acked loses a frame only when its first chunk is handled, and first becomes
\* that frame.
LEMMA AckedSteps ==
  ASSUME C6Data, C6Step
  PROVE  \/ /\ \A f \in acked : f \in acked'
            /\ first' \in {first, None}
         \/ /\ C6!TakeChunk
            /\ InRx(rx.chunk.frame) /\ state = "IDLE"
            /\ acked' = acked \ {rx.chunk.frame}
            /\ first' # None /\ first'.frame = rx.chunk.frame
            /\ rx'.pc # "chunk"
<1>1. CASE RxGets
  BY <1>1 DEF RxGets, C6!BadChunk, C6!QueryArrives, C6!ChunkArrives,
    C6!TimeQueryArrives, C6!receiver, C6!ResetReceiver
<1>2. CASE C6!TakeChunk
  <2>1. CASE C6!FirstStored(rx.chunk)
    <3>1. rx.pc = "chunk" /\ rx.chunk.index = 0 /\ state = "IDLE"
      BY <1>2, <2>1 DEF C6!TakeChunk, C6!FirstStored, C6!FirstChunk, C6!BufferTaken
    <3>2. rx'.pc # "chunk"
      BY <2>1 DEF C6!FirstStored, C6!Stored, C6!At
    <3>3. /\ first' = [frame |-> rx.chunk.frame, image |-> rx.chunk.image]
          /\ acked' = acked \ {rx.chunk.frame}
      BY <2>1 DEF C6!FirstStored
    <3>4. first' \in P4Job
      BY <1>2, <3>1, <3>3 DEF C6Data, RxData, P4Job
    <3>5. QED
      BY <1>2, <3>1, <3>2, <3>3, <3>4, LinkAssumption DEF InRx, P4Job, Frame
  <2>2. QED
    BY <1>2, <2>1 DEF C6!TakeChunk, C6!FirstRefused, C6!LaterRefused,
      C6!LaterStored, C6!receiver, C6!ResetReceiver
<1>3. CASE C6!Verify \/ C6!Complete \/ C6!EnqueueReply
  BY <1>3 DEF C6!Verify, C6!Complete, C6!EnqueueReply, C6!receiver, C6!ResetReceiver
<1>4. CASE C6!WorkStep
  <2>1. CASE C6!TakeLifecycle
    <3>1. lifecycle \in C6!Lifecycle
      BY <2>1 DEF C6!TakeLifecycle, C6Data, QueueData
    <3>2. lifecycle.kind \in {"FRAME_COMPLETE", "BLE_FRAME_DONE", "BLE_TIME_DONE"}
      BY <3>1 DEF C6!Lifecycle
    <3>3. QED
      BY <2>1, <3>2 DEF C6!TakeLifecycle, C6!BeginSubmit, C6!FrameDone, C6!TimeDone,
        C6!receiver, C6!ResetReceiver
  <2>2. QED
    BY <1>4, <2>1 DEF C6!WorkStep, C6!Submit, C6!Submitted, C6!SendControl,
      C6!PushReady, C6!TakeReadyEdge, C6!TakeEvent, C6!Answer, C6!CheckTimeout,
      C6!receiver, C6!ResetReceiver
<1>5. CASE SourceRuns
  BY <1>5 DEF SourceRuns, C6!SourceFinishes, C6!SourceReports, C6!ReadyChanges, C6!receiver
<1>6. CASE C6!Tick \/ C6Reset \/ AnswerLeaves \/ UNCHANGED <<c6Vars, toP4>>
  BY <1>6 DEF C6!Tick, C6Reset, AnswerLeaves, c6Vars
<1>7. QED
  BY <1>1, <1>2, <1>3, <1>4, <1>5, <1>6 DEF C6Step, RxRuns, C6!RxStep

\* A truth of the past stays one.
LEMMA PastKept ==
  ASSUME C6Data, C6Step, PendingShrinks
  PROVE  \A f : TruePast(f) => TruePast(f)'
<1>1. acked \subseteq Frame
  BY DEF C6Data, QueueData, Frame
<1>2. \A f : TruePast(f) => f \in acked'
  BY AckedSteps DEF TruePast, Pending
<1>3. QED
  BY <1>1, <1>2 DEF TruePast, PendingShrinks

LEMMA FirstNext ==
  ASSUME C6Data, OnePlace, FirstPast, C6Step, PendingShrinks, OnePlace'
  PROVE  FirstPast'
<1>1. CASE first' \in {first, None}
  <2>1. first # None => first.frame \in Frame
    BY DEF C6Data, ReceiverData, P4Job
  <2>2. QED
    BY <1>1, <2>1 DEF FirstPast, PendingShrinks
<1>2. CASE /\ C6!TakeChunk
           /\ InRx(rx.chunk.frame)
           /\ first' # None /\ first'.frame = rx.chunk.frame
           /\ rx'.pc # "chunk"
  <2>1. PICK f \in Frame : f = rx.chunk.frame
    BY <1>2 DEF InRx, C6Data, RxData
  <2>2. ~Unsent(f)
    BY <1>2, <2>1 DEF OnePlace, Unsent
  <2>3. ~Unsent(f)' /\ ~InRx(f)'
    BY <1>2, <2>1, <2>2 DEF PendingShrinks, InRx
  <2>4. QED
    BY <1>2, <2>1, <2>3 DEF FirstPast, Pending
<1>3. QED
  BY <1>1, <1>2, AckedSteps

\* A report of an acknowledged frame is made while the frame owns the buffer.
LEMMA DoneNext ==
  ASSUME C6Data, OneToken, DoneTrue(finished), DoneTrue(lifecycle), C6Step
  PROVE  DoneTrue(finished)' /\ DoneTrue(lifecycle)'
<1>1. CASE C6!SourceFinishes
  <2>1. UNCHANGED lifecycle /\ \A f \in acked : f \in acked'
    BY <1>1 DEF C6!SourceFinishes, C6!queues
  <2>2. CASE job.kind = "time"
    <3>1. PICK sample : finished' = C6!BleTimeDone(sample)
      BY <1>1, <2>2 DEF C6!SourceFinishes, C6!FinishJob
    <3>2. QED
      BY <2>1, <3>1 DEF DoneTrue, IsDone, C6!BleTimeDone
  <2>3. CASE job.kind # "time"
    <3>1. PICK ok \in BOOLEAN :
            /\ finished' = C6!BleFrameDone(job.frame, job.ble, ok)
            /\ acked' = IF ok THEN acked \cup {job.frame} ELSE acked
      BY <1>1, <2>3 DEF C6!SourceFinishes, C6!FinishJob
    <3>2. QED
      BY <2>1, <3>1 DEF DoneTrue, IsDone, C6!BleFrameDone
  <2>4. QED
    BY <2>2, <2>3
<1>2. CASE /\ C6!TakeChunk /\ state = "IDLE"
  <2>1. UNCHANGED <<lifecycle, finished>>
    BY <1>2 DEF C6!TakeChunk, C6!queues, C6!source
  <2>2. ~IsDone(lifecycle) /\ ~IsDone(finished)
    BY <1>2 DEF OneToken, Taken
  <2>3. QED
    BY <2>1, <2>2 DEF DoneTrue, IsDone
<1>3. ASSUME \A f \in acked : f \in acked',
             finished' \in {finished, None},
             \/ lifecycle' \in {lifecycle, finished, None}
             \/ lifecycle'.kind = "FRAME_COMPLETE"
      PROVE  DoneTrue(finished)' /\ DoneTrue(lifecycle)'
  BY <1>3 DEF DoneTrue, IsDone
<1>4. CASE RxGets
  BY <1>3, <1>4, AckedSteps DEF RxGets, C6!BadChunk, C6!QueryArrives, C6!ChunkArrives,
    C6!TimeQueryArrives, C6!queues, C6!source
<1>5. CASE C6!TakeChunk /\ ~(state = "IDLE")
  BY <1>3, <1>5, AckedSteps DEF C6!TakeChunk, C6!queues, C6!source
<1>6. CASE C6!Complete
  BY <1>3, <1>6 DEF C6!Complete, C6!source, C6!FrameComplete
<1>7. CASE C6!Verify \/ C6!EnqueueReply
  BY <1>3, <1>7 DEF C6!Verify, C6!EnqueueReply, C6!queues, C6!source
<1>8. CASE C6!WorkStep
  BY <1>3, <1>8 DEF C6!WorkStep, C6!TakeLifecycle, C6!Submit, C6!Submitted,
    C6!SendControl, C6!PushReady, C6!TakeReadyEdge, C6!TakeEvent, C6!Answer,
    C6!CheckTimeout, C6!queues, C6!source
<1>9. CASE C6!SourceReports \/ C6!ReadyChanges \/ C6!Tick \/ C6Reset
  BY <1>3, <1>9 DEF C6!SourceReports, C6!ReadyChanges, C6!Tick, C6Reset, C6!queues,
    C6!source
<1>10. CASE AnswerLeaves \/ UNCHANGED <<c6Vars, toP4>>
  BY <1>3, <1>10 DEF AnswerLeaves, c6Vars
<1>11. QED
  BY <1>1, <1>2, <1>4, <1>5, <1>6, <1>7, <1>8, <1>9, <1>10
  DEF C6Step, RxRuns, SourceRuns, C6!RxStep

\* The events for the worker hold no SERVER_ACKED.
LEMMA EventsNext ==
  ASSUME C6Data, EventsSilent, C6Step
  PROVE  EventsSilent'
<1> DEFINE Quiet(e) == e.kind = "CONTROL" => e.control.state # "SERVER_ACKED"
<1>1. ASSUME NEW e \in C6!Event, Quiet(e), C6!Enqueue(e)
      PROVE  EventsSilent'
  <2>1. \A n \in 1 .. Len(events') :
          events'[n] = e \/ \E k \in 1 .. Len(events) : events'[n] = events[k]
    BY <1>1, Enqueues DEF C6Data
  <2>2. QED
    BY <1>1, <2>1 DEF EventsSilent
<1>2. ASSUME UNCHANGED events
      PROVE  EventsSilent'
  BY <1>2 DEF EventsSilent
<1>3. CASE C6!EnqueueReply
  <2> DEFINE e == [kind |-> "CONTROL", control |-> rx.control]
  <2>1. e \in C6!Event /\ Quiet(e) /\ C6!Enqueue(e)
    BY <1>3 DEF C6!EnqueueReply, C6Data, RxData, C6!Event
  <2>2. QED
    BY <1>1, <2>1
<1>4. ASSUME NEW f \in 0 .. LastFrame, C6!QueryArrives(f)
      PROVE  EventsSilent'
  <2> DEFINE e == [kind |-> "QUERY", frame |-> f]
  <2>1. e \in C6!Event /\ Quiet(e) /\ C6!Enqueue(e)
    BY <1>4, LinkAssumption DEF C6!QueryArrives, C6!Event
  <2>2. QED
    BY <1>1, <2>1
<1>5. ASSUME NEW id \in Query, C6!TimeQueryArrives(id)
      PROVE  EventsSilent'
  <2>1. CASE state = "IDLE" /\ ~outstanding /\ ready
    BY <1>2, <1>5, <2>1 DEF C6!TimeQueryArrives
  <2>2. CASE ~(state = "IDLE" /\ ~outstanding /\ ready)
    <3>1. PICK s \in {"BUSY", "NOT_READY"} :
            C6!Enqueue([kind |-> "SAMPLE", sample |-> [id |-> id, status |-> s]])
      BY <1>5, <2>2 DEF C6!TimeQueryArrives
    <3> DEFINE e == [kind |-> "SAMPLE", sample |-> [id |-> id, status |-> s]]
    <3>2. e \in C6!Event /\ Quiet(e)
      BY DEF C6!Event, C6!Sample, Query
    <3>3. QED
      BY <1>1, <3>1, <3>2
  <2>3. QED
    BY <2>1, <2>2
<1>6. CASE RxGets
  BY <1>2, <1>4, <1>5, <1>6 DEF RxGets, C6!BadChunk, C6!ChunkArrives, C6!queues
<1>7. CASE C6!TakeChunk \/ C6!Verify \/ C6!Complete
  BY <1>2, <1>7 DEF C6!TakeChunk, C6!Verify, C6!Complete, C6!queues
<1>8. CASE C6!TakeEvent
  <2>1. events \in Seq(C6!Event) /\ events # <<>> /\ events' = Tail(events)
    BY <1>8 DEF C6!TakeEvent, C6Data, QueueData
  <2>2. \A n \in 1 .. Len(events') :
          events'[n] = events[n + 1] /\ n + 1 \in 1 .. Len(events)
    BY <2>1, Tails
  <2>3. QED
    BY <2>2 DEF EventsSilent
<1>9. CASE C6!WorkStep /\ ~C6!TakeEvent
  BY <1>2, <1>9 DEF C6!WorkStep, C6!TakeLifecycle, C6!Submit, C6!Submitted,
    C6!SendControl, C6!PushReady, C6!TakeReadyEdge, C6!Answer, C6!CheckTimeout, C6!queues
<1>10. CASE SourceRuns \/ C6!Tick
  BY <1>2, <1>10 DEF SourceRuns, C6!SourceFinishes, C6!SourceReports, C6!ReadyChanges,
    C6!Tick, C6!queues
<1>11. CASE C6Reset
  BY <1>11 DEF C6Reset, EventsSilent
<1>12. CASE AnswerLeaves \/ UNCHANGED <<c6Vars, toP4>>
  BY <1>2, <1>12 DEF AnswerLeaves, c6Vars
<1>13. QED
  BY <1>3, <1>6, <1>7, <1>8, <1>9, <1>10, <1>11, <1>12 DEF C6Step, RxRuns, C6!RxStep

LEMMA CachedNext ==
  ASSUME C6Data, CachedTrue, WorkTrue, C6Step, PendingShrinks
  PROVE  CachedTrue'
<1>1. \A c : True(c) => True(c)'
  BY PastKept DEF True
<1>2. ASSUME terminal' \in {terminal, None}
      PROVE  CachedTrue'
  BY <1>1, <1>2 DEF CachedTrue
<1>3. ASSUME NEW c, C6!CacheTerminal(c), True(c)
      PROVE  CachedTrue'
  BY <1>1, <1>3 DEF C6!CacheTerminal, CachedTrue
<1>4. CASE C6!EnqueueReply
  <2>1. rx.control.state # "SERVER_ACKED"
    BY <1>4 DEF C6!EnqueueReply, C6Data, RxData
  <2>2. QED
    BY <1>3, <1>4, <2>1 DEF C6!EnqueueReply, True
<1>5. CASE C6!SendControl
  BY <1>3, <1>5 DEF C6!SendControl, WorkTrue
<1>6. CASE RxGets
  BY <1>2, <1>6 DEF RxGets, C6!BadChunk, C6!QueryArrives, C6!ChunkArrives,
    C6!TimeQueryArrives
<1>7. CASE C6!TakeChunk \/ C6!Verify \/ C6!Complete
  BY <1>2, <1>7 DEF C6!TakeChunk, C6!Verify, C6!Complete, C6!FirstRefused,
    C6!FirstStored, C6!LaterRefused, C6!LaterStored, C6!Supersede
<1>8. CASE C6!WorkStep /\ ~C6!SendControl
  BY <1>2, <1>8 DEF C6!WorkStep, C6!TakeLifecycle, C6!Submit, C6!Submitted,
    C6!PushReady, C6!TakeReadyEdge, C6!TakeEvent, C6!Answer, C6!CheckTimeout
<1>9. CASE SourceRuns \/ C6!Tick \/ C6Reset
  BY <1>2, <1>9 DEF SourceRuns, C6!SourceFinishes, C6!SourceReports, C6!ReadyChanges,
    C6!Tick, C6Reset
<1>10. CASE AnswerLeaves \/ UNCHANGED <<c6Vars, toP4>>
  BY <1>2, <1>10 DEF AnswerLeaves, c6Vars
<1>11. QED
  BY <1>4, <1>5, <1>6, <1>7, <1>8, <1>9, <1>10 DEF C6Step, RxRuns, C6!RxStep

\* The worker goes on to say something else than SERVER_ACKED.
LEMMA WorkSilent ==
  ASSUME NEW s, s # "SERVER_ACKED", NEW f, NEW b, NEW o, NEW push,
         C6!GoSend(C6!Msg(s, f, b, o), push)
  PROVE  WorkTrue'
<1>1. /\ work'.pc = "send" /\ work'.control.state = s
  BY DEF C6!GoSend, C6!Msg
<1>2. QED
  BY <1>1 DEF WorkTrue, True

\* The worker takes up a completion, and drops it where it does not match.
LEMMA TakeLifecycleTrue ==
  ASSUME C6Data, FirstPast, DoneTrue(lifecycle), C6!TakeLifecycle, C6Step, PendingShrinks
  PROVE  WorkTrue'
<1>1. lifecycle \in C6!Lifecycle
  BY DEF C6!TakeLifecycle, C6Data, QueueData
<1>2. ASSUME work'.pc \in {"idle", "submit", "push"}
      PROVE  WorkTrue'
  BY <1>2 DEF WorkTrue
<1>3. CASE lifecycle.kind = "BLE_FRAME_DONE" /\ C6!FrameDone(lifecycle)
  <2>1. CASE ~C6!Matches(lifecycle)
    BY <1>2, <1>3, <2>1 DEF C6!FrameDone, C6!At
  <2>2. CASE C6!Matches(lifecycle) /\ ~lifecycle.ok
    <3>1. C6!GoSend(C6!Msg("FAILED", lifecycle.frame, lifecycle.ble, 0), TRUE)
      BY <1>3, <2>2 DEF C6!FrameDone
    <3>2. QED
      BY <3>1, WorkSilent
  <2>3. CASE C6!Matches(lifecycle) /\ lifecycle.ok
    <3>1. C6!GoSend(C6!Msg("SERVER_ACKED", lifecycle.frame, lifecycle.ble, 0), TRUE)
      BY <1>3, <2>3 DEF C6!FrameDone
    <3>2. work'.pc = "send" /\ work'.control.frame = lifecycle.frame
      BY <3>1 DEF C6!GoSend, C6!Msg
    <3>3. first # None /\ first.frame = lifecycle.frame
      BY <2>3, ActiveFrames DEF C6!Matches, C6Data, ReceiverData
    <3>4. TruePast(lifecycle.frame)
      BY <1>3, <2>3, <3>3 DEF FirstPast, DoneTrue, IsDone, TruePast,
        C6!TakeLifecycle
    <3>5. PICK f : f = lifecycle.frame
      OBVIOUS
    <3>6. TruePast(f)'
      BY <3>4, <3>5, PastKept
    <3>7. QED
      BY <3>2, <3>5, <3>6 DEF WorkTrue, True
  <2>4. QED
    BY <2>1, <2>2, <2>3
<1>4. CASE C6!BeginSubmit(lifecycle) \/ C6!TimeDone(lifecycle)
  BY <1>2, <1>4 DEF C6!BeginSubmit, C6!TimeDone, C6!At
<1>5. lifecycle.kind \in {"FRAME_COMPLETE", "BLE_FRAME_DONE", "BLE_TIME_DONE"}
  BY <1>1 DEF C6!Lifecycle
<1>6. QED
  BY <1>3, <1>4, <1>5 DEF C6!TakeLifecycle

LEMMA WorkTrueNext ==
  ASSUME C6Data, AckInv, C6Step, PendingShrinks
  PROVE  WorkTrue'
<1>1. \A c : True(c) => True(c)'
  BY PastKept DEF True
<1>2. ASSUME UNCHANGED work
      PROVE  WorkTrue'
  BY <1>1, <1>2 DEF AckInv, WorkTrue
<1>3. ASSUME work'.pc \in {"idle", "submit", "submitted", "push"}
      PROVE  WorkTrue'
  BY <1>3 DEF WorkTrue
<1>4. CASE C6!TakeLifecycle
  BY <1>4, TakeLifecycleTrue DEF AckInv
<1>5. CASE C6!Submit
  BY <1>3, <1>5 DEF C6!Submit
<1>6. CASE C6!Submitted
  <2>1. PICK s \in {"ACCEPTED", "FAILED"} :
          C6!GoSend(C6!Msg(s, work.frame, work.ble, 0), ~work.ok)
    BY <1>6 DEF C6!Submitted
  <2>2. QED
    BY <2>1, WorkSilent
<1>7. CASE C6!SendControl \/ C6!PushReady
  BY <1>3, <1>7 DEF C6!SendControl, C6!PushReady, C6!At
<1>8. ASSUME NEW f, C6!Snapshot(f), CachedTrue
      PROVE  WorkTrue'
  <2>1. work'.pc = "answer" /\ work'.terminal = terminal
    BY <1>8 DEF C6!Snapshot
  <2>2. QED
    BY <1>1, <1>8, <2>1 DEF CachedTrue, WorkTrue
<1>9. CASE C6!TakeReadyEdge
  BY <1>8, <1>9 DEF C6!TakeReadyEdge, AckInv
<1>10. CASE C6!TakeEvent
  <2> DEFINE e == Head(events)
  <2>1. events \in Seq(C6!Event) /\ events # <<>>
    BY <1>10 DEF C6!TakeEvent, C6Data, QueueData
  <2>2. e = events[1] /\ 1 \in 1 .. Len(events)
    BY <2>1, Tails
  <2>3. CASE C6!Snapshot(e.frame)
    BY <1>8, <2>3 DEF AckInv
  <2>4. CASE e.kind = "CONTROL" /\ C6!GoSend(e.control, FALSE)
    <3>1. work'.pc = "send" /\ work'.control = e.control
      BY <2>4 DEF C6!GoSend
    <3>2. e.control.state # "SERVER_ACKED"
      BY <2>2, <2>4 DEF AckInv, EventsSilent
    <3>3. QED
      BY <3>1, <3>2 DEF WorkTrue, True
  <2>5. CASE work' = C6!At("idle")
    BY <1>3, <2>5 DEF C6!At
  <2>6. QED
    BY <1>10, <2>3, <2>4, <2>5 DEF C6!TakeEvent
<1>11. CASE C6!Answer
  <2>1. /\ work'.pc = "send"
        /\ \/ work'.control.state \in {"BUSY", "READY", "NOT_READY"}
           \/ work'.control = work.terminal /\ work.terminal # None
    BY <1>11, AnswersType
  <2>2. work.pc = "answer"
    BY <1>11 DEF C6!Answer
  <2>3. CASE work'.control = work.terminal /\ work.terminal # None
    BY <1>1, <2>1, <2>2, <2>3 DEF AckInv, WorkTrue
  <2>4. CASE work'.control.state # "SERVER_ACKED"
    BY <2>1, <2>4 DEF WorkTrue, True
  <2>5. QED
    BY <2>1, <2>3, <2>4
<1>12. CASE C6!CheckTimeout
  BY <1>12, WorkSilent DEF C6!CheckTimeout
<1>13. CASE RxGets
  BY <1>2, <1>13 DEF RxGets, C6!BadChunk, C6!QueryArrives, C6!ChunkArrives,
    C6!TimeQueryArrives
<1>14. CASE C6!RxStep
  BY <1>2, <1>14 DEF C6!RxStep, C6!TakeChunk, C6!Verify, C6!Complete, C6!EnqueueReply
<1>15. CASE SourceRuns \/ C6!Tick
  BY <1>2, <1>15 DEF SourceRuns, C6!SourceFinishes, C6!SourceReports, C6!ReadyChanges,
    C6!Tick
<1>16. CASE C6Reset
  BY <1>3, <1>16 DEF C6Reset, C6!At
<1>17. CASE AnswerLeaves \/ UNCHANGED <<c6Vars, toP4>>
  BY <1>2, <1>17 DEF AnswerLeaves, c6Vars
<1>18. QED
  BY <1>4, <1>5, <1>6, <1>7, <1>9, <1>10, <1>11, <1>12, <1>13, <1>14, <1>15, <1>16,
    <1>17 DEF C6Step, RxRuns, C6!WorkStep

LEMMA AnswersNext ==
  ASSUME C6Data, AckInv, C6Step, PendingShrinks
  PROVE  AnswersTrue'
<1>1. \A c : True(c) => True(c)'
  BY PastKept DEF True
<1>2. ASSUME UNCHANGED toP4
      PROVE  AnswersTrue'
  BY <1>1, <1>2 DEF AckInv, AnswersTrue
<1>3. ASSUME NEW m \in C6!Control \cup C6!Sample, IsSample(m) \/ True(m), C6!Send(m)
      PROVE  AnswersTrue'
  <2>1. \A n \in 1 .. Len(toP4') :
          toP4'[n] = m \/ \E k \in 1 .. Len(toP4) : toP4'[n] = toP4[k]
    BY <1>3, Sends DEF C6Data
  <2>2. ASSUME NEW n \in 1 .. Len(toP4'), NEW c, c = toP4'[n], ~IsSample(c)
        PROVE  True(c)'
    BY <1>1, <1>3, <2>1, <2>2 DEF AckInv, AnswersTrue
  <2>3. QED
    BY <2>2 DEF AnswersTrue
<1>4. \A m \in C6!Sample : IsSample(m)
  BY DEF IsSample, C6!Sample
<1>5. CASE C6!TakeLifecycle
  <2>1. lifecycle \in C6!Lifecycle
    BY <1>5 DEF C6!TakeLifecycle, C6Data, QueueData
  <2>2. lifecycle.kind \in {"FRAME_COMPLETE", "BLE_FRAME_DONE", "BLE_TIME_DONE"}
    BY <2>1 DEF C6!Lifecycle
  <2>3. CASE lifecycle.kind = "BLE_TIME_DONE"
    <3>1. lifecycle.sample \in C6!Sample /\ C6!Send(lifecycle.sample)
      BY <1>5, <2>1, <2>3 DEF C6!Lifecycle, C6!TakeLifecycle, C6!TimeDone
    <3>2. QED
      BY <1>3, <1>4, <3>1
  <2>4. QED
    BY <1>2, <1>5, <2>2, <2>3 DEF C6!TakeLifecycle, C6!BeginSubmit, C6!FrameDone
<1>6. CASE C6!SendControl
  <2>1. work.control \in C6!Control /\ True(work.control) /\ C6!Send(work.control)
    BY <1>6 DEF C6!SendControl, C6Data, WorkData, AckInv, WorkTrue
  <2>2. QED
    BY <1>3, <2>1
<1>7. CASE C6!PushReady
  <2> DEFINE m == C6!Msg("READY", 0, 0, 0)
  <2>1. m \in C6!Control /\ m.state = "READY"
    BY LinkAssumption, Messages DEF AnyBle
  <2> HIDE DEF m
  <2>2. True(m)
    BY <2>1 DEF True
  <2>3. C6!Send(m) \/ UNCHANGED toP4
    BY <1>7 DEF C6!PushReady, m
  <2>4. QED
    BY <1>2, <1>3, <2>1, <2>2, <2>3
<1>8. CASE C6!TakeEvent
  <2> DEFINE e == Head(events)
  <2>1. events \in Seq(C6!Event) /\ events # <<>>
    BY <1>8 DEF C6!TakeEvent, C6Data, QueueData
  <2>2. e \in C6!Event
    BY <2>1, Tails
  <2>3. CASE e.kind = "SAMPLE" /\ C6!Send(e.sample)
    BY <1>3, <1>4, <2>2, <2>3 DEF C6!Event
  <2>4. QED
    BY <1>2, <1>8, <2>3 DEF C6!TakeEvent
<1>9. CASE C6!Submit \/ C6!Submitted \/ C6!TakeReadyEdge \/ C6!Answer \/ C6!CheckTimeout
  BY <1>2, <1>9 DEF C6!Submit, C6!Submitted, C6!TakeReadyEdge, C6!Answer, C6!CheckTimeout
<1>10. CASE RxGets
  BY <1>2, <1>10 DEF RxGets, C6!BadChunk, C6!QueryArrives, C6!ChunkArrives,
    C6!TimeQueryArrives
<1>11. CASE C6!RxStep
  BY <1>2, <1>11 DEF C6!RxStep, C6!TakeChunk, C6!Verify, C6!Complete, C6!EnqueueReply
<1>12. CASE SourceRuns \/ C6!Tick
  BY <1>2, <1>12 DEF SourceRuns, C6!SourceFinishes, C6!SourceReports, C6!ReadyChanges,
    C6!Tick
<1>13. CASE C6Reset
  BY <1>13 DEF C6Reset, AnswersTrue
<1>14. CASE AnswerLeaves
  <2>1. toP4 \in Seq(C6!Control \cup C6!Sample) /\ toP4 # <<>> /\ toP4' = Tail(toP4)
    BY <1>14 DEF AnswerLeaves, C6Data, QueueData
  <2>2. \A n \in 1 .. Len(toP4') :
          toP4'[n] = toP4[n + 1] /\ n + 1 \in 1 .. Len(toP4)
    BY <2>1, Tails
  <2>3. ASSUME NEW n \in 1 .. Len(toP4'), NEW c, c = toP4'[n], ~IsSample(c)
        PROVE  True(c)'
    BY <1>1, <2>2, <2>3 DEF AckInv, AnswersTrue
  <2>4. QED
    BY <2>3 DEF AnswersTrue
<1>15. CASE UNCHANGED <<c6Vars, toP4>>
  BY <1>2, <1>15
<1>16. QED
  BY <1>5, <1>6, <1>7, <1>8, <1>9, <1>10, <1>11, <1>12, <1>13, <1>14, <1>15
  DEF C6Step, RxRuns, C6!WorkStep

AckedInv == C6Inv /\ OnePlace /\ AckInv

LEMMA AckedInvariant == Spec => []AckedInv
<1>1. Init => AckedInv
  BY P4Init, C6Init, PlaceInit, AckInit DEF C6Inv, AckedInv
<1>2. AckedInv /\ [Next]_vars => AckedInv'
  <2> SUFFICES ASSUME AckedInv, [Next]_vars PROVE AckedInv'
    OBVIOUS
  <2>1. C6Step /\ C6Inv'
    BY NextIsC6Step, P4Next, C6DataNext, TokenNext, BufferNext DEF C6Inv, AckedInv
  <2>2. OnePlace' /\ PendingShrinks
    BY PlaceNext DEF AckedInv, C6Inv
  <2>3. FirstPast'
    BY <2>1, <2>2, FirstNext DEF AckedInv, C6Inv, AckInv
  <2>4. DoneTrue(finished)' /\ DoneTrue(lifecycle)'
    BY <2>1, DoneNext DEF AckedInv, C6Inv, AckInv
  <2>5. CachedTrue' /\ WorkTrue' /\ EventsSilent' /\ AnswersTrue'
    BY <2>1, <2>2, CachedNext, WorkTrueNext, EventsNext, AnswersNext
    DEF AckedInv, C6Inv, AckInv
  <2>6. QED
    BY <2>1, <2>2, <2>3, <2>4, <2>5 DEF AckedInv, AckInv
<1>3. QED
  BY <1>1, <1>2, PTL DEF Spec

\* The P4 takes a frame for acknowledged only when it hears so of that frame.
LEMMA AckedStep ==
  ASSUME C6Inv, AckInv, [Next]_vars,
         reserved # 0, reserved' = 0, remote' = "SERVER_ACKED"
  PROVE  reserved \in acked
<1>1. CASE Hear
  <2> DEFINE m == Head(toP4)
  <2>1. toP4 \in Seq(C6!Control \cup C6!Sample) /\ toP4 # <<>>
    BY <1>1 DEF Hear, C6Inv, C6Data, QueueData
  <2>2. m = toP4[1] /\ 1 \in 1 .. Len(toP4) /\ m \in C6!Control \cup C6!Sample
    BY <2>1, Tails
  <2>3. CASE IsSample(m)
    BY <1>1, <2>3 DEF Hear, P4!HearSample, P4!reservation
  <2>4. CASE ~IsSample(m)
    <3>1. m \in C6!Control
      BY <2>2, <2>4, Samples
    <3>2. P4!HearControl(m) /\ True(m)
      BY <1>1, <2>2, <2>4 DEF Hear, AckInv, AnswersTrue
    <3>3. m.state \in {"READY", "NOT_READY", "BUSY", "ACCEPTED", "SERVER_ACKED", "FAILED"}
      BY <3>1 DEF C6!Control, C6!Final
    <3> HIDE DEF m
    <3>4. ~P4!HearReady /\ ~P4!HearAccepted(m)
      BY DEF P4!HearReady, P4!HearAccepted, P4!Ignored, P4!reservation
    <3>5. ~P4!HearNotReady(m) /\ ~P4!HearBusy(m)
      BY DEF P4!HearNotReady, P4!HearBusy, P4!Released, P4!reservation
    <3>6. P4!HearFinal(m)
      BY <3>2, <3>3, <3>4, <3>5 DEF P4!HearControl
    <3>7. m.frame = reserved /\ m.state = "SERVER_ACKED"
      BY <3>6 DEF P4!HearFinal, P4!Concerns, P4!Released, P4!Ignored, P4!reservation
    <3>8. QED
      BY <3>2, <3>7 DEF True, TruePast
  <2>5. QED
    BY <2>3, <2>4
<1>2. CASE Deliver \/ DeliverDamaged
  BY <1>2 DEF Deliver, DeliverDamaged, P4!Sent, P4!reservation
<1>3. CASE Fault \/ TransportUp \/ TransportDown \/ HearStart
  BY <1>3 DEF Fault, TransportUp, TransportDown, HearStart, P4!SendFails, P4!MarkDown,
    P4!TransportUp, P4!TransportDown, P4!C6Initialized, P4!Forget
<1>4. CASE Submits \/ AppQueues
  BY <1>4 DEF Submits, AppQueues, P4!SubmitEvent, P4!QueueJob, P4!reservation
<1>5. CASE P4Works
  BY <1>5 DEF P4Works, P4!TxStep, P4!ShouldQuery, P4!Query, P4!PrepareTime, P4!TakeJob,
    P4!CheckJob, P4!ReleaseForQuery, P4!MarkComplete, P4!reservation
<1>6. ~(UNCHANGED p4Vars)
  BY DEF p4Vars
<1>7. QED
  BY <1>1, <1>2, <1>3, <1>4, <1>5, <1>6
  DEF Next, vars, LoseAnswer, C6Restarts, MeshComes, MeshGoes, RxWorks, StatusWorks,
    SourceFinishes, SourceReports, Silence

\* Only SERVER_ACKED means that the server has the frame: whatever the caches
\* and queues of both chips still hold, and whatever is lost, damaged, sent
\* twice or forgotten in a restart, the P4 ends a reservation with
\* SERVER_ACKED only for a frame that the BLE source has reported acknowledged
\* (control_message_callback, cache_terminal_control, reply_to_query).
THEOREM AckedIsAcked == Spec => AckedMeansAcked
<1>1. AckedInv /\ [Next]_vars =>
        [reserved # 0 /\ reserved' = 0 /\ remote' = "SERVER_ACKED"
           => reserved \in acked]_vars
  BY AckedStep DEF AckedInv
<1>2. QED
  BY <1>1, AckedInvariant, PTL DEF Spec, AckedMeansAcked
=============================================================================
