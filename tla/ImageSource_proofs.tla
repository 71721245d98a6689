-------------------------- MODULE ImageSource_proofs --------------------------
(***************************************************************************)
(* Proofs about the C6's image source, for every set of images, frame IDs  *)
(* and request IDs, every chunk size and every number of retries: the      *)
(* gateway may answer anything at any time.                                *)
(***************************************************************************)
EXTENDS ImageSource, TLAPS

\* The two parts of TypeOK: the flags, and everything else.
Flags ==
  /\ ready \in BOOLEAN /\ faulty \in BOOLEAN /\ outstanding \in BOOLEAN
  /\ expired \in BOOLEAN /\ active \in BOOLEAN /\ giving \in BOOLEAN

DataType ==
  /\ nextFrame \in FrameId
  /\ queue \in Job \cup {NoJob}
  /\ job \in Job \cup {NoJob}
  /\ pc \in {"idle", "begin", "drain", "reset", "send", "wait", "read",
             "accepted", "data", "poll", "repair", "timeSend", "timeWait",
             "timeRead", "finish", "flush", "release", "report", "restart"}
  /\ phase \in {"open", "end"}
  /\ restarts \in 0 .. SessionRestarts - 1
  /\ round \in Nat
  /\ chunk \in Chunk \cup {0}
  /\ status \in {"ok", "error"}
  /\ route \in {"none", "current", "stale"}
  /\ response \in Response \cup {"NONE"}
  /\ nacks \subseteq Chunk
  /\ timeAnswer \in {"none", "ok", "unavailable"}
  /\ sem \in {0, 1}

\* Where the worker has an image job, a clock query, and an active frame or
\* query that callbacks may answer.
ImagePc == {"drain", "reset", "send", "wait", "read", "accepted", "data",
            "poll", "repair"}
TimePc == {"timeSend", "timeWait", "timeRead"}
ActivePc == ImagePc \cup TimePc \cup {"finish"}

\* The job fits the step the worker is at, and active is set in exactly the
\* steps between begin_active_... and the critical section that ends it.
JobFitsStep ==
  /\ pc \in ImagePc => job \in ImageJob
  /\ pc \in TimePc => job \in TimeJob
  /\ pc \in ActivePc \cup {"begin", "flush", "release", "report"} => job \in Job
  /\ pc \in {"idle", "restart"} => job = NoJob
  /\ active <=> pc \in ActivePc

\* From the moment the mailbox is emptied a stored response has its wakeup:
\* the drain of the semaphore came before.
WakeupKept ==
  /\ pc \in {"send", "wait"} /\ response # "NONE" => sem = 1 \/ giving
  /\ pc \in {"timeSend", "timeWait"} /\ timeAnswer # "none" => sem = 1 \/ giving

SourceInv ==
  /\ DataType
  /\ JobFitsStep
  /\ OneJobAtATime
  /\ WakeupKept
  /\ faulty => ~ready

-----------------------------------------------------------------------------
(* Chunks of an image *)

LEMMA ChunkCountType ==
  ASSUME NEW len \in Nat \ {0}
  PROVE  ChunkCount(len) \in Nat \ {0}
<1> DEFINE a == len + SourceDataBytes - 1
<1>1. a \in Nat /\ a >= SourceDataBytes
  BY SourceAssumption
<1>2. /\ a \div SourceDataBytes \in Nat
      /\ a < SourceDataBytes * (a \div SourceDataBytes) + SourceDataBytes
  BY <1>1, SourceAssumption
<1>3. a \div SourceDataBytes # 0
  BY <1>1, <1>2, SourceAssumption
<1>4. QED
  BY <1>2, <1>3 DEF ChunkCount

\* A chunk index below the count of the job's image is one of the chunks.
LEMMA ChunkOfJob ==
  ASSUME NEW j \in ImageJob
  PROVE  /\ ChunkCount(j.desc.len) \in Nat \ {0}
         /\ 0 .. ChunkCount(j.desc.len) - 1 \subseteq Chunk
<1>1. j.desc \in Image /\ j.desc.len \in Nat \ {0}
  BY SourceAssumption DEF ImageJob
<1>2. QED
  BY <1>1, ChunkCountType DEF Chunk

LEMMA ChunkIsNat == Chunk \subseteq Nat
<1>1. ASSUME NEW d \in Image
      PROVE  0 .. ChunkCount(d.len) - 1 \subseteq Nat
  BY ChunkCountType, SourceAssumption
<1>2. QED
  BY <1>1 DEF Chunk

\* The image or clock job is known by its kind.
LEMMA JobKinds ==
  ASSUME NEW j \in Job
  PROVE  /\ j.kind = "image" => j \in ImageJob
         /\ j.kind # "image" => j \in TimeJob
         /\ j # NoJob
BY NoJobAssumption DEF Job, ImageJob, TimeJob

LEMMA FrameAfterType ==
  ASSUME NEW f \in FrameId
  PROVE  FrameAfter(f) \in FrameId
BY SourceAssumption DEF FrameAfter, FrameId

-----------------------------------------------------------------------------
(* The flags *)

LEMMA FlagsInit == Init => Flags
BY DEF Init, Flags

LEMMA FlagsNext == Flags /\ [Next]_sourceVars => Flags'
<1> SUFFICES ASSUME Flags, [Next]_sourceVars PROVE Flags'
  OBVIOUS
<1> USE DEF Flags, progress, mailbox, link, owner
<1>1. CASE Worker
  BY <1>1 DEF Worker, Take, Begin, Clear, Send, SendDone, SendRefused,
    SendFault, Woken, WaitTimeout, Read, Accepted, Poll, Repaired, TimeRead,
    Finish, Flush, Release, Report
<1>2. CASE Give \/ RouteChange \/ Expire \/ \E seed \in FrameId : Restart(seed)
  BY <1>2 DEF Give, RouteChange, Expire, Restart
<1>3. ASSUME NEW j, Enqueue(j) PROVE Flags'
  BY <1>3 DEF Enqueue
<1>4. ASSUME \/ \E r \in GatewayReply : RespondImage(r)
             \/ \E id \in TimeId, a \in {"ok", "unavailable"} : RespondTime(id, a)
      PROVE  Flags'
  BY <1>4 DEF RespondImage, RespondTime
<1>5. CASE UNCHANGED sourceVars
  BY <1>5 DEF sourceVars
<1>6. QED
  BY <1>1, <1>2, <1>3, <1>4, <1>5 DEF Next, Submit, RequestTime

-----------------------------------------------------------------------------
(* The inductive invariant *)

LEMMA InitInv == Init => SourceInv
BY SourceAssumption DEF Init, SourceInv, DataType, JobFitsStep, OneJobAtATime,
  WakeupKept, Holding, ImagePc, TimePc, ActivePc

LEMMA WorkerInv == SourceInv /\ Worker => SourceInv'
<1> SUFFICES ASSUME SourceInv, Worker PROVE SourceInv'
  OBVIOUS
<1> USE DEF SourceInv, DataType, JobFitsStep, OneJobAtATime, WakeupKept,
          Holding, ImagePc, TimePc, ActivePc, progress, owner, link, mailbox
<1>1. CASE Take
  BY <1>1, NoJobAssumption DEF Take
<1>2. CASE Begin
  BY <1>2, JobKinds, SourceAssumption DEF Begin
<1>3. CASE Clear
  BY <1>3 DEF Clear, Cleared, Goto
<1>4. CASE SendDone
  BY <1>4 DEF SendDone, Sending, PopNack, Goto
<1>5. CASE SendRefused \/ SendFault
  BY <1>5 DEF SendRefused, SendFault, Sending, PopNack, FinishWith
<1>6. CASE Woken \/ WaitTimeout
  BY <1>6 DEF Woken, WaitTimeout, Waiting, AfterWait, Goto
<1>7. CASE Read
  BY <1>7, SourceAssumption DEF Read, ReadOpen, ReadEnd, StartAgain, NextRound,
    Goto, FinishWith
<1>8. CASE Accepted \/ Repaired
  BY <1>8 DEF Accepted, Repaired, Goto
<1>9. CASE Poll
  BY <1>9, SourceAssumption, ChunkOfJob, ChunkIsNat
  DEF Poll, Interrupt, StartAgain, FinishWith
<1>10. CASE TimeRead \/ Finish
  BY <1>10 DEF TimeRead, Finish, FinishWith
<1>11. CASE Flush \/ Release \/ Report
  BY <1>11 DEF Flush, Release, Report, Goto
<1>12. QED
  BY <1>1, <1>2, <1>3, <1>4, <1>5, <1>6, <1>7, <1>8, <1>9, <1>10, <1>11
  DEF Worker, Send

LEMMA EnqueueInv ==
  ASSUME SourceInv, NEW j \in Job, Enqueue(j), nextFrame' \in FrameId
  PROVE  SourceInv'
BY JobKinds DEF SourceInv, DataType, JobFitsStep, OneJobAtATime,
  WakeupKept, Holding, ImagePc, TimePc, ActivePc, Enqueue, progress, link,
  mailbox

LEMMA RespondImageInv ==
  ASSUME SourceInv, NEW r \in GatewayReply, RespondImage(r)
  PROVE  SourceInv'
BY JobKinds, ChunkOfJob DEF SourceInv, DataType, JobFitsStep, OneJobAtATime,
  WakeupKept, Holding, ImagePc, TimePc, ActivePc, RespondImage,
  FitsFrame, Stored, Requested, GatewayReply, Response, progress, owner, link

LEMMA RespondTimeInv ==
  ASSUME SourceInv, NEW id \in TimeId, NEW a \in {"ok", "unavailable"},
         RespondTime(id, a)
  PROVE  SourceInv'
BY DEF SourceInv, DataType, JobFitsStep, OneJobAtATime, WakeupKept, Holding,
  ImagePc, TimePc, ActivePc, RespondTime, FitsTime, progress, owner, link

LEMMA OutsideInv ==
  ASSUME SourceInv,
         \/ Give \/ RouteChange \/ Expire \/ \E seed \in FrameId : Restart(seed)
  PROVE  SourceInv'
<1> USE DEF SourceInv, DataType, JobFitsStep, OneJobAtATime, WakeupKept,
          Holding, ImagePc, TimePc, ActivePc, progress, owner, link, mailbox
<1>1. CASE Give
  BY <1>1 DEF Give
<1>2. CASE RouteChange
  <2>1. faulty => ~ready'
    BY <1>2, Zenon DEF RouteChange
  <2>2. QED
    BY <1>2, <2>1 DEF RouteChange
<1>3. CASE Expire
  BY <1>3 DEF Expire
<1>4. CASE \E seed \in FrameId : Restart(seed)
  BY <1>4, SourceAssumption DEF Restart
<1>5. QED
  BY <1>1, <1>2, <1>3, <1>4

LEMMA NextInv == SourceInv /\ [Next]_sourceVars => SourceInv'
<1> SUFFICES ASSUME SourceInv, [Next]_sourceVars PROVE SourceInv'
  OBVIOUS
<1>1. ASSUME NEW d \in Image, Submit(d) PROVE SourceInv'
  <2>1. nextFrame \in FrameId /\ nextFrame' \in FrameId
    BY <1>1, FrameAfterType DEF Submit, SourceInv, DataType
  <2> DEFINE j == [kind |-> "image", frame |-> nextFrame, desc |-> d]
  <2>2. j \in Job
    BY <2>1 DEF Job, ImageJob
  <2>3. Enqueue(j)
    BY <1>1 DEF Submit
  <2> HIDE DEF j
  <2>4. QED
    BY <2>1, <2>2, <2>3, EnqueueInv
<1>2. ASSUME NEW id \in TimeId, RequestTime(id) PROVE SourceInv'
  <2> DEFINE j == [kind |-> "time", id |-> id]
  <2>1. j \in Job
    BY DEF Job, TimeJob
  <2>2. Enqueue(j) /\ nextFrame' \in FrameId
    BY <1>2 DEF RequestTime, SourceInv, DataType
  <2> HIDE DEF j
  <2>3. QED
    BY <2>1, <2>2, EnqueueInv
<1>3. CASE UNCHANGED sourceVars
  BY <1>3 DEF sourceVars, SourceInv, DataType, JobFitsStep, OneJobAtATime,
    WakeupKept, Holding, ImagePc, TimePc, ActivePc
<1>4. QED
  BY <1>1, <1>2, <1>3, WorkerInv, RespondImageInv, RespondTimeInv, OutsideInv
  DEF Next

LEMMA SourceInvariant == Spec => []SourceInv
BY InitInv, NextInv, PTL DEF Spec

-----------------------------------------------------------------------------
(* Safety *)

\* Every variable keeps to its type: the chunk counter and the bitmap of
\* requested chunks stay within the JPEG whatever a NACK asks for, and the
\* session restarts within their limit.
THEOREM TypeCorrect == Spec => []TypeOK
<1>1. Spec => []Flags
  BY FlagsInit, FlagsNext, PTL DEF Spec
<1>2. Flags /\ SourceInv => TypeOK
  BY DEF Flags, SourceInv, DataType, TypeOK
<1>3. QED
  BY <1>1, <1>2, SourceInvariant, PTL

\* outstanding covers the worker's job and the queue: between them they hold
\* one job, so that the queue of one has room whenever submit finds the
\* source free (submit, publish_frame_done).
THEOREM OneJobIsHeld == Spec => []OneJobAtATime
<1>1. SourceInv => OneJobAtATime
  BY DEF SourceInv
<1>2. QED
  BY <1>1, SourceInvariant, PTL

\* The order of clear_gateway_response, semaphore first and mailbox second,
\* lets no response wait unseen while the worker sleeps.
THEOREM WakeupIsNotLost == Spec => []NoLostWakeup
<1>1. SourceInv => NoLostWakeup
  BY DEF SourceInv, WakeupKept, NoLostWakeup
<1>2. QED
  BY <1>1, SourceInvariant, PTL

\* mark_transport_fault keeps the source silent until it restarts, whatever
\* the configuration callbacks do to the readiness in between.
THEOREM FaultKeepsQuiet == Spec => []QuietAfterFault
<1>1. SourceInv => QuietAfterFault
  BY DEF SourceInv, QuietAfterFault, MaySend
<1>2. QED
  BY <1>1, SourceInvariant, PTL

\* store_gateway_response ranks the answers: outside the worker a terminal
\* response is only ever cleared by a restart.
THEOREM TerminalResponsesKept == Spec => ResponsePriority
<1> DEFINE Kept ==
      \/ response \notin {"COMPLETE", "REJECT", "RESTART"}
      \/ response = "RESTART" /\ response' \in {"COMPLETE", "REJECT"}
      \/ \E seed \in FrameId : Restart(seed)
<1>1. [Next]_sourceVars /\ response' # response /\ ~Worker => Kept
  <2> SUFFICES ASSUME Next, response' # response, ~Worker PROVE Kept
    BY DEF sourceVars
  <2>1. CASE Give \/ RouteChange \/ Expire
    BY <2>1 DEF Give, RouteChange, Expire, mailbox
  <2>2. ASSUME NEW j, Enqueue(j) PROVE FALSE
    BY <2>2 DEF Enqueue, mailbox
  <2>3. ASSUME NEW r \in GatewayReply, RespondImage(r) PROVE Kept
    BY <2>3 DEF RespondImage, Stored
  <2>4. ASSUME NEW id \in TimeId, NEW a, RespondTime(id, a) PROVE FALSE
    BY <2>4 DEF RespondTime
  <2>5. QED
    BY <2>1, <2>2, <2>3, <2>4 DEF Next, Submit, RequestTime
<1>2. [Next]_sourceVars => [response' # response /\ ~Worker => Kept]_sourceVars
  BY <1>1
<1>3. QED
  BY <1>2, PTL DEF Spec, ResponsePriority
=============================================================================
