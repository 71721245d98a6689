----------------------------- MODULE ImageSource -----------------------------
(***************************************************************************)
(* The C6's BLE Mesh image source, ble_mesh_image_source.c: one worker     *)
(* task that takes one image or clock job at a time from a one-slot queue  *)
(* and drives it over the Mesh, and the Bluetooth task whose callbacks     *)
(* hand it the gateway's responses through a one-place mailbox and a       *)
(* binary semaphore.                                                       *)
(*                                                                         *)
(* What the network does is left to the environment: the worker's Outgoing *)
(* message is sent by SendDone, and RespondImage and RespondTime are the   *)
(* arrival of a response.  The retries inside send_mesh_message are one    *)
(* step with three outcomes: sent, refused, or no completion (a fault).    *)
(* BUSY's jittered delay only takes time and is not modelled.              *)
(*                                                                         *)
(* A definition named Bug... is a plausible mistake in the one below it;   *)
(* nothing uses it but the checks that some property would notice it.      *)
(***************************************************************************)
EXTENDS Integers, FiniteSets, Sequences

CONSTANTS
  LastFrame,        \* the largest BLE frame ID; 65535 in the code
  TimeId,           \* request IDs of clock queries
  Image,            \* descriptors [detected, len, crc] of submitted JPEGs
  Bytes,            \* Bytes[c][i]: content of chunk i of the image with CRC c
  SourceDataBytes,  \* BLE_MESH_IMAGE_DATA_BYTES
  OpenAttempts,     \* OPEN_ATTEMPTS
  RepairRounds,     \* REPAIR_ROUNDS
  SessionRestarts,  \* SESSION_RESTARTS
  NackBase,         \* base indexes and
  NackBit,          \* bit positions a NACK may carry
  NoJob

ASSUME SourceAssumption ==
  /\ LastFrame \in Nat \ {0}
  /\ TimeId \subseteq Nat
  /\ \A d \in Image : d.len \in Nat \ {0}
  /\ SourceDataBytes \in Nat \ {0}
  /\ OpenAttempts \in Nat \ {0}
  /\ RepairRounds \in Nat \ {0}
  /\ SessionRestarts \in Nat \ {0}
  /\ NackBase \subseteq Nat /\ NackBit \subseteq Nat

FrameId == 1 .. LastFrame

ImageJob == [kind : {"image"}, frame : FrameId, desc : Image]
TimeJob == [kind : {"time"}, id : TimeId]
Job == ImageJob \cup TimeJob

ASSUME NoJobAssumption == NoJob \notin Job

Response == {"ACCEPT", "BUSY", "COMPLETE", "NACK", "RESTART", "REJECT"}

\* The responses custom_model_callback parses
GatewayReply ==
  [op : Response \ {"NACK"}, frame : FrameId]
    \cup [op : {"NACK"}, frame : FrameId, base : NackBase,
          bits : SUBSET NackBit]

VARIABLES
  ready,        \* s_ready
  faulty,       \* s_transport_restart_pending
  outstanding,  \* s_outstanding
  nextFrame,    \* s_next_frame_id
  queue,        \* s_job_queue
  pc,           \* where source_worker is
  job,          \* the job it took
  phase,        \* "open" or "end": which request it is waiting on
  restarts,     \* how often the gateway made it start again
  round,        \* OPEN attempt or repair round
  chunk,        \* next chunk of the first pass
  status,       \* err
  expired,      \* the job's deadline has passed
  route,        \* the worker's snapshot: "none", "current" or "stale"
  active,       \* s_active or s_time_active
  response,     \* s_gateway_response
  nacks,        \* s_nack_bitmap
  timeAnswer,   \* s_time_response
  sem,          \* s_response_sem: 0 or 1
  giving        \* a callback stored its response, xSemaphoreGive is due

progress == <<phase, restarts, round, chunk>>
mailbox == <<response, nacks, timeAnswer, sem, giving>>
link == <<ready, faulty, route>>
owner == <<outstanding, nextFrame, queue, job>>

sourceVars == <<ready, faulty, outstanding, nextFrame, queue, pc, job, phase,
                restarts, round, chunk, status, expired, route, active,
                response, nacks, timeAnswer, sem, giving>>

Init ==
  /\ ready \in BOOLEAN /\ faulty = FALSE /\ route = "none"
  /\ outstanding = FALSE /\ nextFrame \in FrameId
  /\ queue = NoJob /\ job = NoJob
  /\ pc = "idle" /\ phase = "open"
  /\ restarts = 0 /\ round = 0 /\ chunk = 0
  /\ status = "error" /\ expired = FALSE
  /\ active = FALSE /\ response = "NONE" /\ nacks = {}
  /\ timeAnswer = "none" /\ sem = 0 /\ giving = FALSE

-----------------------------------------------------------------------------
(* The image and its messages *)

\* image_chunk_count
ChunkCount(len) == (len + SourceDataBytes - 1) \div SourceDataBytes

\* copy_len of send_chunk
CopyLen(len, i) ==
  IF len - i * SourceDataBytes > SourceDataBytes THEN SourceDataBytes
  ELSE len - i * SourceDataBytes

OpenMessage ==
  [op |-> "OPEN", frame |-> job.frame, detected |-> job.desc.detected,
   len |-> job.desc.len, crc |-> job.desc.crc]

DataMessage(i) ==
  [op |-> "DATA", frame |-> job.frame, index |-> i,
   len |-> CopyLen(job.desc.len, i), data |-> Bytes[job.desc.crc][i]]

EndMessage == [op |-> "END", frame |-> job.frame]

\* pop_pending_nack: the lowest chunk asked for.
FirstNack == CHOOSE i \in nacks : \A j \in nacks : i <= j

\* The message send_mesh_message is sending.
Outgoing ==
  CASE pc = "send" /\ phase = "open" -> OpenMessage
    [] pc = "send" /\ phase = "end" -> EndMessage
    [] pc = "data" -> DataMessage(chunk)
    [] pc = "repair" -> DataMessage(FirstNack)
    [] pc = "timeSend" -> [op |-> "TIME_REQUEST", id |-> job.id]

-----------------------------------------------------------------------------
(* The application: submit and request_time, from the SDIO tasks *)

\* Frame ID 0 is skipped when the counter wraps.
FrameAfter(f) == IF f = LastFrame THEN 1 ELSE f + 1

BugEnqueue(j) ==
  /\ ready
  /\ IF queue = NoJob THEN queue' = j /\ outstanding' = TRUE
                      ELSE UNCHANGED <<queue, outstanding>>
  /\ UNCHANGED <<job, pc, progress, status, expired, link, active, mailbox>>

\* A job is taken over if the worker is free; a full queue gives it back.
Enqueue(j) ==
  /\ ready /\ ~outstanding
  /\ IF queue = NoJob THEN queue' = j /\ outstanding' = TRUE
                      ELSE UNCHANGED <<queue, outstanding>>
  /\ UNCHANGED <<job, pc, progress, status, expired, link, active, mailbox>>

\* Image holds the sizes that submit accepts.
Submit(d) ==
  /\ Enqueue([kind |-> "image", frame |-> nextFrame, desc |-> d])
  /\ nextFrame' = FrameAfter(nextFrame)

RequestTime(id) ==
  /\ Enqueue([kind |-> "time", id |-> id])
  /\ UNCHANGED nextFrame

-----------------------------------------------------------------------------
(* The worker *)

Goto(label) ==
  /\ pc' = label
  /\ UNCHANGED <<progress, status>>

\* The job ends, with or without an acknowledgement.
FinishWith(s) ==
  /\ pc' = "finish"
  /\ status' = s
  /\ UNCHANGED progress

\* xQueueReceive and snapshot_route; with no route the job fails at once.
\* Otherwise the drain of the semaphore that begins the active frame.
Take ==
  /\ pc = "idle"
  /\ queue # NoJob
  /\ job' = queue
  /\ queue' = NoJob
  /\ expired' = FALSE
  /\ status' = "error"
  /\ IF ready THEN pc' = "begin" /\ route' = "current" /\ sem' = 0
              ELSE pc' = "release" /\ UNCHANGED <<route, sem>>
  /\ UNCHANGED <<ready, faulty, outstanding, nextFrame, progress, active,
                 response, nacks, timeAnswer, giving>>

\* begin_active_frame or begin_active_time
Begin ==
  /\ pc = "begin"
  /\ active' = TRUE
  /\ IF job.kind = "image"
     THEN /\ pc' = "drain"
          /\ phase' = "open" /\ restarts' = 0 /\ round' = 0 /\ chunk' = 0
          /\ response' = "NONE" /\ nacks' = {}
          /\ UNCHANGED timeAnswer
     ELSE /\ pc' = "timeSend"
          /\ timeAnswer' = "none"
          /\ UNCHANGED <<progress, response, nacks>>
  /\ UNCHANGED <<owner, status, expired, link, sem, giving>>

BugCleared(label) == IF label = "drain" THEN "mailbox" ELSE "semaphore"

\* clear_gateway_response drains the semaphore first and empties the mailbox
\* next: a response stored in between is lost, a wakeup is not.
Cleared(label) == IF label = "drain" THEN "semaphore" ELSE "mailbox"

Clear ==
  /\ pc \in {"drain", "reset"}
  /\ IF Cleared(pc) = "semaphore" THEN sem' = 0 /\ UNCHANGED response
                                  ELSE response' = "NONE" /\ UNCHANGED sem
  /\ Goto(IF pc = "drain" THEN "reset" ELSE "send")
  /\ UNCHANGED <<owner, expired, link, active, nacks, timeAnswer, giving>>

Sending ==
  \/ pc \in {"send", "data", "timeSend"}
  \/ pc = "repair" /\ nacks # {}

BugMaySend == ready /\ route = "current"

\* The deadline and route_still_matches, before every attempt to send.
MaySend == ~expired /\ ready /\ route = "current"

\* A chunk asked for is sent once.
PopNack == nacks' = IF pc = "repair" THEN nacks \ {FirstNack} ELSE nacks

SendDone ==
  /\ Sending /\ MaySend
  /\ Goto(CASE pc = "send" -> "wait"
            [] pc = "data" -> "poll"
            [] pc = "repair" -> "repair"
            [] pc = "timeSend" -> "timeWait")
  /\ PopNack
  /\ UNCHANGED <<owner, expired, link, active, response, timeAnswer, sem,
                 giving>>

\* The deadline, the route, LOCAL_SEND_RETRIES refusals or an error.
SendRefused ==
  /\ Sending
  /\ FinishWith("error")
  /\ PopNack
  /\ UNCHANGED <<owner, expired, link, active, response, timeAnswer, sem,
                 giving>>

\* No completion in time: mark_transport_fault.
SendFault ==
  /\ Sending /\ MaySend
  /\ FinishWith("error")
  /\ faulty' = TRUE /\ ready' = FALSE
  /\ PopNack
  /\ UNCHANGED <<owner, expired, route, active, response, timeAnswer, sem,
                 giving>>

\* xSemaphoreTake of wait_gateway_response or query_server_time
Waiting == pc \in {"wait", "timeWait"}
AfterWait == IF pc = "wait" THEN "read" ELSE "timeRead"

Woken ==
  /\ Waiting
  /\ sem = 1
  /\ sem' = 0
  /\ Goto(AfterWait)
  /\ UNCHANGED <<owner, expired, link, active, response, nacks, timeAnswer,
                 giving>>

WaitTimeout ==
  /\ Waiting
  /\ sem = 0
  /\ Goto(AfterWait)
  /\ UNCHANGED <<owner, expired, link, active, mailbox>>

\* The gateway lost the session: OPEN again, SESSION_RESTARTS times at most.
StartAgain ==
  IF restarts + 1 < SessionRestarts
  THEN /\ pc' = "drain"
       /\ restarts' = restarts + 1
       /\ phase' = "open" /\ round' = 0 /\ chunk' = 0
       /\ UNCHANGED status
  ELSE FinishWith("error")

\* BUSY, no answer, or one that does not fit: the next round, if any.
NextRound(limit, label) ==
  IF ~expired /\ round + 1 < limit
  THEN /\ pc' = label
       /\ round' = round + 1
       /\ UNCHANGED <<phase, restarts, chunk, status>>
  ELSE FinishWith("error")

\* The switch of open_session
ReadOpen ==
  CASE response = "ACCEPT" -> Goto("accepted")
    [] response = "COMPLETE" -> FinishWith("ok")
    [] response = "RESTART" -> StartAgain
    [] response = "REJECT" -> FinishWith("error")
    [] OTHER -> NextRound(OpenAttempts, "drain")

\* The switch of finish_session
ReadEnd ==
  CASE response = "COMPLETE" -> FinishWith("ok")
    [] response = "RESTART" -> StartAgain
    [] response = "REJECT" -> FinishWith("error")
    [] OTHER -> NextRound(RepairRounds, "repair")

\* wait_gateway_response empties the mailbox it reads.
Read ==
  /\ pc = "read"
  /\ IF phase = "open" THEN ReadOpen ELSE ReadEnd
  /\ response' = "NONE"
  /\ UNCHANGED <<owner, expired, link, active, nacks, timeAnswer, sem, giving>>

\* ACCEPT: every chunk, from the first
Accepted ==
  /\ pc = "accepted"
  /\ nacks' = {}
  /\ chunk' = 0
  /\ pc' = "data"
  /\ UNCHANGED <<owner, phase, restarts, round, status, expired, link, active,
                 response, timeAnswer, sem, giving>>

\* take_data_phase_interrupt after each chunk
Interrupt == response \in {"COMPLETE", "RESTART", "REJECT"}

Poll ==
  /\ pc = "poll"
  /\ response' = IF Interrupt THEN "NONE" ELSE response
  /\ CASE response = "COMPLETE" -> FinishWith("ok")
       [] response = "RESTART" -> StartAgain
       [] response = "REJECT" -> FinishWith("error")
       [] ~Interrupt /\ chunk + 1 < ChunkCount(job.desc.len) ->
            /\ pc' = "data"
            /\ chunk' = chunk + 1
            /\ UNCHANGED <<phase, restarts, round, status>>
       [] OTHER ->
            /\ pc' = "repair"
            /\ phase' = "end" /\ round' = 0
            /\ UNCHANGED <<restarts, chunk, status>>
  /\ UNCHANGED <<owner, expired, link, active, nacks, timeAnswer, sem, giving>>

\* send_pending_nacks found the bitmap empty
Repaired ==
  /\ pc = "repair"
  /\ nacks = {}
  /\ Goto("drain")
  /\ UNCHANGED <<owner, expired, link, active, mailbox>>

\* What query_server_time makes of the answer
TimeRead ==
  /\ pc = "timeRead"
  /\ FinishWith(IF timeAnswer = "none" THEN "error" ELSE "ok")
  /\ UNCHANGED <<owner, expired, link, active, mailbox>>

\* The verdict of send_image, and the critical section that ends the active
\* frame or query
Finish ==
  /\ pc = "finish"
  /\ pc' = "flush"
  /\ status' = IF job.kind = "image" /\ expired THEN "error" ELSE status
  /\ active' = FALSE
  /\ IF job.kind = "image"
     THEN response' = "NONE" /\ nacks' = {} /\ UNCHANGED timeAnswer
     ELSE timeAnswer' = "none" /\ UNCHANGED <<response, nacks>>
  /\ UNCHANGED <<owner, progress, expired, link, sem, giving>>

\* ... and its drain of the semaphore
Flush ==
  /\ pc = "flush"
  /\ sem' = 0
  /\ Goto("release")
  /\ UNCHANGED <<owner, expired, link, active, response, nacks, timeAnswer,
                 giving>>

\* publish_frame_done and publish_time_done give up the ownership first ...
Release ==
  /\ pc = "release"
  /\ outstanding' = FALSE
  /\ Goto("report")
  /\ UNCHANGED <<nextFrame, queue, job, expired, link, active, mailbox>>

\* ... and call the application back afterwards.  After a fault the worker
\* then takes no other job: restart_after_transport_fault.
Report ==
  /\ pc = "report"
  /\ pc' = IF faulty THEN "restart" ELSE "idle"
  /\ job' = NoJob
  /\ route' = "none"
  /\ UNCHANGED <<outstanding, nextFrame, queue, progress, status, expired,
                 ready, faulty, active, mailbox>>

Send == SendDone \/ SendRefused \/ SendFault

Worker ==
  \/ Take \/ Begin \/ Clear \/ Send
  \/ Woken \/ WaitTimeout \/ Read \/ Accepted \/ Poll \/ Repaired
  \/ TimeRead \/ Finish \/ Flush \/ Release \/ Report

-----------------------------------------------------------------------------
(* The Bluetooth task: one callback at a time *)

BugStored(op) == op

\* The mailbox keeps a terminal response, and RESTART against a weaker one.
Stored(op) ==
  IF \/ response \in {"COMPLETE", "REJECT"}
     \/ response = "RESTART" /\ op \notin {"COMPLETE", "REJECT", "RESTART"}
  THEN response ELSE op

BugRequested(r) == {r.base + bit : bit \in r.bits}

\* The chunks a NACK asks for: bit r of the bitmap is chunk base + r.
Requested(r) ==
  {i \in 0 .. ChunkCount(job.desc.len) - 1 : i - r.base \in r.bits}

BugFitsFrame(r) ==
  /\ active /\ job.kind = "image"
  /\ ready /\ route = "current"

\* The response is about the active frame and comes over its route.
FitsFrame(r) ==
  /\ active /\ job.kind = "image"
  /\ r.frame = job.frame
  /\ ready /\ route = "current"

RespondImage(r) ==
  /\ ~giving
  /\ IF FitsFrame(r) /\ (r.op = "NACK" => Requested(r) # {})
     THEN /\ giving' = TRUE
          /\ response' = Stored(r.op)
          /\ nacks' = IF r.op = "NACK" THEN nacks \cup Requested(r) ELSE nacks
     ELSE UNCHANGED <<giving, response, nacks>>
  /\ UNCHANGED <<owner, pc, progress, status, expired, link, active,
                 timeAnswer, sem>>

\* handle_time_status_message: the first answer to the active request wins.
FitsTime(id) ==
  /\ active /\ job.kind = "time"
  /\ id = job.id
  /\ ready /\ route = "current"
  /\ timeAnswer = "none"

RespondTime(id, answer) ==
  /\ ~giving
  /\ IF FitsTime(id)
     THEN giving' = TRUE /\ timeAnswer' = answer
     ELSE UNCHANGED <<giving, timeAnswer>>
  /\ UNCHANGED <<owner, pc, progress, status, expired, link, active, response,
                 nacks, sem>>

\* The callback's xSemaphoreGive, outside the critical section.
Give ==
  /\ giving
  /\ giving' = FALSE
  /\ sem' = 1
  /\ UNCHANGED <<owner, pc, progress, status, expired, link, active, response,
                 nacks, timeAnswer>>

BugRouteChange ==
  /\ ready' \in BOOLEAN
  /\ route' = IF route = "current" THEN "stale" ELSE route
  /\ UNCHANGED <<faulty, owner, pc, progress, status, expired, active, mailbox>>

\* A configuration or provisioning callback changes the binding or the
\* publication: a snapshot taken before no longer matches.
RouteChange ==
  /\ ready' \in IF faulty THEN {FALSE} ELSE BOOLEAN
  /\ route' = IF route = "current" THEN "stale" ELSE route
  /\ UNCHANGED <<faulty, owner, pc, progress, status, expired, active, mailbox>>

-----------------------------------------------------------------------------
(* Time and restarts *)

\* The job's deadline passes: FRAME_DEADLINE_US or TIME_REQUEST_DEADLINE_US.
Expire ==
  /\ pc \notin {"idle", "release", "report", "restart"}
  /\ ~expired
  /\ expired' = TRUE
  /\ UNCHANGED <<owner, pc, progress, status, link, active, mailbox>>

\* esp_restart, after which the frame counter starts at a random seed.
Restart(seed) ==
  /\ pc = "restart"
  /\ ready' \in BOOLEAN /\ faulty' = FALSE /\ route' = "none"
  /\ outstanding' = FALSE /\ nextFrame' = seed
  /\ queue' = NoJob /\ job' = NoJob
  /\ pc' = "idle" /\ phase' = "open"
  /\ restarts' = 0 /\ round' = 0 /\ chunk' = 0
  /\ status' = "error" /\ expired' = FALSE
  /\ active' = FALSE /\ response' = "NONE" /\ nacks' = {}
  /\ timeAnswer' = "none" /\ sem' = 0 /\ giving' = FALSE

\* With a gateway that may answer anything at any time
Next ==
  \/ Worker \/ Give \/ RouteChange \/ Expire
  \/ \E seed \in FrameId : Restart(seed)
  \/ \E d \in Image : Submit(d)
  \/ \E id \in TimeId : RequestTime(id)
  \/ \E r \in GatewayReply : RespondImage(r)
  \/ \E id \in TimeId, a \in {"ok", "unavailable"} : RespondTime(id, a)

Spec == Init /\ [][Next]_sourceVars

\* The worker runs, with its waits timing out and a restart happening once
\* announced; the Bluetooth task finishes a callback; time passes.  Nothing
\* is assumed of the gateway.
Fairness ==
  /\ WF_sourceVars(Worker)
  /\ WF_sourceVars(Give)
  /\ WF_sourceVars(Expire)
  /\ WF_sourceVars(\E seed \in FrameId : Restart(seed))

FairSpec == Spec /\ Fairness

-----------------------------------------------------------------------------
(* Properties *)

Chunk == UNION {0 .. ChunkCount(d.len) - 1 : d \in Image}

\* Type invariant of the image source.
TypeOK ==
  /\ ready \in BOOLEAN /\ faulty \in BOOLEAN /\ outstanding \in BOOLEAN
  /\ nextFrame \in FrameId
  /\ queue \in Job \cup {NoJob}
  /\ job \in Job \cup {NoJob}
  /\ pc \in {"idle", "begin", "drain", "reset", "send", "wait", "read",
             "accepted", "data", "poll", "repair", "timeSend", "timeWait",
             "timeRead", "finish", "flush", "release", "report", "restart"}
  /\ phase \in {"open", "end"}
  /\ restarts \in 0 .. SessionRestarts - 1
  /\ round \in Nat
  /\ chunk \in Chunk \cup {0}
  /\ status \in {"ok", "error"}
  /\ expired \in BOOLEAN /\ active \in BOOLEAN /\ giving \in BOOLEAN
  /\ route \in {"none", "current", "stale"}
  /\ response \in Response \cup {"NONE"}
  /\ nacks \subseteq Chunk
  /\ timeAnswer \in {"none", "ok", "unavailable"}
  /\ sem \in {0, 1}

\* The worker holds the job it was given: its JPEG may not be reused yet.
Holding == pc \notin {"idle", "report", "restart"}

\* The worker and its queue hold at most one job between them for as long as
\* the application is told it is outstanding; only a job submitted between
\* the release of the ownership and the callback may wait behind another,
\* and it always finds room in the queue.
OneJobAtATime ==
  /\ Holding => outstanding /\ queue = NoJob
  /\ queue # NoJob => outstanding

\* While the worker waits, a stored response always has its wakeup: it is in
\* the semaphore, or the callback that stored it is about to give it.
NoLostWakeup ==
  /\ pc = "wait" /\ response # "NONE" => sem = 1 \/ giving
  /\ pc = "timeWait" /\ timeAnswer # "none" => sem = 1 \/ giving

\* After a lost send completion nothing is sent until the restart, so that
\* the late completion cannot be taken for another message's.
QuietAfterFault == faulty => ~ready /\ ~(Sending /\ MaySend)

\* Until the worker takes it, a stored terminal response is not replaced,
\* and RESTART only by a terminal one.
ResponsePriority ==
  [][response' # response /\ ~Worker =>
       \/ response \notin {"COMPLETE", "REJECT", "RESTART"}
       \/ response = "RESTART" /\ response' \in {"COMPLETE", "REJECT"}
       \/ \E seed \in FrameId : Restart(seed)]_sourceVars

\* Whatever the gateway answers, and even if it never stops asking for
\* chunks, every job the worker takes is reported.
EveryJobEnds == (pc # "idle") ~> (pc = "idle")
=============================================================================
