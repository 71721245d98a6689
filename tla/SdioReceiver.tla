----------------------------- MODULE SdioReceiver -----------------------------
(***************************************************************************)
(* The C6's end of the SDIO link, sdio_frame_receiver.c.  Three tasks      *)
(* share the one JPEG buffer and its state:                                *)
(*   - the ESP-Hosted RX task (rx) assembles the chunks of a P4 frame and  *)
(*     queues replies, it never sends;                                     *)
(*   - status_worker (work) hands a complete frame to the BLE source,      *)
(*     sends every control message and drops silent assemblies;            *)
(*   - the BLE source's worker reports a finished job through a callback.  *)
(*                                                                         *)
(* The source itself is reduced to its interface: the job it took, its     *)
(* outstanding flag and its two completion steps (ImageSource models it    *)
(* in full).  Each step here is at most one critical section or one call.  *)
(*                                                                         *)
(* Bytes are abstract: a chunk of image m is stored as m, or as Noise if   *)
(* it was damaged; reasons of controls are left out, no receiver of them   *)
(* looks at them.  The assembly timeout is the flag silent, set by Tick.   *)
(*                                                                         *)
(* A definition named Bug... is a plausible mistake in the one below it;   *)
(* nothing uses it but the checks that some property would notice it.      *)
(***************************************************************************)
EXTENDS Integers, Sequences

CONSTANTS
  P4Frame,     \* frame IDs of the P4, never 0
  Image,       \* JPEGs, or what the P4 sends as one
  JpegOk,      \* those with the JPEG start and end markers
  ChunkCount,  \* chunks of a frame
  BleFrame,    \* BLE frame IDs of the source
  Request,     \* request IDs of clock queries
  EventQueue,  \* RECEIVER_EVENT_QUEUE_LEN
  ChannelMax,  \* control messages the SDIO link holds
  Noise, None

Index == 0 .. ChunkCount - 1

\* A chunk; all of an image's metadata stands or falls together.
Chunk == [frame : P4Frame, image : Image, index : Index, good : BOOLEAN]

Final == {"SERVER_ACKED", "FAILED"}

\* owner is the detail of a BUSY: the frame that has the buffer.
Control == [state : {"READY", "NOT_READY", "BUSY", "ACCEPTED"} \cup Final,
            frame : P4Frame \cup {0}, ble : BleFrame \cup {0},
            owner : P4Frame \cup {0}]

Sample == [id : Request,
           status : {"OK", "UNAVAILABLE", "BUSY", "NOT_READY", "FAILED"}]

Event == [kind : {"QUERY"}, frame : P4Frame \cup {0}]
           \cup [kind : {"CONTROL"}, control : Control]
           \cup [kind : {"SAMPLE"}, sample : Sample]

FrameComplete(f) == [kind |-> "FRAME_COMPLETE", frame |-> f]
BleFrameDone(f, b, ok) ==
  [kind |-> "BLE_FRAME_DONE", frame |-> f, ble |-> b, ok |-> ok]
BleTimeDone(sample) == [kind |-> "BLE_TIME_DONE", sample |-> sample]

VARIABLES
  state,      \* s_receiver.state
  first,      \* frame and image of s_receiver.first_header, or None
  next,       \* next_chunk
  ble,        \* ble_frame_id
  silent,     \* FRAME_ASSEMBLY_TIMEOUT_US since last_activity_us
  buffer,     \* s_jpeg_buffer
  terminal,   \* s_last_terminal, or None where invalid
  events,     \* s_worker_queue
  lifecycle,  \* s_lifecycle_queue: a one-slot mailbox, or None
  readyEdge,  \* s_mesh_ready_event_pending
  rx,         \* what the RX task is in the middle of
  work,       \* what status_worker is in the middle of
  ready,      \* the source: s_ready,
  outstanding,\* s_outstanding,
  job,        \* the job it has, or None,
  finished,   \* the report of a job it has released, or None
  toP4,       \* controls and clock samples on their way to the P4
  acked       \* history: the frames whose latest assembly was acknowledged

receiver == <<state, first, next, ble, silent>>
queues == <<events, lifecycle, readyEdge>>
source == <<ready, outstanding, job, finished>>
At(pc) == [pc |-> pc]

Init ==
  /\ state = "IDLE" /\ first = None /\ next = 0 /\ ble = 0 /\ silent = FALSE
  /\ buffer = [i \in Index |-> Noise]
  /\ terminal = None
  /\ events = <<>> /\ lifecycle = None /\ readyEdge = FALSE
  /\ rx = At("idle") /\ work = At("idle")
  /\ ready = FALSE /\ outstanding = FALSE /\ job = None /\ finished = None
  /\ toP4 = <<>>
  /\ acked = {}

-----------------------------------------------------------------------------
(* Helpers *)

Msg(s, f, b, owner) == [state |-> s, frame |-> f, ble |-> b, owner |-> owner]

BugResetReceiver ==
  /\ state' = "IDLE" /\ next' = 0 /\ ble' = 0 /\ silent' = FALSE
  /\ UNCHANGED first

\* reset_receiver_locked
ResetReceiver ==
  /\ state' = "IDLE" /\ first' = None /\ next' = 0 /\ ble' = 0
  /\ silent' = FALSE

\* What the assembled header says, or 0.
ActiveFrame == IF first = None THEN 0 ELSE first.frame

BugCacheTerminal(c) ==
  terminal' = IF c.state = "FAILED" /\ c.frame # 0 THEN c ELSE terminal

\* cache_terminal_control
CacheTerminal(c) ==
  terminal' = IF c.state \in Final /\ c.frame # 0 THEN c ELSE terminal

\* enqueue_event: a full queue drops the event.
Enqueue(e) ==
  events' = IF Len(events) < EventQueue THEN Append(events, e) ELSE events

\* esp_hosted_send_custom_data fails when the link has no room.
Send(m) ==
  toP4' = IF Len(toP4) < ChannelMax THEN Append(toP4, m) ELSE toP4

-----------------------------------------------------------------------------
(* The RX task *)

RxIdle == rx.pc = "idle"

\* The RX task goes on to enqueue control c.
Reply(c) == rx' = [pc |-> "reply", control |-> c]

\* reject_current_assembly, of a message whose header could be read as frame
\* f or, being too short, gave 0
BadChunk(f) ==
  /\ RxIdle
  /\ IF state \in {"ASSEMBLING", "VERIFYING"}
     THEN ResetReceiver /\ Reply(Msg("FAILED", ActiveFrame, 0, 0))
     ELSE UNCHANGED receiver /\ Reply(Msg("FAILED", f, 0, 0))
  /\ UNCHANGED <<buffer, terminal, queues, work, source, toP4, acked>>

\* frame_chunk_callback reads the source's state before it takes the lock.
ChunkArrives(c) ==
  /\ RxIdle
  /\ rx' = [pc |-> "chunk", chunk |-> c, ready |-> ready, busy |-> outstanding]
  /\ UNCHANGED <<receiver, buffer, terminal, queues, work, source, toP4, acked>>

\* The chunk begins a frame, and the buffer is or is not free for it.
FirstChunk(c) == c.index = 0
Repeated(c) == state = "ASSEMBLING" /\ c.frame = ActiveFrame

BugBufferTaken == state \in {"ASSEMBLING", "VERIFYING"}

\* A frame owns the buffer until the receiver is reset ...
BufferTaken == state # "IDLE"

BugSourceTaken == FALSE

\* ... and the source has a job that may still use it or the mailbox.
SourceTaken == rx.busy

FirstRefused(c) ==
  /\ FirstChunk(c)
  /\ \/ /\ BufferTaken /\ Repeated(c)
        /\ ResetReceiver
        /\ Reply(Msg("FAILED", c.frame, 0, 0))
     \/ /\ BufferTaken /\ ~Repeated(c)
        /\ Reply(Msg("BUSY", c.frame, ble, ActiveFrame))
        /\ UNCHANGED receiver
     \/ /\ ~BufferTaken /\ SourceTaken
        /\ Reply(Msg("BUSY", c.frame, 0, 0))
        /\ UNCHANGED receiver
     \/ /\ ~BufferTaken /\ ~SourceTaken /\ ~rx.ready
        /\ Reply(Msg("FAILED", c.frame, 0, 0))
        /\ UNCHANGED receiver
  /\ UNCHANGED <<buffer, terminal, acked>>

\* A new frame's first chunk drops a cached result of the same ID.
Supersede(f) ==
  IF terminal # None /\ terminal.frame = f THEN None ELSE terminal

\* The last chunk of the frame goes on to be verified.
Stored(c) ==
  /\ buffer' = [buffer EXCEPT ![c.index] = IF c.good THEN c.image ELSE Noise]
  /\ next' = c.index + 1
  /\ silent' = FALSE
  /\ IF c.index = ChunkCount - 1
     THEN state' = "VERIFYING" /\ rx' = At("verify")
     ELSE state' = "ASSEMBLING" /\ rx' = At("idle")

FirstStored(c) ==
  /\ FirstChunk(c)
  /\ ~BufferTaken /\ ~SourceTaken /\ rx.ready
  /\ first' = [frame |-> c.frame, image |-> c.image]
  /\ ble' = 0
  /\ Stored(c)
  /\ terminal' = Supersede(c.frame)
  /\ acked' = acked \ {c.frame}

LaterRefused(c) ==
  /\ ~FirstChunk(c)
  /\ \/ /\ state = "IDLE"
        /\ Reply(Msg("FAILED", c.frame, 0, 0))
        /\ UNCHANGED receiver
     \/ /\ state \notin {"IDLE", "ASSEMBLING"}
        /\ Reply(Msg("BUSY", c.frame, ble, ActiveFrame))
        /\ UNCHANGED receiver
     \/ /\ state = "ASSEMBLING" /\ c.frame # ActiveFrame
        /\ Reply(Msg("BUSY", c.frame, 0, ActiveFrame))
        /\ UNCHANGED receiver
     \/ /\ state = "ASSEMBLING" /\ c.frame = ActiveFrame
        /\ c.image # first.image \/ c.index # next
        /\ ResetReceiver
        /\ Reply(Msg("FAILED", c.frame, 0, 0))
  /\ UNCHANGED <<buffer, terminal, acked>>

LaterStored(c) ==
  /\ ~FirstChunk(c)
  /\ state = "ASSEMBLING" /\ c.frame = ActiveFrame
  /\ c.image = first.image /\ c.index = next
  /\ Stored(c)
  /\ UNCHANGED <<first, ble, terminal, acked>>

\* The critical section of frame_chunk_callback
TakeChunk ==
  /\ rx.pc = "chunk"
  /\ \/ FirstRefused(rx.chunk) \/ FirstStored(rx.chunk)
     \/ LaterRefused(rx.chunk) \/ LaterStored(rx.chunk)
  /\ UNCHANGED <<queues, work, source, toP4>>

\* The CRC and the JPEG markers, of a buffer outside the lock
ImageVerified ==
  /\ \A i \in Index : buffer[i] = first.image
  /\ first.image \in JpegOk

Verify ==
  /\ rx.pc = "verify"
  /\ IF ImageVerified
     THEN /\ state' = "PENDING_BLE"
          /\ rx' = At("complete")
          /\ UNCHANGED <<first, next, ble, silent>>
     ELSE ResetReceiver /\ Reply(Msg("FAILED", ActiveFrame, 0, 0))
  /\ UNCHANGED <<buffer, terminal, queues, work, source, toP4, acked>>

\* xQueueOverwrite into the mailbox
Complete ==
  /\ rx.pc = "complete"
  /\ lifecycle' = FrameComplete(ActiveFrame)
  /\ rx' = At("idle")
  /\ UNCHANGED <<receiver, buffer, terminal, events, readyEdge, work, source,
                 toP4, acked>>

\* enqueue_control remembers a terminal control before it risks the queue.
EnqueueReply ==
  /\ rx.pc = "reply"
  /\ CacheTerminal(rx.control)
  /\ Enqueue([kind |-> "CONTROL", control |-> rx.control])
  /\ rx' = At("idle")
  /\ UNCHANGED <<receiver, buffer, lifecycle, readyEdge, work, source, toP4,
                 acked>>

\* control_callback
QueryArrives(f) ==
  /\ RxIdle
  /\ Enqueue([kind |-> "QUERY", frame |-> f])
  /\ UNCHANGED <<receiver, buffer, terminal, lifecycle, readyEdge, rx, work,
                 source, toP4, acked>>

\* time_query_callback: ble_mesh_image_source_request_time, or the reason
\* why not.  The receiver's and the source's state change only towards free
\* while the RX task is here, so one step stands for all its reads.
TimeQueryArrives(id) ==
  /\ RxIdle
  /\ IF state = "IDLE" /\ ~outstanding /\ ready
     THEN /\ job' = [kind |-> "time", id |-> id]
          /\ outstanding' = TRUE
          /\ UNCHANGED events
     ELSE /\ Enqueue([kind |-> "SAMPLE", sample |->
                        [id |-> id,
                         status |-> IF state # "IDLE" \/ outstanding
                                    THEN "BUSY" ELSE "NOT_READY"]])
          /\ UNCHANGED <<job, outstanding>>
  /\ UNCHANGED <<receiver, buffer, terminal, lifecycle, readyEdge, rx, work,
                 ready, finished, toP4, acked>>

RxStep == TakeChunk \/ Verify \/ Complete \/ EnqueueReply

-----------------------------------------------------------------------------
(* status_worker *)

\* An assembly that the P4 has stopped feeding
Abandoned == state = "ASSEMBLING" /\ silent

\* Every round of the worker ends with check_assembly_timeout: it takes
\* nothing new while there is an assembly to drop.
WorkIdle == work.pc = "idle" /\ ~Abandoned

\* The worker goes on to send control c, and READY after it if push.
GoSend(c, push) == work' = [pc |-> "send", control |-> c, push |-> push]

\* submit_completed_frame, up to the submission
BeginSubmit(e) ==
  /\ work' = IF state = "PENDING_BLE" /\ ActiveFrame = e.frame
             THEN [pc |-> "submit", frame |-> e.frame] ELSE At("idle")
  /\ UNCHANGED <<receiver, toP4>>

\* The completion is about the frame that owns the buffer.
Matches(e) ==
  state = "BLE_ACTIVE" /\ ActiveFrame = e.frame /\ ble = e.ble

\* handle_ble_frame_done: the buffer is free before the result is sent.
FrameDone(e) ==
  /\ IF Matches(e)
     THEN /\ ResetReceiver
          /\ GoSend(Msg(IF e.ok THEN "SERVER_ACKED" ELSE "FAILED",
                        e.frame, e.ble, 0), TRUE)
     ELSE work' = At("idle") /\ UNCHANGED receiver
  /\ UNCHANGED toP4

TimeDone(e) ==
  /\ Send(e.sample)
  /\ work' = At("push")
  /\ UNCHANGED receiver

\* Lifecycle events outrank everything else.
TakeLifecycle ==
  /\ WorkIdle
  /\ lifecycle # None
  /\ lifecycle' = None
  /\ CASE lifecycle.kind = "FRAME_COMPLETE" -> BeginSubmit(lifecycle)
       [] lifecycle.kind = "BLE_FRAME_DONE" -> FrameDone(lifecycle)
       [] lifecycle.kind = "BLE_TIME_DONE" -> TimeDone(lifecycle)
  /\ UNCHANGED <<buffer, terminal, events, readyEdge, rx, source, acked>>

\* ble_mesh_image_source_submit, of the buffer itself
Submit ==
  /\ work.pc = "submit"
  /\ \E b \in BleFrame :
       IF ready /\ ~outstanding
       THEN /\ job' = [kind |-> "image", frame |-> work.frame, ble |-> b,
                       image |-> first.image]
            /\ outstanding' = TRUE
            /\ work' = [pc |-> "submitted", frame |-> work.frame, ble |-> b,
                        ok |-> TRUE]
       ELSE /\ work' = [pc |-> "submitted", frame |-> work.frame, ble |-> 0,
                        ok |-> FALSE]
            /\ UNCHANGED <<job, outstanding>>
  /\ UNCHANGED <<receiver, buffer, terminal, queues, rx, ready, finished, toP4,
                 acked>>

\* ... and its second critical section
Submitted ==
  /\ work.pc = "submitted"
  /\ IF state # "PENDING_BLE" \/ ActiveFrame # work.frame
     THEN UNCHANGED receiver
     ELSE IF work.ok
     THEN /\ state' = "BLE_ACTIVE" /\ ble' = work.ble
          /\ UNCHANGED <<first, next, silent>>
     ELSE ResetReceiver
  /\ GoSend(Msg(IF work.ok THEN "ACCEPTED" ELSE "FAILED",
                work.frame, work.ble, 0), ~work.ok)
  /\ UNCHANGED <<buffer, terminal, queues, rx, source, toP4, acked>>

\* send_control
SendControl ==
  /\ work.pc = "send"
  /\ CacheTerminal(work.control)
  /\ Send(work.control)
  /\ work' = At(IF work.push THEN "push" ELSE "idle")
  /\ UNCHANGED <<receiver, buffer, queues, rx, source, acked>>

\* push_ready_if_available
PushReady ==
  /\ work.pc = "push"
  /\ IF ready /\ ~outstanding THEN Send(Msg("READY", 0, 0, 0))
                              ELSE UNCHANGED toP4
  /\ work' = At("idle")
  /\ UNCHANGED <<receiver, buffer, terminal, queues, rx, source, acked>>

\* reply_to_query's snapshot
Snapshot(f) ==
  work' = [pc |-> "answer", frame |-> f, state |-> state,
           active |-> ActiveFrame, ble |-> ble, terminal |-> terminal]

\* A change of the source's readiness is answered like a QUERY of frame 0.
TakeReadyEdge ==
  /\ WorkIdle
  /\ lifecycle = None /\ readyEdge
  /\ readyEdge' = FALSE
  /\ Snapshot(0)
  /\ UNCHANGED <<receiver, buffer, terminal, events, lifecycle, rx, source,
                 toP4, acked>>

TakeEvent ==
  /\ WorkIdle
  /\ lifecycle = None /\ ~readyEdge /\ events # <<>>
  /\ events' = Tail(events)
  /\ LET e == Head(events)
     IN  \/ e.kind = "QUERY" /\ Snapshot(e.frame) /\ UNCHANGED toP4
         \/ e.kind = "CONTROL" /\ GoSend(e.control, FALSE) /\ UNCHANGED toP4
         \/ e.kind = "SAMPLE" /\ Send(e.sample) /\ work' = At("idle")
  /\ UNCHANGED <<receiver, buffer, terminal, lifecycle, readyEdge, rx, source,
                 acked>>

\* reply_to_query, from its snapshot and the source's state of now
Answer ==
  /\ work.pc = "answer"
  /\ GoSend(
       IF work.frame # 0 /\ work.terminal # None
            /\ work.terminal.frame = work.frame
       THEN work.terminal
       ELSE IF work.state # "IDLE" \/ outstanding
       THEN Msg("BUSY", IF work.frame # 0 THEN work.frame ELSE work.active,
                work.ble, work.active)
       ELSE Msg(IF ready THEN "READY" ELSE "NOT_READY", work.frame, 0, 0),
       FALSE)
  /\ UNCHANGED <<receiver, buffer, terminal, queues, rx, source, toP4, acked>>

\* check_assembly_timeout
CheckTimeout ==
  /\ work.pc = "idle"
  /\ Abandoned
  /\ ResetReceiver
  /\ GoSend(Msg("FAILED", ActiveFrame, 0, 0), FALSE)
  /\ UNCHANGED <<buffer, terminal, queues, rx, source, toP4, acked>>

WorkStep ==
  \/ TakeLifecycle \/ Submit \/ Submitted \/ SendControl \/ PushReady
  \/ TakeReadyEdge \/ TakeEvent \/ Answer \/ CheckTimeout

-----------------------------------------------------------------------------
(* The BLE source and time *)

\* publish_frame_done and publish_time_done release the ownership ...
FinishJob(report) ==
  /\ finished' = report
  /\ job' = None
  /\ outstanding' = FALSE

SourceFinishes ==
  /\ job # None /\ finished = None
  /\ \/ /\ job.kind = "image"
        /\ \E ok \in BOOLEAN :
             /\ FinishJob(BleFrameDone(job.frame, job.ble, ok))
             /\ acked' = IF ok THEN acked \cup {job.frame} ELSE acked
     \/ /\ job.kind = "time"
        /\ \E s \in {"OK", "UNAVAILABLE", "FAILED"} :
             FinishJob(BleTimeDone([id |-> job.id, status |-> s]))
        /\ UNCHANGED acked
  /\ UNCHANGED <<receiver, buffer, terminal, queues, rx, work, ready, toP4>>

\* ... before they call mesh_frame_done_callback or mesh_time_done_callback,
\* which overwrites the mailbox.
SourceReports ==
  /\ finished # None
  /\ lifecycle' = finished
  /\ finished' = None
  /\ UNCHANGED <<receiver, buffer, terminal, events, readyEdge, rx, work, ready,
                 outstanding, job, toP4, acked>>

\* mesh_ready_changed_callback
ReadyChanges ==
  /\ ready' = ~ready
  /\ readyEdge' = TRUE
  /\ UNCHANGED <<receiver, buffer, terminal, events, lifecycle, rx, work,
                 outstanding, job, finished, toP4, acked>>

Tick ==
  /\ state = "ASSEMBLING" /\ ~silent
  /\ silent' = TRUE
  /\ UNCHANGED <<state, first, next, ble, buffer, terminal, queues, rx, work,
                 source, toP4, acked>>

-----------------------------------------------------------------------------
(* Properties *)

Job == [kind : {"image"}, frame : P4Frame, ble : BleFrame, image : Image]
         \cup [kind : {"time"}, id : Request]

Lifecycle == [kind : {"FRAME_COMPLETE"}, frame : P4Frame]
               \cup [kind : {"BLE_FRAME_DONE"}, frame : P4Frame,
                     ble : BleFrame, ok : BOOLEAN]
               \cup [kind : {"BLE_TIME_DONE"}, sample : Sample]

\* Type invariant of the receiver; rx and work are what their steps set.
TypeOK ==
  /\ state \in {"IDLE", "ASSEMBLING", "VERIFYING", "PENDING_BLE", "BLE_ACTIVE"}
  /\ first \in [frame : P4Frame, image : Image] \cup {None}
  /\ first = None <=> state = "IDLE"
  /\ next \in 0 .. ChunkCount
  /\ ble \in BleFrame \cup {0}
  /\ silent \in BOOLEAN /\ readyEdge \in BOOLEAN
  /\ buffer \in [Index -> Image \cup {Noise}]
  /\ terminal \in {c \in Control : c.state \in Final} \cup {None}
  /\ events \in Seq(Event) /\ Len(events) <= EventQueue
  /\ lifecycle \in Lifecycle \cup {None}
  /\ ready \in BOOLEAN /\ outstanding \in BOOLEAN
  /\ job \in Job \cup {None}
  /\ finished \in Lifecycle \cup {None}
  /\ acked \subseteq P4Frame

\* The BLE source sends straight from the receive buffer: from the moment an
\* image is verified until the source has reported it, the buffer holds it.
BufferIntact ==
  /\ state \in {"PENDING_BLE", "BLE_ACTIVE"} =>
       \A i \in Index : buffer[i] = first.image
  /\ job # None /\ job.kind = "image" =>
       /\ ActiveFrame = job.frame
       /\ \A i \in Index : buffer[i] = job.image

\* A step that keeps the lifecycle events of a frame: neither of the two is
\* overwritten in the one-slot mailbox before the worker has taken it.
MailboxKept ==
  lifecycle # None /\ lifecycle.kind \in {"FRAME_COMPLETE", "BLE_FRAME_DONE"}
    => lifecycle' \in {lifecycle, None}
=============================================================================
