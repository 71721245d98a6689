------------------------------ MODULE SdioSender ------------------------------
(***************************************************************************)
(* The P4's end of the SDIO link, sdio_frame_tx.c: it reserves a READY     *)
(* window of the C6 for one JPEG, sends its chunks, and keeps asking until *)
(* the C6 reports what became of it.  Three tasks share its state under    *)
(* s_state_lock:                                                           *)
(*   - the application submits a JPEG (SubmitEvent, then QueueJob);        *)
(*   - the worker sends queries, clock queries and chunks;                 *)
(*   - ESP-Hosted calls back with transport events and C6 messages.        *)
(*                                                                         *)
(* A send is two steps: the worker is about to send Outgoing, and Sent or  *)
(* SendFails is its outcome.  Times are nondeterministic: the QUERY        *)
(* interval is over and a clock query due or not whenever the worker       *)
(* looks.  Setup and reconnection are left to the environment, which       *)
(* brings the transport up and down.                                       *)
(*                                                                         *)
(* A definition named Bug... is a plausible mistake in the one below it;   *)
(* nothing uses it but the checks that some property would notice it.      *)
(***************************************************************************)
EXTENDS Integers

CONSTANTS
  LastFrame,   \* frames of a run; their IDs count from 1
  Image,       \* JPEGs the application may submit
  ChunkCount,  \* chunks of a frame
  LastRequest, \* clock queries of a run; their IDs count from 1
  None

VARIABLES
  up,          \* s_transport_up
  remote,      \* s_remote_state
  reserved,    \* s_active_frame_id
  txComplete,  \* s_active_frame_tx_complete
  queryDue,    \* s_query_pending
  nextFrame,   \* s_next_frame_id
  nextRequest, \* s_next_time_request_id
  asked,       \* s_time_request_id while s_time_query_outstanding, or 0
  clockValid,  \* s_time_clock.valid
  txQueue,     \* s_tx_queue: a job, or None
  app,         \* a job that is reserved but not queued yet, or None
  tx           \* where the worker is

reservation == <<remote, reserved, txComplete, queryDue>>
clock == <<nextRequest, asked, clockValid>>

Goto(pc) == tx' = [pc |-> pc]

Init ==
  /\ up = FALSE
  /\ remote = "NOT_READY" /\ reserved = 0 /\ txComplete = FALSE
  /\ queryDue = FALSE
  /\ nextFrame = 0
  /\ nextRequest = 0 /\ asked = 0 /\ clockValid = FALSE
  /\ txQueue = None /\ app = None
  /\ tx = [pc |-> "loop"]

-----------------------------------------------------------------------------
(* The application: sdio_frame_tx_submit_event *)

\* The READY window is reserved under the lock ...
SubmitEvent(image) ==
  /\ app = None
  /\ up /\ remote = "READY" /\ reserved = 0
  /\ nextFrame < LastFrame
  /\ nextFrame' = nextFrame + 1
  /\ reserved' = nextFrame + 1
  /\ txComplete' = FALSE
  /\ remote' = "BUSY"
  /\ app' = [frame |-> nextFrame + 1, image |-> image]
  /\ UNCHANGED <<up, queryDue, clock, txQueue, tx>>

\* ... and given back if the queue still holds a job.
QueueJob ==
  /\ app # None
  /\ app' = None
  /\ IF txQueue = None
     THEN txQueue' = app /\ UNCHANGED reservation
     ELSE /\ IF reserved = app.frame /\ remote = "BUSY"
             THEN reserved' = 0 /\ txComplete' = FALSE /\ remote' = "READY"
             ELSE UNCHANGED <<reserved, txComplete, remote>>
          /\ UNCHANGED <<queryDue, txQueue>>
  /\ UNCHANGED <<up, nextFrame, clock, tx>>

-----------------------------------------------------------------------------
(* ESP-Hosted events *)

\* Everything the P4 believed about the C6 is void.
Forget ==
  /\ remote' = "NOT_READY" /\ reserved' = 0 /\ txComplete' = FALSE
  /\ asked' = 0 /\ clockValid' = FALSE /\ UNCHANGED nextRequest

\* state_mark_transport_down
MarkDown ==
  /\ up' = FALSE
  /\ Forget
  /\ queryDue' = FALSE

TransportDown ==
  /\ up
  /\ MarkDown
  /\ UNCHANGED <<nextFrame, txQueue, app, tx>>

TransportUp ==
  /\ ~up
  /\ up' = TRUE
  /\ Forget
  /\ queryDue' = TRUE
  /\ UNCHANGED <<nextFrame, txQueue, app, tx>>

\* ESP_HOSTED_EVENT_CP_INIT: the C6 has started.
C6Initialized ==
  /\ Forget
  /\ queryDue' = up
  /\ UNCHANGED <<up, nextFrame, txQueue, app, tx>>

-----------------------------------------------------------------------------
(* Messages of the C6 *)

Ignored == UNCHANGED <<reservation, clock>>

\* The reservation ends with the C6's state s.
Released(s) ==
  /\ remote' = s
  /\ reserved' = 0
  /\ txComplete' = FALSE
  /\ queryDue' = TRUE

HearReady ==
  IF reserved = 0
  THEN /\ remote' = "READY"
       /\ UNCHANGED <<reserved, txComplete, queryDue, clock>>
  ELSE Ignored

HearNotReady(m) ==
  /\ \/ /\ reserved = 0
        /\ remote' = "NOT_READY"
        /\ UNCHANGED <<reserved, txComplete, queryDue>>
     \/ /\ reserved # 0 /\ m.frame = reserved
        /\ Released("NOT_READY")
     \/ /\ reserved # 0 /\ m.frame # reserved
        /\ UNCHANGED reservation
  /\ IF reserved = 0 \/ m.frame = reserved
     THEN asked' = 0 /\ clockValid' = FALSE ELSE UNCHANGED <<asked, clockValid>>
  /\ UNCHANGED nextRequest

\* A BUSY about our own frame that owns the C6's buffer keeps the
\* reservation; one in which another frame owns it ends it.
HearBusy(m) ==
  /\ \/ /\ \/ reserved = 0
           \/ txComplete /\ m.frame = reserved /\ m.owner = reserved
        /\ remote' = "BUSY"
        /\ UNCHANGED <<reserved, txComplete, queryDue>>
     \/ /\ reserved # 0 /\ m.frame = reserved
        /\ ~(txComplete /\ m.owner = reserved)
        /\ Released("BUSY")
     \/ /\ reserved # 0 /\ m.frame # reserved
        /\ UNCHANGED reservation
  /\ UNCHANGED clock

HearAccepted(m) ==
  IF reserved # 0 /\ m.frame = reserved
  THEN /\ remote' = "ACCEPTED"
       /\ UNCHANGED <<reserved, txComplete, queryDue, clock>>
  ELSE Ignored

BugConcerns(m) == reserved # 0

\* A terminal control counts only for the frame that holds the reservation.
Concerns(m) == reserved # 0 /\ m.frame = reserved

HearFinal(m) ==
  IF Concerns(m)
  THEN Released(m.state) /\ UNCHANGED clock
  ELSE Ignored

\* control_message_callback
HearControl(m) ==
  /\ CASE m.state = "READY" -> HearReady
       [] m.state = "NOT_READY" -> HearNotReady(m)
       [] m.state = "BUSY" -> HearBusy(m)
       [] m.state = "ACCEPTED" -> HearAccepted(m)
       [] m.state \in {"SERVER_ACKED", "FAILED"} -> HearFinal(m)
  /\ UNCHANGED <<up, nextFrame, txQueue, app, tx>>

\* time_message_callback: a sample of the outstanding query ends it.  Only
\* BUSY leaves an older mapping valid; an OK sample may be inconsistent.
HearSample(s) ==
  /\ IF asked # 0 /\ s.id = asked
     THEN /\ asked' = 0
          /\ clockValid' \in CASE s.status = "OK" -> BOOLEAN
                               [] s.status = "BUSY" -> {clockValid}
                               [] OTHER -> {FALSE}
          /\ UNCHANGED nextRequest
     ELSE UNCHANGED clock
  /\ UNCHANGED <<up, reservation, nextFrame, txQueue, app, tx>>

-----------------------------------------------------------------------------
(* The worker *)

\* state_should_query: a QUERY was asked for, or its interval is over while
\* the C6 is not known to be READY.
ShouldQuery ==
  /\ tx.pc = "loop"
  /\ up /\ (queryDue \/ remote # "READY")
  /\ queryDue' = FALSE
  /\ Goto("query")
  /\ UNCHANGED <<up, remote, reserved, txComplete, nextFrame, clock, txQueue, app>>

\* send_control_query asks about the reserved frame, if any.
Query ==
  /\ tx.pc = "query"
  /\ tx' = [pc |-> "sendQuery", frame |-> reserved]
  /\ UNCHANGED <<up, reservation, nextFrame, clock, txQueue, app>>

\* prepare_time_query, after the QUERY or where none is needed: an unanswered
\* clock query may be given up, and a new one is made while the C6 is READY
\* and no frame reserved.
PrepareTime ==
  /\ tx.pc = "time" \/ (tx.pc = "loop" /\ ~(up /\ queryDue))
  /\ \/ /\ Goto("take")
        /\ asked' \in {asked, 0}
        /\ UNCHANGED nextRequest
     \/ /\ up /\ remote = "READY" /\ reserved = 0
        /\ nextRequest < LastRequest
        /\ nextRequest' = nextRequest + 1
        /\ asked' = nextRequest'
        /\ tx' = [pc |-> "sendTime", id |-> nextRequest']
  /\ UNCHANGED <<up, reservation, nextFrame, clockValid, txQueue, app>>

\* state_job_is_active: not cancelled by a control or a transport event.
JobActive(f) == up /\ reserved = f /\ remote = "BUSY"

\* xQueueReceive: a stale job is dropped.
TakeJob ==
  /\ tx.pc = "take"
  /\ txQueue' = None
  /\ IF txQueue # None /\ JobActive(txQueue.frame)
     THEN tx' = [pc |-> "check", job |-> txQueue, index |-> 0]
     ELSE Goto("loop")
  /\ UNCHANGED <<up, reservation, nextFrame, clock, app>>

\* send_jpeg asks before every chunk; its buffer may be unavailable.
CheckJob ==
  /\ tx.pc = "check"
  /\ IF JobActive(tx.job.frame) THEN tx' = [tx EXCEPT !.pc = "sendChunk"]
                                ELSE Goto("loop")
  /\ UNCHANGED <<up, reservation, nextFrame, clock, txQueue, app>>

\* state_release_frame_for_query, when send_jpeg finds no memory
ReleaseForQuery ==
  /\ tx.pc = "check" /\ tx.index = 0
  /\ IF reserved = tx.job.frame
     THEN /\ reserved' = 0 /\ txComplete' = FALSE
          /\ remote' = "NOT_READY" /\ queryDue' = up
     ELSE UNCHANGED reservation
  /\ Goto("loop")
  /\ UNCHANGED <<up, nextFrame, clock, txQueue, app>>

Sending == tx.pc \in {"sendQuery", "sendTime", "sendChunk"}

\* esp_hosted_send_custom_data returns ESP_OK.
Sent ==
  /\ Sending
  /\ CASE tx.pc = "sendQuery" -> Goto("time")
       [] tx.pc = "sendTime" -> Goto("take")
       [] tx.pc = "sendChunk" ->
            tx' = IF tx.index + 1 < ChunkCount
                  THEN [tx EXCEPT !.pc = "check", !.index = @ + 1]
                  ELSE [pc |-> "mark", frame |-> tx.job.frame]
  /\ UNCHANGED <<up, reservation, nextFrame, clock, txQueue, app>>

\* It returns an error: the transport is taken for down.
SendFails ==
  /\ Sending
  /\ MarkDown
  /\ CASE tx.pc = "sendQuery" -> Goto("time")
       [] tx.pc = "sendTime" -> Goto("take")
       [] tx.pc = "sendChunk" -> Goto("loop")
  /\ UNCHANGED <<nextFrame, txQueue, app>>

\* state_mark_frame_tx_complete
MarkComplete ==
  /\ tx.pc = "mark"
  /\ Goto("loop")
  /\ IF up /\ reserved = tx.frame /\ remote \in {"BUSY", "ACCEPTED"}
     THEN txComplete' = TRUE /\ queryDue' = TRUE
     ELSE UNCHANGED <<txComplete, queryDue>>
  /\ UNCHANGED <<up, remote, reserved, nextFrame, clock, txQueue, app>>

TxStep ==
  \/ ShouldQuery \/ Query \/ PrepareTime
  \/ TakeJob \/ CheckJob \/ ReleaseForQuery \/ MarkComplete
=============================================================================
