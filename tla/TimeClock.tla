------------------------------- MODULE TimeClock -------------------------------
(***************************************************************************)
(* The P4's mapping from its own monotonic clock to server time            *)
(* (sdio_time_clock.c) and the queries that keep it fresh (the TIME part   *)
(* of sdio_frame_tx.c).  Monotonic time is in microseconds and starts      *)
(* above 0; s_remote_state and s_active_frame_id are one Boolean, ready:   *)
(* the C6 said READY and no frame is reserved.  SdioSender has the frames  *)
(* and leaves the clock's arithmetic out.  Definitions named Bug... are    *)
(* faults for the mutation of the definition that follows them.            *)
(***************************************************************************)
EXTENDS Integers

CONSTANTS
  UsPerMs, MinUnix,
  QueryTimeout,   \* SDIO_TIME_QUERY_TIMEOUT_US
  QueryInterval,  \* SDIO_TIME_QUERY_INTERVAL_US
  BusyRetry,      \* SDIO_TIME_BUSY_RETRY_US
  ErrorRetry,     \* SDIO_TIME_ERROR_RETRY_US
  AnchorMaxAge,   \* SDIO_TIME_ANCHOR_MAX_AGE_US
  Slop,           \* SDIO_TIME_QUANTIZATION_SLOP_US
  NoMapping,      \* s_time_clock.valid is FALSE
  NoQuery         \* s_time_query_outstanding is FALSE

VARIABLES
  up,        \* s_transport_up
  ready,     \* s_remote_state is READY and s_active_frame_id is 0
  pending,   \* s_time_query_pending
  nextQuery, \* s_next_time_query_us; 0: at once
  nextId,    \* s_next_time_request_id
  asked,     \* the outstanding query [id, tx], or NoQuery
  mapping    \* s_time_clock, or NoMapping

timeClockVars == <<up, ready, pending, nextQuery, nextId, asked, mapping>>

TimeInit ==
  /\ up = FALSE /\ ready = FALSE /\ pending = FALSE
  /\ nextQuery = 0 /\ nextId = 0
  /\ asked = NoQuery /\ mapping = NoMapping

-----------------------------------------------------------------------------
(* sdio_time_clock.c *)

BugMatches(sample) == sample.query # NoQuery

\* The sample answers the outstanding query and no other.
Matches(sample) == sample.query = asked

\* A round trip the arithmetic may use
Plausible(sample, elapsed) ==
  /\ sample.rx >= MinUnix
  /\ sample.rx <= sample.tx
  /\ (sample.tx - sample.rx) * UsPerMs <= elapsed + Slop

BugMapped(sample, mono) ==
  LET elapsed == mono - asked.tx
      server == (sample.tx - sample.rx) * UsPerMs
  IN  [mono |-> asked.tx + elapsed \div 2,
       unix |-> sample.rx * UsPerMs + server \div 2,
       refreshed |-> mono,
       delay |-> elapsed - server]

\* The two midpoints belong together.
Mapped(sample, mono) ==
  LET elapsed == mono - asked.tx
      server == (sample.tx - sample.rx) * UsPerMs
  IN  [mono |-> asked.tx + elapsed \div 2,
       unix |-> sample.rx * UsPerMs + server \div 2,
       refreshed |-> mono,
       delay |-> IF elapsed > server THEN elapsed - server ELSE 0]

Fresh(mono) ==
  /\ mapping # NoMapping
  /\ mapping.mono <= mono /\ mapping.refreshed <= mono
  /\ mono - mapping.refreshed <= AnchorMaxAge

\* sdio_time_clock_now_ms; 0: no time is known
NowMs(mono) ==
  IF Fresh(mono) THEN (mapping.unix + (mono - mapping.mono)) \div UsPerMs ELSE 0

-----------------------------------------------------------------------------
(* sdio_frame_tx.c: asking *)

BugGivesUp(mono) == asked # NoQuery /\ mono - nextQuery >= QueryTimeout

GivesUp(mono) == asked # NoQuery /\ mono - asked.tx >= QueryTimeout

\* A given-up query makes the next one due at once.
Asks(mono) ==
  LET due == IF GivesUp(mono) THEN mono ELSE nextQuery
  IN  /\ up /\ ready
      /\ asked = NoQuery \/ GivesUp(mono)
      /\ pending \/ due = 0 \/ mono >= due

\* prepare_time_query, which may give one query up and ask the next
PrepareTimeQuery(mono) ==
  /\ \/ /\ Asks(mono)
        /\ nextId' = nextId + 1
        /\ asked' = [id |-> nextId', tx |-> mono]
        /\ nextQuery' = mono + QueryTimeout
        /\ pending' = FALSE
     \/ /\ ~Asks(mono) /\ GivesUp(mono)
        /\ asked' = NoQuery
        /\ nextQuery' = mono
        /\ UNCHANGED <<nextId, pending>>
  /\ UNCHANGED <<up, ready, mapping>>

-----------------------------------------------------------------------------
(* The answer: time_message_callback *)

\* STALE: nothing outstanding, another query's, or later than the timeout
Stale(sample, mono) ==
  \/ asked = NoQuery
  \/ ~Matches(sample)
  \/ sample.status = "OK" /\ sample.rx >= MinUnix /\ sample.rx <= sample.tx
       /\ mono - asked.tx > QueryTimeout

Applied(sample, mono) ==
  IF sample.status = "OK" /\ Plausible(sample, mono - asked.tx)
  THEN /\ mapping' = Mapped(sample, mono)
       /\ nextQuery' = mono + QueryInterval
  ELSE IF sample.status = "BUSY"
  THEN /\ nextQuery' = mono + BusyRetry
       /\ UNCHANGED mapping
  ELSE /\ mapping' = NoMapping
       /\ nextQuery' = mono + ErrorRetry

HearSample(sample, mono) ==
  /\ IF Stale(sample, mono)
     THEN UNCHANGED <<mapping, nextQuery, asked, pending>>
     ELSE /\ Applied(sample, mono)
          /\ asked' = NoQuery
          /\ pending' = FALSE
  /\ UNCHANGED <<up, ready, nextId>>

-----------------------------------------------------------------------------
(* The link and the C6's state *)

\* invalidate_time_locked
Invalidated == mapping' = NoMapping /\ asked' = NoQuery

\* state_mark_transport_down, after a failed send as well
TransportDown ==
  /\ up' = FALSE /\ ready' = FALSE /\ pending' = FALSE
  /\ Invalidated
  /\ UNCHANGED <<nextQuery, nextId>>

TransportUp ==
  /\ ~up
  /\ up' = TRUE /\ ready' = FALSE /\ pending' = FALSE
  /\ Invalidated
  /\ nextQuery' = 0
  /\ UNCHANGED <<nextId>>

\* ESP_HOSTED_EVENT_CP_INIT: the C6 has restarted.
CpInit ==
  /\ ready' = FALSE /\ pending' = FALSE
  /\ Invalidated
  /\ nextQuery' = 0
  /\ UNCHANGED <<up, nextId>>

\* READY with no frame reserved
HearReady ==
  /\ up
  /\ ready' = TRUE
  /\ pending' = (pending \/ mapping = NoMapping \/ nextQuery = 0)
  /\ UNCHANGED <<up, nextQuery, nextId, asked, mapping>>

\* NOT_READY: the way to the server is gone, and the mapping with it.
HearNotReady ==
  /\ up
  /\ ready' = FALSE /\ pending' = FALSE
  /\ Invalidated
  /\ UNCHANGED <<up, nextQuery, nextId>>

\* BUSY, or sdio_frame_tx_submit_event reserves a frame
Occupied ==
  /\ up /\ ready
  /\ ready' = FALSE
  /\ UNCHANGED <<up, pending, nextQuery, nextId, asked, mapping>>

-----------------------------------------------------------------------------
(* sdio_frame_tx_capture_time_ms *)

\* A mapping that yields no time is taken for an expired one.
Expired(mono) == mapping # NoMapping /\ NowMs(mono) = 0

Capture(mono) ==
  /\ Expired(mono)
  /\ mapping' = NoMapping
  /\ pending' = (up /\ ready /\ asked = NoQuery)
  /\ nextQuery' = mono
  /\ UNCHANGED <<up, ready, nextId, asked>>
================================================================================
