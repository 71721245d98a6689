------------------------------ MODULE LaptopClock ------------------------------
(***************************************************************************)
(* The gateway's wall clock: the laptop's time as                          *)
(* server_serial_time_adapter.c keeps it and the Mesh TIME_REQUEST handler *)
(* of mesh_image_gateway.c reads it.  Unix time is in milliseconds, the    *)
(* gateway's esp_timer in microseconds, of which UsPerMs make one          *)
(* millisecond.  A packet here is one that passed the parser               *)
(* (process_parser), which is left out.                                   *)
(***************************************************************************)
EXTENDS Integers

CONSTANTS
  UsPerMs,        \* microseconds of a millisecond
  GatewayMaxAge,  \* CONFIG_SERVER_SERIAL_TIME_MAX_AGE_MS, in microseconds
  MinUnix,        \* UNIX_MS_MIN, below which no wall clock is believed
  NoAnchor,       \* never synchronized
  NoRequest       \* no TIME_REQUEST in hand

VARIABLES
  anchor,   \* s_anchor_unix_ms and s_anchor_monotonic_us, or NoAnchor
  serving   \* the TIME_REQUEST between its two samples, or NoRequest

laptopClockVars == <<anchor, serving>>

ClockInit ==
  /\ anchor = NoAnchor
  /\ serving = NoRequest

Readable(mono) ==
  /\ anchor # NoAnchor
  /\ anchor.mono <= mono
  /\ mono - anchor.mono <= GatewayMaxAge

\* laptop_clock_now; 0 stands for its FALSE, no believable time being 0
LaptopClockNow(mono) ==
  IF Readable(mono)
  THEN anchor.unix + (mono - anchor.mono) \div UsPerMs
  ELSE 0

\* decode_and_accept of an intact packet.  While an image is being received
\* or exported the packet is consumed and its time is not used.
AcceptTime(unix, mono, imaging) ==
  /\ IF unix >= MinUnix /\ ~imaging
     THEN anchor' = [unix |-> unix, mono |-> mono]
     ELSE UNCHANGED anchor
  /\ UNCHANGED serving

\* handle_time_request: the sample on receipt ...
BeginTimeRequest(query, mono) ==
  /\ serving = NoRequest
  /\ serving' = [query |-> query, rx |-> LaptopClockNow(mono)]
  /\ UNCHANGED anchor

\* ... and the one before TIME_STATUS is sent.
TimeStatus(mono) ==
  LET tx == LaptopClockNow(mono)
  IN  IF serving.rx # 0 /\ tx # 0 /\ tx >= serving.rx
      THEN [query |-> serving.query, status |-> "OK", rx |-> serving.rx, tx |-> tx]
      ELSE [query |-> serving.query, status |-> "UNAVAILABLE", rx |-> 0, tx |-> 0]

FinishTimeRequest ==
  /\ serving # NoRequest
  /\ serving' = NoRequest
  /\ UNCHANGED anchor

\* The gateway restarts: the clock and the request are forgotten.
ClockReboot ==
  /\ anchor' = NoAnchor
  /\ serving' = NoRequest
================================================================================
