------------------------------- MODULE TimeSync -------------------------------
(***************************************************************************)
(* How the time of the laptop reaches the P4's capture times: the laptop   *)
(* sends its clock to the gateway (LaptopClock), the P4 asks for it        *)
(* through the C6 and the Mesh and maps its own clock to it (TimeClock).   *)
(* now is the P4's monotonic clock; the gateway's and the laptop's run     *)
(* ahead of it by a constant and at the same rate.  The way between P4 and *)
(* gateway delays, loses and reorders, which is to leave a message in its  *)
(* set; the C6 may refuse or fail a query (SdioReceiver, ImageSource).     *)
(***************************************************************************)
EXTENDS Integers

CONSTANTS
  UsPerMs, GatewayMaxAge, MinUnix, NoAnchor, NoRequest,
  QueryTimeout, QueryInterval, BusyRetry, ErrorRetry, AnchorMaxAge, Slop,
  NoMapping, NoQuery,
  LaptopLead,   \* the laptop's clock minus now, in microseconds
  GatewayLead,  \* the gateway's monotonic clock minus now
  SyncInterval, \* --time-sync-interval of receive_images.py
  MaxTransit,   \* from the laptop's reading of its clock to accept_time
  MaxDelay,     \* bound: how long a query and its answer may take, together
  Preempted,    \* from a capture's reading of its clock to the lock
  MaxHarm,      \* bound: how much goes wrong, together
  Horizon       \* bound: now stops there

ASSUME TimeSyncAssumption ==
  /\ UsPerMs \in Nat \ {0} /\ MinUnix \in Nat \ {0}
  /\ {GatewayMaxAge, LaptopLead, GatewayLead, SyncInterval, MaxTransit,
      MaxDelay, Preempted, MaxHarm} \subseteq Nat
  /\ Horizon \in Nat \ {0}
  /\ QueryTimeout \in Nat \ {0}
  /\ {QueryInterval, BusyRetry, ErrorRetry, AnchorMaxAge, Slop} \subseteq Nat
  /\ NoQuery \notin [id : Nat, tx : Nat]

VARIABLES
  anchor, serving,
  up, ready, pending, nextQuery, nextId, asked, mapping

VARIABLES
  now,
  nextSync,  \* next_time_sync_at of receive_images.py
  packet,    \* the laptop's packets on the serial line
  queries,   \* on their way to the gateway
  answers,   \* on their way to the P4
  missed,    \* queries given up or refused BUSY since the mapping was made
  blocked,   \* the P4 has not been free to ask all the time since then
  harm       \* what MaxHarm bounds, so far

Gateway == INSTANCE LaptopClock
P4 == INSTANCE TimeClock

gatewayVars == <<anchor, serving>>
p4Vars == <<up, ready, pending, nextQuery, nextId, asked, mapping>>
wayVars == <<packet, queries, answers>>
auxVars == <<missed, blocked, harm>>
vars == <<gatewayVars, p4Vars, wayVars, auxVars, now, nextSync>>

GatewayMono == now + GatewayLead

\* What a correct clock reads at the P4's time t, in microseconds
True(t) == t + LaptopLead

Init ==
  /\ Gateway!ClockInit
  /\ P4!TimeInit
  /\ now = 1 /\ nextSync = 0
  /\ packet = {} /\ queries = {} /\ answers = {}
  /\ missed = 0 /\ blocked = TRUE /\ harm = 0

Harmed == harm < MaxHarm /\ harm' = harm + 1

-----------------------------------------------------------------------------
(* Laptop and gateway *)

\* receive_images.py; it waits while a record is incomplete.
LaptopSends ==
  /\ now >= nextSync
  /\ packet' = packet \cup {[unix |-> True(now) \div UsPerMs, sent |-> now]}
  /\ nextSync' = now + SyncInterval
  /\ UNCHANGED <<gatewayVars, p4Vars, queries, answers, auxVars, now>>

LaptopWaits ==
  /\ now >= nextSync
  /\ Harmed
  /\ nextSync' = now + 1
  /\ UNCHANGED <<gatewayVars, p4Vars, wayVars, missed, blocked, now>>

PacketArrives ==
  /\ \E p \in packet, imaging \in BOOLEAN :
       /\ Gateway!AcceptTime(p.unix, GatewayMono, imaging)
       /\ packet' = packet \ {p}
       /\ IF imaging THEN Harmed ELSE UNCHANGED harm
  /\ UNCHANGED <<p4Vars, queries, answers, missed, blocked, now, nextSync>>

RequestArrives ==
  /\ \E q \in queries :
       /\ Gateway!BeginTimeRequest(q, GatewayMono)
       /\ queries' = queries \ {q}
  /\ UNCHANGED <<p4Vars, packet, answers, auxVars, now, nextSync>>

StatusSent ==
  /\ Gateway!FinishTimeRequest
  /\ answers' = answers \cup {Gateway!TimeStatus(GatewayMono)}
  /\ UNCHANGED <<p4Vars, packet, queries, auxVars, now, nextSync>>

GatewayRestarts ==
  /\ Harmed
  /\ Gateway!ClockReboot
  /\ UNCHANGED <<p4Vars, wayVars, missed, blocked, now, nextSync>>

\* The C6 is busy with an image, or the Mesh request failed.
C6Refuses ==
  /\ Harmed
  /\ \E q \in queries, status \in {"BUSY", "FAILED"} :
       /\ queries' = queries \ {q}
       /\ answers' = answers \cup
            {[query |-> q, status |-> status, rx |-> 0, tx |-> 0]}
  /\ UNCHANGED <<gatewayVars, p4Vars, packet, missed, blocked, now, nextSync>>

-----------------------------------------------------------------------------
(* The P4 *)

WorkerPolls ==
  /\ P4!PrepareTimeQuery(now)
  /\ queries' = IF asked' = NoQuery THEN queries ELSE queries \cup {asked'}
  /\ missed' = IF P4!GivesUp(now) THEN missed + 1 ELSE missed
  /\ UNCHANGED <<gatewayVars, packet, answers, blocked, harm, now, nextSync>>

\* send_time_query fails
SendFails ==
  /\ Harmed
  /\ asked \in queries
  /\ queries' = queries \ {asked}
  /\ P4!TransportDown
  /\ UNCHANGED <<gatewayVars, packet, answers, missed, blocked, now, nextSync>>

SampleArrives ==
  /\ \E a \in answers :
       /\ P4!HearSample(a, now)
       /\ answers' = answers \ {a}
       /\ IF P4!Stale(a, now) THEN UNCHANGED <<missed, blocked>>
          ELSE IF a.status = "BUSY"
          THEN missed' = missed + 1 /\ UNCHANGED blocked
          ELSE missed' = 0 /\ blocked' = FALSE
  /\ UNCHANGED <<gatewayVars, packet, queries, harm, now, nextSync>>

Controlled ==
  /\ \/ P4!TransportUp /\ UNCHANGED harm
     \/ P4!HearReady /\ (IF ready THEN Harmed ELSE UNCHANGED harm)
     \/ (P4!TransportDown \/ P4!CpInit \/ P4!HearNotReady \/ P4!Occupied) /\ Harmed
  /\ UNCHANGED <<gatewayVars, wayVars, missed, blocked, now, nextSync>>

\* The clock is read before the lock is taken.
Captures ==
  /\ \/ P4!Capture(now) /\ UNCHANGED harm
     \/ \E mono \in (now - Preempted) .. (now - 1) :
          mono >= 0 /\ P4!Capture(mono) /\ Harmed
  /\ UNCHANGED <<gatewayVars, wayVars, missed, blocked, now, nextSync>>

-----------------------------------------------------------------------------
(* Time passes.  The laptop's timer is punctual, a packet is on the line   *)
(* for at most MaxTransit, the gateway answers, the worker polls every     *)
(* SDIO_FRAME_TX_POLL_MS unless it is sending a frame; what has been on    *)
(* its way for longer than MaxDelay will not arrive.                       *)

Recent(q) == now - q.tx < MaxDelay

Tick ==
  /\ now < Horizon
  /\ now < nextSync
  /\ \A p \in packet : now - p.sent < MaxTransit
  /\ serving # NoRequest => Recent(serving.query)
  /\ ready => ~P4!Asks(now) /\ ~P4!GivesUp(now)
  /\ now' = now + 1
  /\ blocked' = (blocked \/ ~ready)
  /\ queries' = {q \in queries : Recent(q)}
  /\ answers' = {a \in answers : Recent(a.query)}
  /\ UNCHANGED <<gatewayVars, p4Vars, packet, missed, harm, nextSync>>

Next ==
  \/ LaptopSends \/ LaptopWaits \/ PacketArrives \/ RequestArrives \/ StatusSent
  \/ GatewayRestarts \/ C6Refuses
  \/ WorkerPolls \/ SendFails \/ SampleArrives \/ Controlled \/ Captures
  \/ Tick

Spec == Init /\ [][Next]_vars

-----------------------------------------------------------------------------
Time == 0 .. Horizon
Query == [id : Nat, tx : Time]
Sample == [query : Query, status : {"OK", "UNAVAILABLE", "BUSY", "FAILED"},
           rx : Nat, tx : Nat]

\* Every variable keeps to its type; no delay is negative (the code's is
\* unsigned) and no sample of the future is waited for.
TypeOK ==
  /\ now \in 1 .. Horizon /\ nextSync \in Nat
  /\ packet \subseteq [unix : Nat, sent : Time]
  /\ queries \subseteq Query
  /\ answers \subseteq Sample
  /\ anchor \in [unix : Nat, mono : Nat] \cup {NoAnchor}
  /\ serving \in [query : Query, rx : Nat] \cup {NoRequest}
  /\ {up, ready, pending, blocked} \subseteq BOOLEAN
  /\ {nextQuery, nextId, missed, harm} \subseteq Nat
  /\ asked \in Query \cup {NoQuery}
  /\ mapping \in [mono : Time, unix : Nat, refreshed : Time, delay : Nat]
                   \cup {NoMapping}

\* How far the gateway's clock may be behind the laptop's
Skew == MaxTransit + 2 * (UsPerMs - 1)

\* A capture time the P4 hands out is right up to the path delay it measured
\* itself, whatever was lost, repeated or late and however the gateway's
\* clock was set in between: early by the skew and half the delay, late by
\* half the delay (sdio_time_clock_apply_sample, sdio_time_clock_now_ms).
\* A new anchor between the gateway's two samples hides up to a Skew of the
\* delay; a millisecond is what now_ms cuts off.
CaptureTimeAccurate ==
  P4!NowMs(now) # 0 =>
    LET us == P4!NowMs(now) * UsPerMs
        half == (mapping.delay + Skew) \div 2 + 1
    IN  /\ us <= True(now) + half
        /\ us > True(now) - Skew - half - UsPerMs

\* While the P4 is free to ask, a mapping is renewed before it gets old: after
\* the interval and one timeout and retry for every query that was lost or
\* refused since (prepare_time_query, time_message_callback).  With the
\* code's 307 s, 10 s and 1 s it takes 53 in a row to let it expire.
ClockKeptFresh ==
  mapping # NoMapping /\ ~blocked =>
    now - mapping.refreshed
      <= QueryInterval + QueryTimeout + missed * (QueryTimeout + BusyRetry)
================================================================================
