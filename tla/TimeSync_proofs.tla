---------------------------- MODULE TimeSync_proofs ----------------------------
(***************************************************************************)
(* Proofs about the way of the laptop's time to the P4, for every length   *)
(* of the code's intervals, any delays, losses, restarts and refusals.     *)
(***************************************************************************)
EXTENDS TimeSync, TLAPS

-----------------------------------------------------------------------------
(* The inductive invariants *)

\* A query was asked before now.
QueriesPast ==
  /\ asked # NoQuery => asked.tx <= now
  /\ \A q \in queries : q.tx <= now
  /\ serving # NoRequest => serving.query.tx <= now

\* A packet has the laptop's time as it was when it was sent, a moment ago.
PacketsRight ==
  \A p \in packet :
    /\ p.sent <= now /\ now - p.sent <= MaxTransit
    /\ p.unix * UsPerMs <= True(p.sent)
    /\ True(p.sent) <= p.unix * UsPerMs + (UsPerMs - 1)

\* The anchor was at most a packet's way behind when it was set.
AnchorRight ==
  anchor # NoAnchor =>
    LET at == anchor.mono - GatewayLead
    IN  /\ 0 <= at /\ at <= now
        /\ anchor.unix * UsPerMs <= True(at)
        /\ True(at) <= anchor.unix * UsPerMs + (UsPerMs - 1) + MaxTransit

\* The gateway may read ms when the P4's clock is at t.
ReadAt(ms, t) ==
  /\ ms * UsPerMs <= True(t)
  /\ True(t) <= ms * UsPerMs + Skew

ServingRight ==
  serving # NoRequest /\ serving.rx # 0 =>
    \E t \in Time : serving.query.tx <= t /\ t <= now /\ ReadAt(serving.rx, t)

\* The two readings of an answer lie between the query and now.
AnswersRight ==
  \A a \in answers : a.status = "OK" =>
    \E t, u \in Time :
      /\ a.query.tx <= t /\ t <= u /\ u <= now
      /\ ReadAt(a.rx, t) /\ ReadAt(a.tx, u)

\* How far a mapping may be wrong
Half == (mapping.delay + Skew) \div 2 + 1

MappingRight ==
  mapping # NoMapping =>
    /\ mapping.unix <= True(mapping.mono) + Half
    /\ True(mapping.mono) <= mapping.unix + Half + Skew

AccuracyInv ==
  PacketsRight /\ AnchorRight /\ ServingRight /\ AnswersRight /\ MappingRight

\* By then the P4 has asked again, with missed queries in between.
RenewedBy(count) ==
  mapping.refreshed + QueryInterval + count * (QueryTimeout + BusyRetry)

\* While the P4 is free to ask, the next query is due in time, or has been
\* asked in time and is not yet given up.
RenewalInv ==
  /\ ready => up
  /\ mapping # NoMapping /\ ~blocked =>
       IF asked = NoQuery
       THEN nextQuery <= RenewedBy(missed) /\ now <= RenewedBy(missed)
       ELSE asked.tx <= RenewedBy(missed) /\ now - asked.tx <= QueryTimeout

-----------------------------------------------------------------------------
(* Arithmetic *)

LEMMA Quotients ==
  ASSUME NEW a \in Nat, NEW d \in Nat \ {0}
  PROVE  /\ a \div d \in Nat
         /\ (a \div d) * d <= a /\ a <= (a \div d) * d + (d - 1)
OBVIOUS

LEMMA Halves ==
  ASSUME NEW a \in Int
  PROVE  /\ a \div 2 \in Int
         /\ 2 * (a \div 2) <= a /\ a <= 2 * (a \div 2) + 1
OBVIOUS

LEMMA Products ==
  ASSUME NEW a \in Int, NEW b \in Int, NEW c \in Int
  PROVE  /\ a * c \in Int /\ b * c \in Int
         /\ (a + b) * c = a * c + b * c /\ (a - b) * c = a * c - b * c
OBVIOUS

LEMMA Constant ==
  /\ UsPerMs \in Nat \ {0} /\ MinUnix \in Nat \ {0}
  /\ GatewayMaxAge \in Nat /\ LaptopLead \in Nat /\ GatewayLead \in Nat
  /\ SyncInterval \in Nat /\ MaxTransit \in Nat /\ MaxDelay \in Nat
  /\ Preempted \in Nat /\ MaxHarm \in Nat /\ Horizon \in Nat \ {0}
  /\ QueryTimeout \in Nat \ {0} /\ QueryInterval \in Nat /\ BusyRetry \in Nat
  /\ ErrorRetry \in Nat /\ AnchorMaxAge \in Nat /\ Slop \in Nat
BY TimeSyncAssumption

-----------------------------------------------------------------------------
(* Types *)

LEMMA ReadingType ==
  ASSUME TypeOK
  PROVE  Gateway!LaptopClockNow(GatewayMono) \in Nat /\ GatewayMono \in Nat
<1>1. now \in Nat /\ GatewayLead \in Nat /\ UsPerMs \in Nat \ {0} /\ GatewayMono \in Nat
  BY Constant DEF TypeOK, GatewayMono
<1>2. CASE Gateway!Readable(GatewayMono)
  <2>1. anchor.unix \in Nat /\ anchor.mono \in Nat /\ anchor.mono <= GatewayMono
    BY <1>2 DEF Gateway!Readable, TypeOK
  <2>2. GatewayMono - anchor.mono \in Nat
    BY <1>1, <2>1
  <2>3. (GatewayMono - anchor.mono) \div UsPerMs \in Nat
    BY <1>1, <2>2, Quotients
  <2>4. QED
    BY <1>1, <1>2, <2>1, <2>3 DEF Gateway!LaptopClockNow
<1>3. CASE ~Gateway!Readable(GatewayMono)
  BY <1>1, <1>3 DEF Gateway!LaptopClockNow
<1>4. QED
  BY <1>2, <1>3

LEMMA StatusType ==
  ASSUME TypeOK, serving # NoRequest
  PROVE  Gateway!TimeStatus(GatewayMono) \in Sample
<1>1. serving.query \in Query /\ serving.rx \in Nat
  BY DEF TypeOK
<1>2. QED
  BY <1>1, ReadingType DEF Gateway!TimeStatus, Sample

\* A mapping is made of an answer to the query that is outstanding.
LEMMA MappedType ==
  ASSUME TypeOK, QueriesPast, NEW a \in Sample, asked # NoQuery, a.rx <= a.tx
  PROVE  P4!Mapped(a, now) \in [mono : Time, unix : Nat, refreshed : Time, delay : Nat]
<1> DEFINE elapsed == now - asked.tx
           server == (a.tx - a.rx) * UsPerMs
<1>1. /\ now \in Nat /\ now <= Horizon /\ asked.tx \in Nat /\ asked.tx <= now
      /\ a.rx \in Nat /\ a.tx \in Nat /\ UsPerMs \in Nat /\ Horizon \in Nat
  BY Constant DEF TypeOK, QueriesPast, Query, Time, Sample
<1>2. elapsed \in Nat /\ a.tx - a.rx \in Nat
  BY <1>1
<1>3. server \in Nat /\ a.rx * UsPerMs \in Nat
  BY <1>1, <1>2
<1> HIDE DEF elapsed, server
<1>4. elapsed \div 2 \in Nat /\ server \div 2 \in Nat /\ 2 * (elapsed \div 2) <= elapsed
  BY <1>2, <1>3
<1>5. asked.tx + elapsed \div 2 \in Time /\ now \in Time
  <2>1. elapsed = now - asked.tx
    BY DEF elapsed
  <2>2. QED
    BY <1>1, <1>2, <1>4, <2>1 DEF Time
<1>6. a.rx * UsPerMs + server \div 2 \in Nat
  BY <1>3, <1>4
<1>7. (IF elapsed > server THEN elapsed - server ELSE 0) \in Nat
  BY <1>2, <1>3
<1>8. QED
  BY <1>5, <1>6, <1>7 DEF P4!Mapped, elapsed, server

LEMMA TypeNext == TypeOK /\ QueriesPast /\ [Next]_vars => TypeOK'
<1> SUFFICES ASSUME TypeOK, QueriesPast, [Next]_vars PROVE TypeOK'
  OBVIOUS
<1> USE Constant
<1>1. /\ now \in 1 .. Horizon /\ nextSync \in Nat
      /\ packet \subseteq [unix : Nat, sent : Time]
      /\ queries \subseteq Query /\ answers \subseteq Sample
      /\ anchor \in [unix : Nat, mono : Nat] \cup {NoAnchor}
      /\ serving \in [query : Query, rx : Nat] \cup {NoRequest}
      /\ up \in BOOLEAN /\ ready \in BOOLEAN /\ pending \in BOOLEAN /\ blocked \in BOOLEAN
      /\ nextQuery \in Nat /\ nextId \in Nat /\ missed \in Nat /\ harm \in Nat
      /\ asked \in Query \cup {NoQuery}
      /\ mapping \in [mono : Time, unix : Nat, refreshed : Time, delay : Nat]
                       \cup {NoMapping}
  BY DEF TypeOK
<1>2. ASSUME UNCHANGED harm \/ Harmed PROVE harm' \in Nat
  BY <1>1, <1>2 DEF Harmed
<1>3. CASE LaptopSends
  <2>1. True(now) \in Nat /\ now \in Time
    BY <1>1 DEF True, Time
  <2>2. [unix |-> True(now) \div UsPerMs, sent |-> now] \in [unix : Nat, sent : Time]
    BY <2>1, Quotients
  <2>3. nextSync' \in Nat
    BY <1>1, <1>3 DEF LaptopSends
  <2>4. QED
    BY <1>1, <1>3, <2>2, <2>3 DEF LaptopSends, TypeOK, gatewayVars, p4Vars, auxVars
<1>4. CASE LaptopWaits
  BY <1>1, <1>2, <1>4
  DEF LaptopWaits, TypeOK, gatewayVars, p4Vars, wayVars
<1>5. CASE PacketArrives
  <2>1. PICK p \in packet, imaging \in BOOLEAN :
          /\ Gateway!AcceptTime(p.unix, GatewayMono, imaging)
          /\ packet' = packet \ {p}
          /\ IF imaging THEN Harmed ELSE UNCHANGED harm
    BY <1>5 DEF PacketArrives
  <2>2. anchor' \in [unix : Nat, mono : Nat] \cup {NoAnchor} /\ serving' = serving
    BY <1>1, <2>1, ReadingType DEF Gateway!AcceptTime
  <2>3. harm' \in Nat
    BY <1>2, <2>1
  <2>4. QED
    BY <1>1, <1>5, <2>1, <2>2, <2>3 DEF PacketArrives, TypeOK, p4Vars
<1>6. CASE RequestArrives
  <2>1. PICK q \in queries :
          Gateway!BeginTimeRequest(q, GatewayMono) /\ queries' = queries \ {q}
    BY <1>6 DEF RequestArrives
  <2>2. serving' \in [query : Query, rx : Nat] /\ anchor' = anchor
    BY <1>1, <2>1, ReadingType DEF Gateway!BeginTimeRequest
  <2>3. QED
    BY <1>1, <1>6, <2>1, <2>2 DEF RequestArrives, TypeOK, p4Vars, auxVars
<1>7. CASE StatusSent
  <2>1. Gateway!TimeStatus(GatewayMono) \in Sample
    BY <1>7, StatusType DEF StatusSent, Gateway!FinishTimeRequest
  <2>2. QED
    BY <1>1, <1>7, <2>1
    DEF StatusSent, Gateway!FinishTimeRequest, TypeOK, p4Vars, auxVars
<1>8. CASE GatewayRestarts
  BY <1>1, <1>2, <1>8
  DEF GatewayRestarts, Gateway!ClockReboot, TypeOK, p4Vars, wayVars
<1>9. CASE C6Refuses
  <2>1. PICK q \in queries, status \in {"BUSY", "FAILED"} :
          /\ queries' = queries \ {q}
          /\ answers' = answers \cup {[query |-> q, status |-> status, rx |-> 0, tx |-> 0]}
    BY <1>9 DEF C6Refuses
  <2>2. [query |-> q, status |-> status, rx |-> 0, tx |-> 0] \in Sample
    BY <1>1 DEF Sample
  <2>3. QED
    BY <1>1, <1>2, <1>9, <2>1, <2>2 DEF C6Refuses, TypeOK, gatewayVars, p4Vars
<1>10. CASE WorkerPolls
  <2>1. now \in Time /\ now \in Nat
    BY <1>1 DEF Time
  <2>2. /\ asked' \in Query \cup {NoQuery} /\ nextId' \in Nat /\ nextQuery' \in Nat
        /\ pending' \in BOOLEAN /\ UNCHANGED <<up, ready, mapping>>
    <3>1. CASE /\ nextId' = nextId + 1
               /\ asked' = [id |-> nextId', tx |-> now]
               /\ nextQuery' = now + QueryTimeout
               /\ pending' = FALSE
      <4>1. nextId' \in Nat /\ nextQuery' \in Nat
        BY <1>1, <2>1, <3>1
      <4>2. asked' \in Query
        BY <2>1, <3>1, <4>1 DEF Query
      <4>3. pending' \in BOOLEAN
        BY <3>1, Zenon
      <4>4. QED
        BY <1>10, <4>1, <4>2, <4>3 DEF WorkerPolls, P4!PrepareTimeQuery
    <3>2. CASE asked' = NoQuery /\ nextQuery' = now /\ UNCHANGED <<nextId, pending>>
      BY <1>1, <1>10, <2>1, <3>2 DEF WorkerPolls, P4!PrepareTimeQuery
    <3>3. QED
      BY <1>10, <3>1, <3>2 DEF WorkerPolls, P4!PrepareTimeQuery
  <2>3. queries' \subseteq Query /\ missed' \in Nat
    BY <1>1, <1>10, <2>2 DEF WorkerPolls
  <2>4. QED
    BY <1>1, <1>10, <2>2, <2>3 DEF WorkerPolls, TypeOK, gatewayVars
<1>11. CASE SendFails
  BY <1>1, <1>2, <1>11
  DEF SendFails, P4!TransportDown, P4!Invalidated, TypeOK, gatewayVars
<1>12. CASE SampleArrives
  <2>1. PICK a \in answers :
          /\ P4!HearSample(a, now)
          /\ answers' = answers \ {a}
          /\ IF P4!Stale(a, now) THEN UNCHANGED <<missed, blocked>>
             ELSE IF a.status = "BUSY"
             THEN missed' = missed + 1 /\ UNCHANGED blocked
             ELSE missed' = 0 /\ blocked' = FALSE
    BY <1>12 DEF SampleArrives
  <2>2. a \in Sample
    BY <1>1
  <2>3. missed' \in Nat /\ blocked' \in BOOLEAN
    <3>1. \/ missed' = missed /\ blocked' = blocked
          \/ missed' = missed + 1 /\ blocked' = blocked
          \/ missed' = 0 /\ blocked' = FALSE
      BY <2>1, Zenon
    <3>2. blocked' \in BOOLEAN
      BY <1>1, <3>1, Zenon
    <3>3. missed' \in Nat
      BY <1>1, <3>1
    <3>4. QED
      BY <3>2, <3>3
  <2>4. /\ mapping' \in [mono : Time, unix : Nat, refreshed : Time, delay : Nat]
                          \cup {NoMapping}
        /\ nextQuery' \in Nat /\ asked' \in Query \cup {NoQuery} /\ pending' \in BOOLEAN
        /\ UNCHANGED <<up, ready, nextId>>
    <3>1. CASE P4!Stale(a, now)
      BY <1>1, <2>1, <3>1 DEF P4!HearSample
    <3>2. CASE ~P4!Stale(a, now)
      <4>1. /\ asked # NoQuery /\ P4!Applied(a, now) /\ asked' = NoQuery
            /\ pending' = FALSE
        BY <2>1, <3>2 DEF P4!HearSample, P4!Stale
      <4>a. pending' \in BOOLEAN
        BY <4>1, Zenon
      <4>2. CASE a.status = "OK" /\ P4!Plausible(a, now - asked.tx)
        <5>1. P4!Mapped(a, now) \in [mono : Time, unix : Nat, refreshed : Time, delay : Nat]
          BY <2>2, <4>1, <4>2, MappedType DEF P4!Plausible
        <5>2. QED
          <6>1. mapping' = P4!Mapped(a, now) /\ nextQuery' = now + QueryInterval
            BY <4>1, <4>2 DEF P4!Applied
          <6>2. UNCHANGED <<up, ready, nextId>>
            BY <2>1 DEF P4!HearSample
          <6>3. QED
            BY <1>1, <4>1, <4>a, <5>1, <6>1, <6>2
      <4>3. CASE ~(a.status = "OK" /\ P4!Plausible(a, now - asked.tx))
        <5>1. \/ mapping' = mapping /\ nextQuery' = now + BusyRetry
              \/ mapping' = NoMapping /\ nextQuery' = now + ErrorRetry
          BY <4>1, <4>3 DEF P4!Applied
        <5>2. QED
          <6>1. UNCHANGED <<up, ready, nextId>>
            BY <2>1 DEF P4!HearSample
          <6>2. QED
            BY <1>1, <4>1, <4>a, <5>1, <6>1
      <4>4. QED
        BY <4>2, <4>3
    <3>3. QED
      BY <3>1, <3>2
  <2>5. QED
    BY <1>1, <1>12, <2>1, <2>3, <2>4 DEF SampleArrives, TypeOK, gatewayVars
<1>13. CASE Controlled
  <2>1. /\ up' \in BOOLEAN /\ ready' \in BOOLEAN /\ pending' \in BOOLEAN
        /\ nextQuery' \in Nat /\ nextId' = nextId
        /\ asked' = asked \/ asked' = NoQuery
        /\ mapping' = mapping \/ mapping' = NoMapping
    <3>1. CASE P4!HearReady
      BY <1>1, <3>1 DEF P4!HearReady
    <3>2. CASE \/ P4!TransportUp \/ P4!TransportDown \/ P4!CpInit
               \/ P4!HearNotReady \/ P4!Occupied
      <4>1. up' \in {up, TRUE, FALSE} /\ ready' \in {FALSE} /\ pending' \in {pending, FALSE}
        BY <3>2 DEF P4!TransportUp, P4!TransportDown, P4!CpInit, P4!HearNotReady,
          P4!Occupied
      <4>2. up' \in BOOLEAN /\ ready' \in BOOLEAN /\ pending' \in BOOLEAN
        BY <1>1, <4>1, Zenon
      <4>3. /\ nextQuery' \in Nat /\ nextId' = nextId
            /\ asked' = asked \/ asked' = NoQuery
            /\ mapping' = mapping \/ mapping' = NoMapping
        BY <1>1, <3>2 DEF P4!TransportUp, P4!TransportDown, P4!CpInit,
          P4!HearNotReady, P4!Occupied, P4!Invalidated
      <4>4. QED
        BY <4>2, <4>3
    <3>3. QED
      BY <1>13, <3>1, <3>2 DEF Controlled
  <2>2. harm' \in Nat
    BY <1>2, <1>13 DEF Controlled
  <2>3. QED
    BY <1>1, <1>13, <2>1, <2>2 DEF Controlled, TypeOK, gatewayVars, wayVars
<1>14. CASE Captures
  <2>1. PICK mono \in Nat : P4!Capture(mono)
    <3>1. CASE P4!Capture(now)
      BY <1>1, <3>1
    <3>2. CASE \E mono \in (now - Preempted) .. (now - 1) :
                 mono >= 0 /\ P4!Capture(mono) /\ Harmed
      BY <1>1, <3>2
    <3>3. QED
      BY <1>14, <3>1, <3>2 DEF Captures
  <2>2. /\ mapping' = NoMapping /\ pending' \in BOOLEAN /\ nextQuery' \in Nat
        /\ UNCHANGED <<up, ready, nextId, asked>>
    BY <1>1, <2>1 DEF P4!Capture
  <2>3. harm' \in Nat
    BY <1>2, <1>14 DEF Captures
  <2>4. QED
    BY <1>1, <1>14, <2>2, <2>3 DEF Captures, TypeOK, gatewayVars, wayVars
<1>15. CASE Tick
  <2>1. now' \in 1 .. Horizon /\ blocked' \in BOOLEAN
    BY <1>1, <1>15 DEF Tick
  <2>2. QED
    BY <1>1, <1>15, <2>1 DEF Tick, TypeOK, gatewayVars, p4Vars
<1>16. CASE UNCHANGED vars
  BY <1>1, <1>16
  DEF vars, TypeOK, gatewayVars, p4Vars, wayVars, auxVars
<1>17. QED
  BY <1>3, <1>4, <1>5, <1>6, <1>7, <1>8, <1>9, <1>10, <1>11, <1>12, <1>13, <1>14,
    <1>15, <1>16 DEF Next

-----------------------------------------------------------------------------
(* Queries are asked in the past *)

LEMMA TypeInit == Init => TypeOK
<1> SUFFICES ASSUME Init PROVE TypeOK
  OBVIOUS
<1>1. up = FALSE /\ ready = FALSE /\ pending = FALSE /\ blocked = TRUE
  BY DEF Init, P4!TimeInit
<1>2. up \in BOOLEAN /\ ready \in BOOLEAN /\ pending \in BOOLEAN /\ blocked \in BOOLEAN
  BY <1>1, Zenon
<1>3. QED
  BY <1>2, Constant DEF Init, Gateway!ClockInit, P4!TimeInit, TypeOK

LEMMA PastInit == Init => QueriesPast
BY DEF Init, Gateway!ClockInit, P4!TimeInit, QueriesPast

LEMMA PastNext == TypeOK /\ QueriesPast /\ [Next]_vars => QueriesPast'
<1> SUFFICES ASSUME TypeOK, QueriesPast, [Next]_vars PROVE QueriesPast'
  OBVIOUS
<1>1. now \in Nat
  BY DEF TypeOK
<1>2. CASE LaptopSends \/ LaptopWaits \/ UNCHANGED vars
  BY <1>2 DEF LaptopSends, LaptopWaits, QueriesPast, vars, gatewayVars, p4Vars, wayVars
<1>3. CASE PacketArrives
  BY <1>3 DEF PacketArrives, Gateway!AcceptTime, QueriesPast, p4Vars
<1>4. CASE RequestArrives
  BY <1>4 DEF RequestArrives, Gateway!BeginTimeRequest, QueriesPast, p4Vars
<1>5. CASE StatusSent
  BY <1>5 DEF StatusSent, Gateway!FinishTimeRequest, QueriesPast, p4Vars
<1>6. CASE GatewayRestarts
  BY <1>6 DEF GatewayRestarts, Gateway!ClockReboot, QueriesPast, p4Vars, wayVars
<1>7. CASE C6Refuses
  BY <1>7 DEF C6Refuses, QueriesPast, gatewayVars, p4Vars
<1>8. CASE WorkerPolls
  BY <1>1, <1>8 DEF WorkerPolls, P4!PrepareTimeQuery, QueriesPast, gatewayVars
<1>9. CASE SendFails
  BY <1>9 DEF SendFails, P4!TransportDown, P4!Invalidated, QueriesPast, gatewayVars
<1>10. CASE SampleArrives
  BY <1>10 DEF SampleArrives, P4!HearSample, QueriesPast, gatewayVars
<1>11. CASE Controlled
  BY <1>11 DEF Controlled, P4!TransportUp, P4!TransportDown, P4!HearReady, P4!CpInit,
    P4!HearNotReady, P4!Occupied, P4!Invalidated, QueriesPast, gatewayVars, wayVars
<1>12. CASE Captures
  BY <1>12 DEF Captures, P4!Capture, QueriesPast, gatewayVars, wayVars
<1>13. CASE Tick
  <2>1. now' = now + 1 /\ queries' \subseteq queries /\ UNCHANGED <<asked, serving>>
    BY <1>13 DEF Tick, gatewayVars, p4Vars
  <2>2. /\ asked # NoQuery => asked.tx \in Nat
        /\ \A q \in queries : q.tx \in Nat
        /\ serving # NoRequest => serving.query.tx \in Nat
    BY DEF TypeOK, Query, Time
  <2>3. QED
    BY <1>1, <2>1, <2>2 DEF QueriesPast
<1>14. QED
  BY <1>2, <1>3, <1>4, <1>5, <1>6, <1>7, <1>8, <1>9, <1>10, <1>11, <1>12, <1>13 DEF Next

LEMMA PastInvariant == Spec => [](TypeOK /\ QueriesPast)
<1>1. Init => TypeOK /\ QueriesPast
  BY TypeInit, PastInit
<1>2. (TypeOK /\ QueriesPast) /\ [Next]_vars => (TypeOK /\ QueriesPast)'
  BY TypeNext, PastNext
<1>3. QED
  BY <1>1, <1>2, PTL DEF Spec

\* Every variable keeps to its type: the midpoint of a round trip lies before
\* now and no delay is negative, which the code's unsigned arithmetic needs
\* (sdio_time_clock_apply_sample).
THEOREM TypeCorrect == Spec => []TypeOK
BY PastInvariant, PTL

-----------------------------------------------------------------------------
(* A mapping is renewed in time *)

LEMMA RenewedLater ==
  ASSUME NEW count \in Nat, mapping.refreshed \in Nat
  PROVE  /\ RenewedBy(count) \in Nat
         /\ RenewedBy(count + 1) = RenewedBy(count) + QueryTimeout + BusyRetry
<1> DEFINE each == QueryTimeout + BusyRetry
<1>1. each \in Nat /\ QueryInterval \in Nat
  BY Constant
<1> HIDE DEF each
<1>2. (count + 1) * each = count * each + each /\ count * each \in Nat
  BY <1>1
<1>3. RenewedBy(count) = mapping.refreshed + QueryInterval + count * each
  BY DEF RenewedBy, each
<1>4. RenewedBy(count + 1) = mapping.refreshed + QueryInterval + (count + 1) * each
  BY DEF RenewedBy, each
<1>5. RenewedBy(count + 1) = RenewedBy(count) + each
  BY <1>1, <1>2, <1>3, <1>4
<1>6. QED
  BY <1>1, <1>2, <1>3, <1>5, Constant DEF each

LEMMA RenewalInit == Init => RenewalInv
BY DEF Init, P4!TimeInit, RenewalInv

LEMMA RenewalNext == TypeOK /\ TypeOK' /\ RenewalInv /\ [Next]_vars => RenewalInv'
<1> SUFFICES ASSUME TypeOK, TypeOK', RenewalInv, [Next]_vars PROVE RenewalInv'
  OBVIOUS
<1> DEFINE kept == mapping # NoMapping /\ ~blocked
<1>1. /\ now \in Nat /\ nextQuery \in Nat /\ missed \in Nat /\ missed + 1 \in Nat
      /\ asked # NoQuery => asked.tx \in Nat
      /\ mapping # NoMapping => mapping.refreshed \in Nat
  BY DEF TypeOK, Query, Time
<1>2. /\ QueryTimeout \in Nat \ {0} /\ BusyRetry \in Nat /\ QueryInterval \in Nat
  BY Constant
<1>3. mapping # NoMapping =>
        /\ RenewedBy(missed) \in Nat
        /\ RenewedBy(missed + 1) = RenewedBy(missed) + QueryTimeout + BusyRetry
  BY <1>1, RenewedLater
\* When a query is given up or refused, the next one has one more to allow for.
<1>4. ASSUME kept, asked # NoQuery
      PROVE  now <= RenewedBy(missed + 1) /\ now + BusyRetry <= RenewedBy(missed + 1)
  BY <1>1, <1>2, <1>3, <1>4 DEF RenewalInv
<1>5. CASE UNCHANGED <<up, ready, nextQuery, asked, mapping, missed, blocked, now>>
  BY <1>5 DEF RenewalInv, RenewedBy
<1>6. CASE LaptopSends \/ LaptopWaits \/ UNCHANGED vars
  BY <1>5, <1>6 DEF LaptopSends, LaptopWaits, vars, p4Vars, auxVars
<1>7. CASE PacketArrives \/ RequestArrives \/ StatusSent \/ GatewayRestarts \/ C6Refuses
  BY <1>5, <1>7 DEF PacketArrives, RequestArrives, StatusSent, GatewayRestarts, C6Refuses,
    p4Vars, auxVars
<1>8. CASE WorkerPolls
  <2>1. /\ UNCHANGED <<up, ready, mapping, blocked, now>>
        /\ missed' = IF P4!GivesUp(now) THEN missed + 1 ELSE missed
    BY <1>8 DEF WorkerPolls, P4!PrepareTimeQuery
  <2>2. CASE ~kept
    BY <2>1, <2>2 DEF RenewalInv
  <2>3. CASE kept
    <3>1. RenewedBy(missed)' = RenewedBy(missed')
      BY <2>1 DEF RenewedBy
    <3>2. now <= RenewedBy(missed')
      <4>1. CASE asked = NoQuery
        BY <2>1, <2>3, <4>1 DEF P4!GivesUp, RenewalInv
      <4>2. CASE asked # NoQuery /\ P4!GivesUp(now)
        BY <1>4, <2>1, <2>3, <4>2
      <4>3. CASE asked # NoQuery /\ ~P4!GivesUp(now)
        BY <1>8, <4>3 DEF WorkerPolls, P4!PrepareTimeQuery, P4!Asks
      <4>4. QED
        BY <4>1, <4>2, <4>3
    <3>3. CASE P4!Asks(now) /\ asked' = [id |-> nextId', tx |-> now]
      <4>1. asked'.tx = now /\ now - now = 0
        BY <1>1, <3>3
      <4>2. asked' # NoQuery
        <5>1. nextId' \in Nat
          BY DEF TypeOK
        <5>2. [id |-> nextId', tx |-> now] \in [id : Nat, tx : Nat]
          BY <1>1, <5>1
        <5>3. QED
          BY <3>3, <5>2, TimeSyncAssumption
      <4>3. asked'.tx <= RenewedBy(missed)' /\ now' - asked'.tx <= QueryTimeout
        BY <1>1, <1>2, <2>1, <3>1, <3>2, <4>1
      <4>4. QED
        BY <2>1, <4>2, <4>3 DEF RenewalInv
    <3>4. CASE asked' = NoQuery /\ nextQuery' = now
      BY <2>1, <3>1, <3>2, <3>4 DEF RenewalInv
    <3>5. QED
      BY <1>8, <3>3, <3>4 DEF WorkerPolls, P4!PrepareTimeQuery
  <2>4. QED
    BY <2>2, <2>3
<1>9. CASE mapping' = NoMapping /\ (ready' => up')
  BY <1>9 DEF RenewalInv
<1>10. CASE SendFails
  BY <1>9, <1>10 DEF SendFails, P4!TransportDown, P4!Invalidated
<1>11. CASE Captures
  BY <1>9, <1>11 DEF Captures, P4!Capture, RenewalInv
<1>12. CASE SampleArrives
  <2>1. PICK a \in answers :
          /\ P4!HearSample(a, now)
          /\ IF P4!Stale(a, now) THEN UNCHANGED <<missed, blocked>>
             ELSE IF a.status = "BUSY"
             THEN missed' = missed + 1 /\ UNCHANGED blocked
             ELSE missed' = 0 /\ blocked' = FALSE
    BY <1>12 DEF SampleArrives
  <2>2. UNCHANGED <<up, ready, now>>
    BY <1>12, <2>1 DEF SampleArrives, P4!HearSample
  <2>3. CASE P4!Stale(a, now)
    BY <1>5, <2>1, <2>2, <2>3 DEF P4!HearSample
  <2>4. CASE ~P4!Stale(a, now)
    <3>1. asked # NoQuery /\ asked' = NoQuery /\ P4!Applied(a, now)
      BY <2>1, <2>4 DEF P4!HearSample, P4!Stale
    <3>2. CASE a.status = "OK" /\ P4!Plausible(a, now - asked.tx)
      <4>1. missed' = 0 /\ nextQuery' = now + QueryInterval /\ mapping'.refreshed = now
        BY <2>1, <2>4, <3>1, <3>2 DEF P4!Applied, P4!Mapped
      <4>2. RenewedBy(missed)' = now + QueryInterval
        BY <1>1, <1>2, <4>1 DEF RenewedBy
      <4>3. QED
        BY <1>1, <1>2, <2>2, <3>1, <4>1, <4>2 DEF RenewalInv
    <3>3. CASE a.status = "BUSY"
      <4>1. /\ missed' = missed + 1 /\ nextQuery' = now + BusyRetry
            /\ UNCHANGED <<mapping, blocked>>
        BY <2>1, <2>4, <3>1, <3>3 DEF P4!Applied
      <4>2. RenewedBy(missed)' = RenewedBy(missed + 1)
        BY <4>1 DEF RenewedBy
      <4>3. QED
        BY <1>4, <2>2, <3>1, <4>1, <4>2 DEF RenewalInv
    <3>4. CASE a.status # "BUSY" /\ ~(a.status = "OK" /\ P4!Plausible(a, now - asked.tx))
      BY <1>9, <2>2, <3>1, <3>4 DEF P4!Applied, RenewalInv
    <3>5. QED
      BY <3>2, <3>3, <3>4
  <2>5. QED
    BY <2>3, <2>4
<1>13. CASE Controlled
  <2>1. UNCHANGED <<missed, blocked, now>>
    BY <1>13 DEF Controlled
  <2>2. CASE P4!TransportUp \/ P4!TransportDown \/ P4!CpInit \/ P4!HearNotReady
    BY <1>9, <2>2 DEF P4!TransportUp, P4!TransportDown, P4!CpInit, P4!HearNotReady,
      P4!Invalidated
  <2>3. CASE P4!HearReady \/ P4!Occupied
    BY <2>1, <2>3 DEF P4!HearReady, P4!Occupied, RenewalInv, RenewedBy
  <2>4. QED
    BY <1>13, <2>2, <2>3 DEF Controlled
<1>14. CASE Tick
  <2>1. /\ now' = now + 1 /\ blocked' = (blocked \/ ~ready)
        /\ UNCHANGED <<up, ready, nextQuery, asked, pending, mapping, missed>>
        /\ ready => ~P4!Asks(now) /\ ~P4!GivesUp(now)
    BY <1>14 DEF Tick, p4Vars
  <2>2. RenewedBy(missed)' = RenewedBy(missed)
    BY <2>1 DEF RenewedBy
  <2>3. CASE ~kept \/ ~ready
    BY <2>1, <2>3 DEF RenewalInv
  <2>4. CASE kept /\ ready /\ asked = NoQuery
    <3>1. up /\ nextQuery <= RenewedBy(missed) /\ now < nextQuery
      BY <1>1, <2>1, <2>4 DEF RenewalInv, P4!Asks, P4!GivesUp
    <3>2. now' <= RenewedBy(missed)
      BY <1>1, <1>3, <2>1, <2>4, <3>1
    <3>3. QED
      BY <2>1, <2>2, <2>4, <3>1, <3>2 DEF RenewalInv
  <2>5. CASE kept /\ ready /\ asked # NoQuery
    <3>1. asked.tx <= RenewedBy(missed) /\ ~(now - asked.tx >= QueryTimeout) /\ up
      BY <2>1, <2>5 DEF RenewalInv, P4!GivesUp
    <3>2. now' - asked.tx <= QueryTimeout
      BY <1>1, <1>2, <2>1, <2>5, <3>1
    <3>3. QED
      BY <2>1, <2>2, <2>5, <3>1, <3>2 DEF RenewalInv
  <2>6. QED
    BY <2>3, <2>4, <2>5
<1>15. QED
  BY <1>6, <1>7, <1>8, <1>10, <1>11, <1>12, <1>13, <1>14 DEF Next

\* While the P4 is free to ask, a mapping is renewed before it gets old: the
\* next query is due, or has been asked, in time, with one timeout and one
\* retry for every query that was lost or refused (prepare_time_query,
\* time_message_callback).
THEOREM ClockRenewed == Spec => []ClockKeptFresh
<1>1. RenewalInv /\ TypeOK => ClockKeptFresh
  <2> SUFFICES ASSUME RenewalInv, TypeOK, mapping # NoMapping, ~blocked
               PROVE  now - mapping.refreshed
                        <= QueryInterval + QueryTimeout
                             + missed * (QueryTimeout + BusyRetry)
    BY DEF ClockKeptFresh
  <2> DEFINE more == missed * (QueryTimeout + BusyRetry)
  <2>1. /\ now \in Nat /\ mapping.refreshed \in Nat /\ missed \in Nat
        /\ asked # NoQuery => asked.tx \in Nat
    BY DEF TypeOK, Query, Time
  <2>2. QueryTimeout \in Nat /\ QueryInterval \in Nat /\ more \in Nat
    BY <2>1, Constant
  <2>3. RenewedBy(missed) = mapping.refreshed + QueryInterval + more
    BY DEF RenewedBy
  <2> HIDE DEF more
  <2>4. now <= RenewedBy(missed) + QueryTimeout
    <3>1. CASE asked = NoQuery
      BY <2>1, <2>2, <2>3, <3>1 DEF RenewalInv
    <3>2. CASE asked # NoQuery
      BY <2>1, <2>2, <2>3, <3>2 DEF RenewalInv
    <3>3. QED
      BY <3>1, <3>2
  <2>5. now - mapping.refreshed <= QueryInterval + QueryTimeout + more
    BY <2>1, <2>2, <2>3, <2>4
  <2>6. QED
    BY <2>5 DEF more
<1>2. QED
  BY <1>1, RenewalInit, RenewalNext, TypeCorrect, PTL DEF Spec

-----------------------------------------------------------------------------
(* What the gateway reads of the laptop's clock *)

LEMMA ReadingRight ==
  ASSUME TypeOK, AnchorRight, Gateway!LaptopClockNow(GatewayMono) # 0
  PROVE  ReadAt(Gateway!LaptopClockNow(GatewayMono), now)
<1> DEFINE at == anchor.mono - GatewayLead
           age == GatewayMono - anchor.mono
           q == age \div UsPerMs
           u == anchor.unix * UsPerMs
<1>1. /\ anchor # NoAnchor /\ anchor.mono <= GatewayMono
      /\ Gateway!LaptopClockNow(GatewayMono) = anchor.unix + q
  BY DEF Gateway!LaptopClockNow, Gateway!Readable
<1>2. /\ now \in Nat /\ GatewayLead \in Nat /\ LaptopLead \in Nat /\ MaxTransit \in Nat
      /\ UsPerMs \in Nat \ {0} /\ anchor.unix \in Nat /\ anchor.mono \in Nat
  BY <1>1, Constant DEF TypeOK
<1>3. GatewayMono = now + GatewayLead /\ age = now - at /\ age \in Nat /\ at \in Int
  BY <1>1, <1>2 DEF GatewayMono
<1>4. q \in Nat /\ q * UsPerMs <= age /\ age <= q * UsPerMs + (UsPerMs - 1)
  BY <1>2, <1>3, Quotients
<1>5. u <= at + LaptopLead /\ at + LaptopLead <= u + (UsPerMs - 1) + MaxTransit
  BY <1>1 DEF AnchorRight, True
<1>6. (anchor.unix + q) * UsPerMs = u + q * UsPerMs /\ u \in Nat /\ q * UsPerMs \in Nat
  BY <1>2, <1>4, Products
<1> DEFINE v == q * UsPerMs
<1>7. age = now - at /\ v <= age /\ age <= v + (UsPerMs - 1) /\ v \in Nat /\ u \in Nat
  BY <1>3, <1>4, <1>6
<1> HIDE DEF at, age, u, v
<1>8. u + v <= now + LaptopLead
  BY <1>2, <1>3, <1>5, <1>7
<1>9. now + LaptopLead <= u + v + (MaxTransit + 2 * (UsPerMs - 1))
  BY <1>2, <1>3, <1>5, <1>7
<1>10. (anchor.unix + q) * UsPerMs = u + v
  BY <1>6 DEF u, v
<1>11. QED
  BY <1>1, <1>8, <1>9, <1>10 DEF ReadAt, True, Skew

\* A packet that is used sets an anchor that is at most its way behind.
LEMMA AcceptRight ==
  ASSUME TypeOK, AnchorRight, PacketsRight, NEW p \in packet, NEW imaging,
         Gateway!AcceptTime(p.unix, GatewayMono, imaging), now' = now
  PROVE  AnchorRight'
<1>1. CASE anchor' = anchor
  BY <1>1 DEF AnchorRight
<1>2. CASE anchor' = [unix |-> p.unix, mono |-> GatewayMono]
  <2> DEFINE u == p.unix * UsPerMs
  <2>1. /\ now \in Nat /\ GatewayLead \in Nat /\ LaptopLead \in Nat /\ MaxTransit \in Nat
        /\ UsPerMs \in Nat \ {0} /\ p.unix \in Nat /\ p.sent \in Nat
    BY Constant DEF TypeOK, Time
  <2>2. u \in Nat
    BY <2>1
  <2>3. /\ p.sent <= now /\ now - p.sent <= MaxTransit
        /\ u <= p.sent + LaptopLead /\ p.sent + LaptopLead <= u + (UsPerMs - 1)
    BY DEF PacketsRight, True
  <2> HIDE DEF u
  <2>4. /\ GatewayMono - GatewayLead = now
        /\ u <= now + LaptopLead /\ now + LaptopLead <= u + (UsPerMs - 1) + MaxTransit
    BY <2>1, <2>2, <2>3 DEF GatewayMono
  <2>5. anchor'.unix = p.unix /\ anchor'.mono = GatewayMono
    BY <1>2
  <2>6. QED
    BY <2>1, <2>4, <2>5 DEF AnchorRight, True, u
<1>3. QED
  BY <1>1, <1>2 DEF Gateway!AcceptTime

\* The two midpoints belong together, up to the delay that was measured.
LEMMA MappedRight ==
  ASSUME NEW t0 \in Nat, NEW t1 \in Nat, NEW t2 \in Nat, NEW t3 \in Nat,
         NEW r \in Nat, NEW s \in Nat, NEW lead \in Nat, NEW skew \in Nat,
         t0 <= t1, t1 <= t2, t2 <= t3, r <= s,
         r <= t1 + lead, t1 + lead <= r + skew,
         s <= t2 + lead, t2 + lead <= s + skew,
         NEW delay \in Nat,
         delay = IF t3 - t0 > s - r THEN t3 - t0 - (s - r) ELSE 0
  PROVE  /\ r + (s - r) \div 2
              <= t0 + (t3 - t0) \div 2 + lead + ((delay + skew) \div 2 + 1)
         /\ t0 + (t3 - t0) \div 2 + lead
              <= r + (s - r) \div 2 + ((delay + skew) \div 2 + 1) + skew
<1>1. PICK a \in Int : a = (s - r) \div 2 /\ 2 * a <= s - r /\ s - r <= 2 * a + 1
  BY Halves
<1>2. PICK b \in Int : b = (t3 - t0) \div 2 /\ 2 * b <= t3 - t0 /\ t3 - t0 <= 2 * b + 1
  BY Halves
<1>3. PICK c \in Int : /\ c = (delay + skew) \div 2
                       /\ 2 * c <= delay + skew /\ delay + skew <= 2 * c + 1
  BY Halves
<1>4. delay >= t3 - t0 - (s - r)
  OBVIOUS
<1>5. r + a <= t0 + b + lead + (c + 1)
  BY <1>1, <1>2, <1>3, <1>4
<1>6. t0 + b + lead <= r + a + (c + 1) + skew
  BY <1>1, <1>2, <1>3, <1>4
<1>7. QED
  BY <1>1, <1>2, <1>3, <1>5, <1>6

-----------------------------------------------------------------------------
(* What the readings become *)

LEMMA AccuracyInit == Init => AccuracyInv
BY DEF Init, Gateway!ClockInit, P4!TimeInit, AccuracyInv, PacketsRight, AnchorRight,
  ServingRight, AnswersRight, MappingRight

LEMMA PacketsNext == TypeOK /\ PacketsRight /\ [Next]_vars => PacketsRight'
<1> SUFFICES ASSUME TypeOK, PacketsRight, [Next]_vars PROVE PacketsRight'
  OBVIOUS
<1>1. /\ now \in Nat /\ MaxTransit \in Nat /\ LaptopLead \in Nat /\ UsPerMs \in Nat \ {0}
      /\ \A p \in packet : p.sent \in Nat
  BY Constant DEF TypeOK, Time
<1>2. CASE packet' \subseteq packet /\ now' = now
  BY <1>2 DEF PacketsRight
<1>3. CASE LaptopSends
  <2> DEFINE unix == True(now) \div UsPerMs
  <2>1. True(now) \in Nat
    BY <1>1 DEF True
  <2>2. unix * UsPerMs <= True(now) /\ True(now) <= unix * UsPerMs + (UsPerMs - 1)
    BY <1>1, <2>1, Quotients
  <2>3. packet' = packet \cup {[unix |-> unix, sent |-> now]} /\ now' = now
    BY <1>3 DEF LaptopSends
  <2> HIDE DEF unix
  <2>4. ASSUME NEW p \in packet'
        PROVE  /\ p.sent <= now /\ now - p.sent <= MaxTransit
               /\ p.unix * UsPerMs <= True(p.sent)
               /\ True(p.sent) <= p.unix * UsPerMs + (UsPerMs - 1)
    <3>1. CASE p \in packet
      BY <3>1 DEF PacketsRight
    <3>2. CASE p = [unix |-> unix, sent |-> now]
      BY <1>1, <2>2, <3>2
    <3>3. QED
      BY <2>3, <2>4, <3>1, <3>2
  <2>5. QED
    BY <2>3, <2>4 DEF PacketsRight
<1>4. CASE Tick
  <2>1. /\ packet' = packet /\ now' = now + 1
        /\ \A p \in packet : now - p.sent < MaxTransit
    BY <1>4 DEF Tick
  <2>2. QED
    BY <1>1, <2>1 DEF PacketsRight
<1>5. CASE PacketArrives \/ LaptopWaits \/ RequestArrives \/ StatusSent
           \/ GatewayRestarts \/ C6Refuses
  BY <1>2, <1>5 DEF PacketArrives, LaptopWaits, RequestArrives, StatusSent,
    GatewayRestarts, C6Refuses, wayVars
<1>6. CASE WorkerPolls \/ SendFails \/ SampleArrives \/ Controlled \/ Captures
           \/ UNCHANGED vars
  BY <1>2, <1>6 DEF WorkerPolls, SendFails, SampleArrives, Controlled, Captures, vars,
    wayVars
<1>7. QED
  BY <1>3, <1>4, <1>5, <1>6 DEF Next

LEMMA AnchorNext ==
  TypeOK /\ PacketsRight /\ AnchorRight /\ [Next]_vars => AnchorRight'
<1> SUFFICES ASSUME TypeOK, PacketsRight, AnchorRight, [Next]_vars PROVE AnchorRight'
  OBVIOUS
<1>1. CASE PacketArrives
  <2>1. PICK p \in packet, imaging \in BOOLEAN :
          Gateway!AcceptTime(p.unix, GatewayMono, imaging)
    BY <1>1 DEF PacketArrives
  <2>2. now' = now
    BY <1>1 DEF PacketArrives
  <2>3. QED
    BY <2>1, <2>2, AcceptRight
<1>2. CASE GatewayRestarts
  BY <1>2 DEF GatewayRestarts, Gateway!ClockReboot, AnchorRight
<1>3. ASSUME anchor' = anchor, now' = now \/ now' = now + 1
      PROVE  AnchorRight'
  <2>1. now \in Nat /\ GatewayLead \in Nat /\ (anchor # NoAnchor => anchor.mono \in Nat)
    BY Constant DEF TypeOK
  <2>2. QED
    BY <1>3, <2>1 DEF AnchorRight
<1>4. CASE LaptopSends \/ LaptopWaits \/ RequestArrives \/ StatusSent \/ C6Refuses
  BY <1>3, <1>4 DEF LaptopSends, LaptopWaits, RequestArrives, StatusSent, C6Refuses,
    Gateway!BeginTimeRequest, Gateway!FinishTimeRequest, gatewayVars
<1>5. CASE WorkerPolls \/ SendFails \/ SampleArrives \/ Controlled \/ Captures \/ Tick
           \/ UNCHANGED vars
  BY <1>3, <1>5 DEF WorkerPolls, SendFails, SampleArrives, Controlled, Captures, Tick,
    vars, gatewayVars
<1>6. QED
  BY <1>1, <1>2, <1>4, <1>5 DEF Next

LEMMA ServingNext ==
  TypeOK /\ QueriesPast /\ AnchorRight /\ ServingRight /\ [Next]_vars => ServingRight'
<1> SUFFICES ASSUME TypeOK, QueriesPast, AnchorRight, ServingRight, [Next]_vars
             PROVE  ServingRight'
  OBVIOUS
<1>1. now \in Nat /\ now \in Time
  BY DEF TypeOK, Time
<1>2. CASE RequestArrives
  <2>1. PICK q \in queries : Gateway!BeginTimeRequest(q, GatewayMono)
    BY <1>2 DEF RequestArrives
  <2>2. serving' = [query |-> q, rx |-> Gateway!LaptopClockNow(GatewayMono)] /\ now' = now
    BY <1>2, <2>1 DEF RequestArrives, Gateway!BeginTimeRequest
  <2>3. serving'.rx # 0 => ReadAt(serving'.rx, now)
    BY <2>2, ReadingRight
  <2>4. serving'.query.tx <= now
    BY <2>2 DEF QueriesPast
  <2>5. QED
    BY <1>1, <2>2, <2>3, <2>4 DEF ServingRight, ReadAt, True
<1>3. CASE StatusSent \/ GatewayRestarts
  BY <1>3 DEF StatusSent, Gateway!FinishTimeRequest, GatewayRestarts,
    Gateway!ClockReboot, ServingRight
<1>4. ASSUME serving' = serving, now' = now \/ now' = now + 1
      PROVE  ServingRight'
  <2>1. SUFFICES ASSUME serving # NoRequest, serving.rx # 0
                 PROVE  \E t \in Time :
                          serving.query.tx <= t /\ t <= now' /\ ReadAt(serving.rx, t)
    BY <1>4 DEF ServingRight, ReadAt, True
  <2>2. PICK t \in Time : serving.query.tx <= t /\ t <= now /\ ReadAt(serving.rx, t)
    BY <2>1 DEF ServingRight
  <2>3. t <= now'
    BY <1>1, <1>4, <2>2 DEF Time
  <2>4. QED
    BY <2>2, <2>3
<1>5. CASE LaptopSends \/ LaptopWaits \/ PacketArrives \/ C6Refuses
  BY <1>4, <1>5 DEF LaptopSends, LaptopWaits, PacketArrives, C6Refuses,
    Gateway!AcceptTime, gatewayVars
<1>6. CASE WorkerPolls \/ SendFails \/ SampleArrives \/ Controlled \/ Captures \/ Tick
           \/ UNCHANGED vars
  BY <1>4, <1>6 DEF WorkerPolls, SendFails, SampleArrives, Controlled, Captures, Tick,
    vars, gatewayVars
<1>7. QED
  BY <1>2, <1>3, <1>5, <1>6 DEF Next

LEMMA AnswersNext ==
  TypeOK /\ AnchorRight /\ ServingRight /\ AnswersRight /\ [Next]_vars => AnswersRight'
<1> SUFFICES ASSUME TypeOK, AnchorRight, ServingRight, AnswersRight, [Next]_vars
             PROVE  AnswersRight'
  OBVIOUS
<1> DEFINE Good(a, end) ==
             \E t, u \in Time :
               /\ a.query.tx <= t /\ t <= u /\ u <= end
               /\ ReadAt(a.rx, t) /\ ReadAt(a.tx, u)
<1>1. now \in Nat /\ now \in Time
  BY DEF TypeOK, Time
<1>2. now' = now \/ now' = now + 1
  BY DEF Next, LaptopSends, LaptopWaits, PacketArrives, RequestArrives, StatusSent,
    GatewayRestarts, C6Refuses, WorkerPolls, SendFails, SampleArrives, Controlled,
    Captures, Tick, vars
<1>3. ASSUME NEW a \in answers, a.status = "OK"
      PROVE  Good(a, now')
  <2>1. PICK t \in Time, u \in Time :
          /\ a.query.tx <= t /\ t <= u /\ u <= now
          /\ ReadAt(a.rx, t) /\ ReadAt(a.tx, u)
    BY <1>3 DEF AnswersRight
  <2>2. u <= now'
    BY <1>1, <1>2, <2>1 DEF Time
  <2>3. QED
    BY <2>1, <2>2
<1>4. ASSUME \A a \in answers' : a.status = "OK" => a \in answers \/ Good(a, now')
      PROVE  AnswersRight'
  <2>1. \A a \in answers' : a.status = "OK" => Good(a, now')
    BY <1>3, <1>4
  <2>2. QED
    BY <2>1 DEF AnswersRight, ReadAt, True
<1>5. CASE StatusSent
  <2> DEFINE a == Gateway!TimeStatus(GatewayMono)
  <2>1. answers' = answers \cup {a} /\ serving # NoRequest /\ now' = now
    BY <1>5 DEF StatusSent, Gateway!FinishTimeRequest
  <2>2. a.status = "OK" =>
          /\ serving.rx # 0 /\ Gateway!LaptopClockNow(GatewayMono) # 0
          /\ a.query = serving.query /\ a.rx = serving.rx
          /\ a.tx = Gateway!LaptopClockNow(GatewayMono)
    BY DEF Gateway!TimeStatus
  <2> HIDE DEF a
  <2>3. ASSUME a.status = "OK" PROVE Good(a, now')
    <3>1. PICK t \in Time : serving.query.tx <= t /\ t <= now /\ ReadAt(serving.rx, t)
      BY <2>1, <2>2, <2>3 DEF ServingRight
    <3>2. ReadAt(a.tx, now)
      BY <2>2, <2>3, ReadingRight
    <3>3. now <= now'
      BY <1>1, <2>1
    <3>4. QED
      BY <1>1, <2>2, <2>3, <3>1, <3>2, <3>3
  <2>4. QED
    BY <1>4, <2>1, <2>3
<1>6. CASE C6Refuses
  BY <1>4, <1>6 DEF C6Refuses
<1>7. CASE answers' \subseteq answers
  BY <1>4, <1>7
<1>8. CASE LaptopSends \/ LaptopWaits \/ PacketArrives \/ RequestArrives
           \/ GatewayRestarts
  BY <1>7, <1>8 DEF LaptopSends, LaptopWaits, PacketArrives, RequestArrives,
    GatewayRestarts, wayVars
<1>9. CASE WorkerPolls \/ SendFails \/ SampleArrives \/ Controlled \/ Captures \/ Tick
           \/ UNCHANGED vars
  BY <1>7, <1>9 DEF WorkerPolls, SendFails, SampleArrives, Controlled, Captures, Tick,
    vars, wayVars
<1>10. QED
  BY <1>5, <1>6, <1>8, <1>9 DEF Next

\* An answer that is used is one to the query outstanding.
LEMMA SampleRight ==
  ASSUME TypeOK, QueriesPast, AnswersRight, NEW a \in answers,
         ~P4!Stale(a, now), a.status = "OK", P4!Plausible(a, now - asked.tx)
  PROVE  LET m == P4!Mapped(a, now)
             half == (m.delay + Skew) \div 2 + 1
         IN  /\ m.unix <= True(m.mono) + half
             /\ True(m.mono) <= m.unix + half + Skew
<1> DEFINE r == a.rx * UsPerMs
           s == a.tx * UsPerMs
<1>1. asked # NoQuery /\ a.query = asked /\ a.rx <= a.tx
  BY DEF P4!Stale, P4!Matches, P4!Plausible
<1>2. /\ now \in Nat /\ asked.tx \in Nat /\ asked.tx <= now
      /\ a.rx \in Nat /\ a.tx \in Nat /\ UsPerMs \in Nat \ {0}
      /\ LaptopLead \in Nat /\ Skew \in Nat
  BY <1>1, Constant DEF TypeOK, QueriesPast, Query, Time, Sample, Skew
<1>3. PICK t \in Nat, u \in Nat :
         /\ asked.tx <= t /\ t <= u /\ u <= now
         /\ ReadAt(a.rx, t) /\ ReadAt(a.tx, u)
  BY <1>1 DEF AnswersRight, Time
<1>4. /\ r <= t + LaptopLead /\ t + LaptopLead <= r + Skew
      /\ s <= u + LaptopLead /\ u + LaptopLead <= s + Skew
  BY <1>3 DEF ReadAt, True
<1>5. (a.tx - a.rx) * UsPerMs = s - r /\ r \in Nat /\ s \in Nat /\ r <= s
  <2>1. (a.tx - a.rx) * UsPerMs = s - r /\ r \in Nat /\ s \in Nat
    BY <1>2, Products
  <2>2. (a.tx - a.rx) * UsPerMs \in Nat
    <3>1. a.tx - a.rx \in Nat
      BY <1>1, <1>2
    <3>2. QED
      BY <1>2, <3>1
  <2>3. QED
    BY <2>1, <2>2
<1> DEFINE delay == IF now - asked.tx > s - r THEN now - asked.tx - (s - r) ELSE 0
<1>6. P4!Mapped(a, now) =
        [mono |-> asked.tx + (now - asked.tx) \div 2, unix |-> r + (s - r) \div 2,
         refreshed |-> now, delay |-> delay]
  BY <1>5 DEF P4!Mapped
<1> HIDE DEF r, s
<1>7. delay \in Nat
  BY <1>2, <1>5
<1> HIDE DEF delay
<1>8. delay = IF now - asked.tx > s - r THEN now - asked.tx - (s - r) ELSE 0
  BY DEF delay
<1>9. /\ r + (s - r) \div 2
           <= asked.tx + (now - asked.tx) \div 2 + LaptopLead + ((delay + Skew) \div 2 + 1)
      /\ asked.tx + (now - asked.tx) \div 2 + LaptopLead
           <= r + (s - r) \div 2 + ((delay + Skew) \div 2 + 1) + Skew
  <2>1. PICK skew \in Nat, lead \in Nat : skew = Skew /\ lead = LaptopLead
    BY <1>2
  <2>2. now \in Nat /\ asked.tx <= t /\ t <= u /\ u <= now
    BY <1>2, <1>3
  <2>3. /\ r <= t + lead /\ t + lead <= r + skew
        /\ s <= u + lead /\ u + lead <= s + skew
    BY <1>4, <2>1
  <2>4. PICK t0 \in Nat : t0 = asked.tx
    BY <1>2
  <2>5. /\ r + (s - r) \div 2 <= t0 + (now - t0) \div 2 + lead + ((delay + skew) \div 2 + 1)
        /\ t0 + (now - t0) \div 2 + lead
             <= r + (s - r) \div 2 + ((delay + skew) \div 2 + 1) + skew
    BY <1>5, <1>7, <1>8, <2>2, <2>3, <2>4, MappedRight
  <2>6. QED
    BY <2>1, <2>4, <2>5
<1>10. QED
  BY <1>6, <1>9 DEF True

LEMMA MappingNext ==
  TypeOK /\ QueriesPast /\ AnswersRight /\ MappingRight /\ [Next]_vars => MappingRight'
<1> SUFFICES ASSUME TypeOK, QueriesPast, AnswersRight, MappingRight, [Next]_vars
             PROVE  MappingRight'
  OBVIOUS
<1>1. CASE mapping' = mapping \/ mapping' = NoMapping
  BY <1>1 DEF MappingRight, Half, True, Skew
<1>2. CASE SampleArrives
  <2>1. PICK a \in answers : P4!HearSample(a, now)
    BY <1>2 DEF SampleArrives
  <2>2. CASE /\ ~P4!Stale(a, now) /\ a.status = "OK" /\ P4!Plausible(a, now - asked.tx)
             /\ mapping' = P4!Mapped(a, now)
    BY <2>1, <2>2, SampleRight DEF MappingRight, Half, True, Skew
  <2>3. QED
    BY <1>1, <2>1, <2>2 DEF P4!HearSample, P4!Applied
<1>3. CASE LaptopSends \/ LaptopWaits \/ PacketArrives \/ RequestArrives \/ StatusSent
           \/ GatewayRestarts \/ C6Refuses
  BY <1>1, <1>3 DEF LaptopSends, LaptopWaits, PacketArrives, RequestArrives, StatusSent,
    GatewayRestarts, C6Refuses, p4Vars
<1>4. CASE WorkerPolls \/ SendFails \/ Captures \/ Tick \/ UNCHANGED vars
  BY <1>1, <1>4 DEF WorkerPolls, P4!PrepareTimeQuery, SendFails, P4!TransportDown,
    P4!Invalidated, Captures, P4!Capture, Tick, vars, p4Vars
<1>5. CASE Controlled
  BY <1>1, <1>5 DEF Controlled, P4!TransportUp, P4!TransportDown, P4!HearReady,
    P4!CpInit, P4!HearNotReady, P4!Occupied, P4!Invalidated
<1>6. QED
  BY <1>2, <1>3, <1>4, <1>5 DEF Next

\* A capture time the P4 hands out is right up to the path delay it measured
\* itself and the way of a packet, whatever was lost, repeated or late and
\* however the gateway's clock was set in between: both of the gateway's
\* readings were right when they were made, between the query and its answer
\* (sdio_time_clock_apply_sample, sdio_time_clock_now_ms, laptop_clock_now).
THEOREM CaptureTimes == Spec => []CaptureTimeAccurate
<1>1. TypeOK /\ MappingRight => CaptureTimeAccurate
  <2> SUFFICES ASSUME TypeOK, MappingRight, P4!NowMs(now) # 0
               PROVE  LET us == P4!NowMs(now) * UsPerMs
                      IN  /\ us <= True(now) + Half
                          /\ us > True(now) - Skew - Half - UsPerMs
    BY DEF CaptureTimeAccurate, Half
  <2> DEFINE x == mapping.unix + (now - mapping.mono)
             us == (x \div UsPerMs) * UsPerMs
  <2>1. mapping # NoMapping /\ mapping.mono <= now /\ P4!NowMs(now) = x \div UsPerMs
    BY DEF P4!NowMs, P4!Fresh
  <2>2. /\ now \in Nat /\ mapping.mono \in Nat /\ mapping.unix \in Nat
        /\ mapping.delay \in Nat /\ LaptopLead \in Nat /\ Skew \in Nat
        /\ UsPerMs \in Nat \ {0}
    BY <2>1, Constant DEF TypeOK, Time, Skew
  <2>3. x \in Nat
    BY <2>1, <2>2
  <2>4. us \in Int /\ us <= x /\ x <= us + (UsPerMs - 1)
    <3>1. PICK y \in Nat : y = x
      BY <2>3
    <3>2. /\ y \div UsPerMs \in Nat
          /\ (y \div UsPerMs) * UsPerMs <= y
          /\ y <= (y \div UsPerMs) * UsPerMs + (UsPerMs - 1)
      BY <2>2, Quotients
    <3>3. (y \div UsPerMs) * UsPerMs \in Int
      BY <2>2, <3>2
    <3>4. QED
      BY <3>1, <3>2, <3>3
  <2>5. Half \in Int
    <3>1. (mapping.delay + Skew) \div 2 \in Int
      BY <2>2, Halves
    <3>2. QED
      BY <3>1 DEF Half
  <2>6. /\ mapping.unix <= mapping.mono + LaptopLead + Half
        /\ mapping.mono + LaptopLead <= mapping.unix + Half + Skew
    BY <2>1 DEF MappingRight, True
  <2>7. x = mapping.unix + (now - mapping.mono)
    OBVIOUS
  <2> HIDE DEF x, us
  <2>8. us <= now + LaptopLead + Half /\ us > now + LaptopLead - Skew - Half - UsPerMs
    BY <2>2, <2>3, <2>4, <2>5, <2>6, <2>7
  <2>9. P4!NowMs(now) * UsPerMs = us
    BY <2>1 DEF us
  <2>10. QED
    BY <2>2, <2>4, <2>5, <2>8, <2>9 DEF True
<1>2. AccuracyInv /\ (TypeOK /\ QueriesPast) /\ [Next]_vars => AccuracyInv'
  BY PacketsNext, AnchorNext, ServingNext, AnswersNext, MappingNext DEF AccuracyInv
<1>3. (TypeOK /\ QueriesPast) /\ AccuracyInv => CaptureTimeAccurate
  BY <1>1 DEF AccuracyInv
<1>4. QED
  BY <1>2, <1>3, AccuracyInit, PastInvariant, PTL DEF Spec
=============================================================================
