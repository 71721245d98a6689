------------------------------ MODULE SerialHost ------------------------------
(***************************************************************************)
(* The laptop's receive loop (tools/receive_images.py): ImageStreamParser, *)
(* PartialRecordDeadline, SequenceTracker and the saving of records.  One  *)
(* thread; an action is one read, one turn of the parser's loop or one     *)
(* look at the deadline.  The magic is one unit, a header two: a magic cut *)
(* by the end of a chunk is a header cut there.  Definitions named Bug...  *)
(* are faults for the mutation of the definition that follows them.        *)
(***************************************************************************)
EXTENDS Integers, Sequences, FiniteSetsExt

CONSTANTS
  Payload,  \* as in SerialOutput
  Timeout,  \* partial_timeout_s, in ticks
  NoTimer   \* PartialRecordDeadline.started_at is None

VARIABLES
  uart,      \* as in SerialOutput
  buffer,    \* ImageStreamParser._buffer
  host,      \* the step of the loop
  started,   \* ticks since started_at, or NoTimer
  lastSeq,   \* SequenceTracker._last_global; 0: none yet
  gaps,      \* how often a gap in the sequence was reported
  saved      \* the records saved, in order

hostVars == <<buffer, host, started, lastSeq, gaps, saved>>

HeaderSize == 2
Magic == <<"magic", 0, 0>>

HostInit ==
  /\ buffer = <<>> /\ host = "read" /\ started = NoTimer
  /\ lastSeq = 0 /\ gaps = 0 /\ saved = <<>>

From(units, n) == SubSeq(units, n, Len(units))

-----------------------------------------------------------------------------
(* ImageStreamParser *)

\* decode_header: the CRC tells a header from anything else.
ValidHeader(units) ==
  Len(units) >= HeaderSize /\ units[1] = Magic /\ units[2][1] = "head"

RecordSize(units) == HeaderSize + Len(Payload[units[2][2]])

\* has_incomplete_record
Incomplete == ValidHeader(buffer) /\ Len(buffer) < RecordSize(buffer)

\* validate_jpeg
ValidRecord(units) ==
  SubSeq(units, HeaderSize + 1, RecordSize(units)) = Payload[units[2][2]]

MagicAt == {n \in DOMAIN buffer : buffer[n] = Magic}

\* The buffer from the next magic on; what is before it is noise.
Candidate == IF MagicAt = {} THEN <<>> ELSE From(buffer, Min(MagicAt))

Waits(units) ==
  \/ Len(units) < HeaderSize
  \/ ValidHeader(units) /\ Len(units) < RecordSize(units)

BugAfterBadRecord(units) == From(units, RecordSize(units) + 1)

\* A corrupt payload's boundary is not trusted: one byte goes, not the record.
AfterBadRecord(units) == Tail(units)

\* SequenceTracker.observe and ImageSink.save
SaveRecord(units) ==
  LET seq == units[2][3]
  IN  /\ saved' = Append(saved, [image |-> units[2][2], seq |-> seq])
      /\ gaps' = IF lastSeq # 0 /\ seq # lastSeq + 1 THEN gaps + 1 ELSE gaps
      /\ lastSeq' = seq

Unsaved == UNCHANGED <<saved, gaps, lastSeq>>

\* One turn of feed's loop; then is where the loop ends.
Turn(then) ==
  LET units == Candidate
  IN  /\ IF Waits(units)
         THEN /\ buffer' = units /\ host' = then
              /\ Unsaved
         ELSE IF ~ValidHeader(units)
         THEN /\ buffer' = Tail(units) /\ UNCHANGED host
              /\ Unsaved
         ELSE IF ~ValidRecord(units)
         THEN /\ buffer' = AfterBadRecord(units) /\ UNCHANGED host
              /\ Unsaved
         ELSE /\ buffer' = From(units, RecordSize(units) + 1)
              /\ UNCHANGED host
              /\ SaveRecord(units)
      /\ UNCHANGED <<uart, started>>

Feed == host = "feed" /\ Turn("deadline")
FeedRest == host = "rest" /\ Turn("again")

-----------------------------------------------------------------------------
(* The receive loop *)

\* uart.read returns some of what is there.
Read ==
  /\ host = "read"
  /\ \E n \in 1 .. Len(uart) :
       /\ buffer' = buffer \o SubSeq(uart, 1, n)
       /\ uart' = From(uart, n + 1)
  /\ host' = "feed"
  /\ UNCHANGED <<started, lastSeq, gaps, saved>>

\* Nothing is there: the read returns empty when a tick has passed.
ReadNothing ==
  /\ host = "read" /\ uart = <<>>
  /\ host' = "deadline"
  /\ started' = IF started = NoTimer THEN started ELSE Min({started + 1, Timeout})
  /\ UNCHANGED <<uart, buffer, lastSeq, gaps, saved>>

BugDue(elapsed) == FALSE

Due(elapsed) == elapsed >= Timeout

\* PartialRecordDeadline.observe; when it fires, expire_incomplete_record
\* drops the first byte and feeds the rest again.
Observe ==
  /\ host = "deadline"
  /\ IF ~Incomplete
     THEN started' = NoTimer /\ host' = "read" /\ UNCHANGED buffer
     ELSE IF started = NoTimer
     THEN started' = 0 /\ host' = "read" /\ UNCHANGED buffer
     ELSE IF ~Due(started)
     THEN host' = "read" /\ UNCHANGED <<started, buffer>>
     ELSE started' = 0 /\ host' = "rest" /\ buffer' = Tail(buffer)
  /\ UNCHANGED <<uart, lastSeq, gaps, saved>>

\* The second observe, which cannot fire again at the same time
ObserveAgain ==
  /\ host = "again"
  /\ started' = IF Incomplete THEN started ELSE NoTimer
  /\ host' = "read"
  /\ UNCHANGED <<uart, buffer, lastSeq, gaps, saved>>

HostSteps == Read \/ Feed \/ FeedRest \/ Observe \/ ObserveAgain
================================================================================
