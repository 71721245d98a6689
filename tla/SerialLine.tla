------------------------------ MODULE SerialLine ------------------------------
(***************************************************************************)
(* The console UART from the gateway to the laptop: SerialOutput and       *)
(* SerialHost joined by the bytes on the line, which may be damaged or     *)
(* lost, and by the time between them.  What the laptop sends is in        *)
(* TimeSync.                                                               *)
(***************************************************************************)
EXTENDS Integers, Sequences, FiniteSetsExt

CONSTANTS
  Image, Payload, SlotCount, NoJob, Timeout, NoTimer,
  Gaps,     \* environment: the ticks from the end of a record to the next image
  MaxHarm,  \* bound: damaged or lost bytes and failed writes, together
  MaxLogs   \* bound: pieces of other output

Unit == {"magic", "head", "body", "noise"} \X Nat \X Nat

\* The CRC of a header makes it unlikely that an image has a header among its
\* bytes; that it has the magic is nothing special.
ASSUME SerialLineAssumption ==
  /\ Image \subseteq Nat \ {0}
  /\ Payload \in [Image -> Seq(Unit)]
  /\ \A image \in Image :
       \A n \in DOMAIN Payload[image] : Payload[image][n][1] # "head"
  /\ SlotCount \in Nat \ {0}
  /\ NoJob \notin [job : [image : Nat, seq : Nat], pc : {"flag", "queue"}]
  /\ NoJob \notin [job : [image : Nat, seq : Nat], pc : {"write", "report", "return"},
                   left : Seq(Unit), whole : BOOLEAN]
  /\ {Timeout, MaxHarm, MaxLogs} \subseteq Nat /\ NoTimer \notin Nat
  /\ Gaps \subseteq Nat /\ Gaps # {} /\ IsFiniteSet(Gaps)

VARIABLES
  free, pendingSlots, transmitting, dropped, nextSeq, callback, writer, uart,
  tally

VARIABLES buffer, host, started, lastSeq, gaps, saved

VARIABLES
  quiet,  \* ticks since the writer was last at work, up to the longest gap
  paced,  \* the current record has had its tick
  harm,   \* what MaxHarm bounds, so far
  logs    \* what MaxLogs bounds, so far

Server == INSTANCE SerialOutput
Laptop == INSTANCE SerialHost

serverOnly == <<free, pendingSlots, transmitting, dropped, nextSeq, callback,
                writer, tally>>
hostVars == <<buffer, host, started, lastSeq, gaps, saved>>
lineVars == <<quiet, paced, harm, logs>>
vars == <<serverOnly, uart, hostVars, lineVars>>

Init ==
  /\ Server!OutputInit
  /\ Laptop!HostInit
  /\ quiet = Max(Gaps) /\ paced = FALSE /\ harm = 0 /\ logs = 0

Harmed == harm < MaxHarm /\ harm' = harm + 1

-----------------------------------------------------------------------------
\* An image while the writer is at work, or after one of the gaps
ImageCompletes ==
  /\ quiet \in Gaps \/ writer # NoJob
  /\ Server!DropImage \/ Server!TakeSlot
  /\ UNCHANGED <<hostVars, lineVars>>

CallbackContinues ==
  /\ Server!RaiseFlag \/ Server!QueueSlot
  /\ UNCHANGED <<hostVars, lineVars>>

WriterStarts ==
  /\ Server!TakeJob
  /\ paced' = FALSE
  /\ UNCHANGED <<hostVars, quiet, harm, logs>>

\* A byte is sent; on the line it may be damaged or lost.
ByteSent ==
  /\ \/ Server!WriteUnit(<<Head(writer.left)>>) /\ UNCHANGED harm
     \/ Server!WriteUnit(<<Server!Noise>>) /\ Harmed
     \/ Server!WriteUnit(<<>>) /\ Harmed
  /\ UNCHANGED <<hostVars, quiet, paced, logs>>

WriteReturns ==
  /\ Server!FinishWrite
  /\ IF writer.left = <<>> THEN UNCHANGED harm ELSE Harmed
  /\ quiet' = 0
  /\ UNCHANGED <<hostVars, paced, logs>>

WriterContinues ==
  /\ Server!ReportDrops \/ Server!ReturnSlot
  /\ UNCHANGED <<hostVars, lineVars>>

OtherOutput ==
  /\ logs < MaxLogs
  /\ Server!WriteLog
  /\ logs' = logs + 1
  /\ UNCHANGED <<hostVars, quiet, paced, harm>>

LaptopWorks ==
  /\ Laptop!HostSteps
  /\ UNCHANGED <<serverOnly, lineVars>>

\* Time is spent on the line: the laptop keeps up with it, the gateway's tasks
\* do not wait, and a tick is the longest that a record takes.
Tick ==
  /\ Laptop!ReadNothing
  /\ callback = NoJob /\ pendingSlots = <<>>
  /\ writer = NoJob \/ (Server!Writing /\ ~paced)
  /\ quiet' = IF Server!Writing THEN quiet ELSE Min({quiet + 1, Max(Gaps)})
  /\ paced' = Server!Writing
  /\ UNCHANGED <<serverOnly, harm, logs>>

Next ==
  \/ ImageCompletes \/ CallbackContinues
  \/ WriterStarts \/ ByteSent \/ WriteReturns \/ WriterContinues \/ OtherOutput
  \/ LaptopWorks \/ Tick

Spec == Init /\ [][Next]_vars

\* Both processors run, and time passes: an empty read returns.
FairSpec ==
  /\ Spec
  /\ WF_vars(LaptopWorks) /\ WF_vars(Tick)
  /\ WF_vars(CallbackContinues) /\ WF_vars(WriterStarts) /\ WF_vars(ByteSent)
  /\ WF_vars(WriteReturns /\ writer.left = <<>>) /\ WF_vars(WriterContinues)

-----------------------------------------------------------------------------
\* While a record is being written the adapter says that it is transmitting,
\* so that no time packet is used then (decode_and_accept): the flag of one
\* record must not be cleared by the end of another.
FlagCoversRecord == Server!Writing => transmitting

\* Every completed image is written, on its way or counted as dropped, once:
\* the two tasks lose no count (image_complete, take_dropped_images).
ImagesAccounted ==
  tally.completed = Cardinality(tally.ended) + tally.reported + dropped
    + Len(pendingSlots)
    + Cardinality({task \in {callback, writer} : task # NoJob})
    - (IF writer # NoJob /\ writer.pc = "return" THEN 1 ELSE 0)

\* The laptop reports a gap exactly where a record was lost on the line; an
\* image the gateway dropped leaves none (image_complete, SequenceTracker).
GapsAreLostRecords ==
  gaps = Cardinality({n \in 1 .. Len(saved) - 1 :
    \E job \in tally.ended : saved[n].seq < job.seq /\ job.seq < saved[n + 1].seq})

\* A record that came over the line unharmed is saved when the line is still
\* and the parser waits for nothing, whatever was damaged, cut short or
\* written before it (feed, expire_incomplete_record, PartialRecordDeadline).
IntactSaved ==
  host = "read" /\ uart = <<>> /\ writer = NoJob /\ ~Laptop!Incomplete
    => \A job \in tally.intact : \E n \in DOMAIN saved : saved[n] = job

\* A record cut short does not hold up the parser, and with it the laptop's
\* time packets, for ever (PartialRecordDeadline, has_incomplete_record).
CandidateResolved == Laptop!Incomplete ~> ~Laptop!Incomplete
================================================================================
