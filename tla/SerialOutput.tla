----------------------------- MODULE SerialOutput -----------------------------
(***************************************************************************)
(* The gateway's image output on the console UART                          *)
(* (server_serial_adapter.c): the completion callback copies an image into *)
(* a free slot, the writer task writes it as one record to stdout.  Both   *)
(* tasks interleave between any two of their steps.  A byte of the record  *)
(* is a unit <<kind, image, number>>: the magic, the rest of the header,   *)
(* and Payload[image].  Definitions named Bug... are faults for the        *)
(* mutation of the definition that follows them.                           *)
(***************************************************************************)
EXTENDS Integers, Sequences

CONSTANTS
  Image,      \* 1 .. n: the images, in the order of their completion
  Payload,    \* their JPEGs, as sequences of units
  SlotCount,  \* SERIAL_SLOT_COUNT
  NoJob

VARIABLES
  free,          \* how many slots lie in s_free_slots
  pendingSlots,  \* s_pending_slots: jobs [image, seq]
  transmitting,  \* s_transmitting
  dropped,       \* s_dropped_images
  nextSeq,       \* s_next_sequence
  callback,      \* image_complete: its job and the step it is at, or NoJob
  writer,        \* serial_writer_task: its job, step and units left, or NoJob
  uart,          \* the bytes sent and not yet read by the laptop
  tally          \* what became of the images, for the accounts

outputVars == <<free, pendingSlots, transmitting, dropped, nextSeq, callback,
                writer, uart, tally>>

Magic == <<"magic", 0, 0>>
Noise == <<"noise", 0, 0>>
Header(job) == <<Magic, <<"head", job.image, job.seq>>>>
Record(job) == Header(job) \o Payload[job.image]

OutputInit ==
  /\ free = SlotCount /\ pendingSlots = <<>>
  /\ transmitting = FALSE /\ dropped = 0 /\ nextSeq = 1
  /\ callback = NoJob /\ writer = NoJob
  /\ uart = <<>>
  /\ tally = [completed |-> 0, reported |-> 0, ended |-> {}, intact |-> {}]

-----------------------------------------------------------------------------
(* image_complete, called by the Mesh side with one verified image *)

NextImage == tally.completed + 1

BugDropImage ==
  /\ callback = NoJob
  /\ NextImage \in Image
  /\ free = 0
  /\ dropped' = dropped + 1
  /\ nextSeq' = nextSeq + 1
  /\ tally' = [tally EXCEPT !.completed = NextImage]
  /\ UNCHANGED <<free, pendingSlots, transmitting, callback, writer, uart>>

\* No slot: the image is counted as dropped and takes no sequence number.
DropImage ==
  /\ callback = NoJob
  /\ NextImage \in Image
  /\ free = 0
  /\ dropped' = dropped + 1
  /\ tally' = [tally EXCEPT !.completed = NextImage]
  /\ UNCHANGED <<free, pendingSlots, transmitting, nextSeq, callback, writer, uart>>

TakeSlot ==
  /\ callback = NoJob
  /\ NextImage \in Image
  /\ free > 0
  /\ free' = free - 1
  /\ callback' = [job |-> [image |-> NextImage, seq |-> nextSeq], pc |-> "flag"]
  /\ nextSeq' = nextSeq + 1
  /\ tally' = [tally EXCEPT !.completed = NextImage]
  /\ UNCHANGED <<pendingSlots, transmitting, dropped, writer, uart>>

RaiseFlag ==
  /\ callback # NoJob /\ callback.pc = "flag"
  /\ transmitting' = TRUE
  /\ callback' = [callback EXCEPT !.pc = "queue"]
  /\ UNCHANGED <<free, pendingSlots, dropped, nextSeq, writer, uart, tally>>

\* The queue holds every slot there is, so that the send does not fail.
QueueSlot ==
  /\ callback # NoJob /\ callback.pc = "queue"
  /\ pendingSlots' = Append(pendingSlots, callback.job)
  /\ callback' = NoJob
  /\ UNCHANGED <<free, transmitting, dropped, nextSeq, writer, uart, tally>>

-----------------------------------------------------------------------------
(* serial_writer_task *)

TakeJob ==
  /\ writer = NoJob
  /\ pendingSlots # <<>>
  /\ writer' = [job |-> Head(pendingSlots), pc |-> "write",
                left |-> Record(Head(pendingSlots)), whole |-> TRUE]
  /\ pendingSlots' = Tail(pendingSlots)
  /\ UNCHANGED <<free, transmitting, dropped, nextSeq, callback, uart, tally>>

Writing == writer # NoJob /\ writer.pc = "write"

\* One more byte of the record; sent is what reaches the line of it.
WriteUnit(sent) ==
  /\ Writing /\ writer.left # <<>>
  /\ uart' = uart \o sent
  /\ writer' = [writer EXCEPT !.left = Tail(@),
                              !.whole = @ /\ sent = <<Head(writer.left)>>]
  /\ UNCHANGED <<free, pendingSlots, transmitting, dropped, nextSeq, callback, tally>>

BugRecordEnds(steps) ==
  IF steps = "flag" THEN free' = free + 1 /\ UNCHANGED transmitting
  ELSE transmitting' = FALSE /\ UNCHANGED free

\* The flag is cleared before the slot is given back.
RecordEnds(steps) ==
  IF steps = "flag" THEN transmitting' = FALSE /\ UNCHANGED free
  ELSE free' = free + 1 /\ UNCHANGED transmitting

\* write_record returns: all is written, or a write failed and the rest is
\* left out; the flag is cleared.
FinishWrite ==
  /\ Writing
  /\ RecordEnds("flag")
  /\ writer' = [writer EXCEPT !.pc = "report",
                              !.whole = @ /\ writer.left = <<>>]
  /\ UNCHANGED <<pendingSlots, dropped, nextSeq, callback, uart, tally>>

BugTaken(count) == 0

\* take_dropped_images hands over the count and starts anew.
Taken(count) == count

ReportDrops ==
  /\ writer # NoJob /\ writer.pc = "report"
  /\ dropped' = dropped - Taken(dropped)
  /\ writer' = [writer EXCEPT !.pc = "return"]
  /\ tally' = [tally EXCEPT !.reported = @ + dropped,
                            !.ended = @ \cup {writer.job},
                            !.intact = IF writer.whole THEN @ \cup {writer.job} ELSE @]
  /\ UNCHANGED <<free, pendingSlots, transmitting, nextSeq, callback, uart>>

ReturnSlot ==
  /\ writer # NoJob /\ writer.pc = "return"
  /\ RecordEnds("slot")
  /\ writer' = NoJob
  /\ UNCHANGED <<pendingSlots, dropped, nextSeq, callback, uart, tally>>

\* Other output: the logger takes the same FILE lock as write_record.
WriteLog ==
  /\ ~Writing
  /\ uart' = Append(uart, Noise)
  /\ UNCHANGED <<free, pendingSlots, transmitting, dropped, nextSeq, callback,
                 writer, tally>>
================================================================================
