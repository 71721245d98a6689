-------------------------- MODULE SerialLine_proofs --------------------------
(***************************************************************************)
(* Proofs about the console line, for every number of images and slots,    *)
(* any JPEGs, any gaps between the images and any damage, failed writes    *)
(* and other output.                                                       *)
(***************************************************************************)
EXTENDS SerialLine, FiniteSetTheorems, SequenceTheorems, WellFoundedInduction, TLAPS

Job == [image : Image, seq : Nat \ {0}]
CallbackTask == [job : Job, pc : {"flag", "queue"}]
WriterTask == [job : Job, pc : {"write", "report", "return"}, left : Seq(Unit),
               whole : BOOLEAN]
Tally == [completed : Nat, reported : Nat, ended : SUBSET Job, intact : SUBSET Job]

-----------------------------------------------------------------------------
(* Types *)

OutputType ==
  /\ free \in Nat /\ dropped \in Nat /\ nextSeq \in Nat \ {0}
  /\ pendingSlots \in Seq(Job)
  /\ callback \in CallbackTask \cup {NoJob}
  /\ writer \in WriterTask \cup {NoJob}
  /\ tally \in Tally /\ IsFiniteSet(tally.ended)

-----------------------------------------------------------------------------
(* The accounts of the gateway *)

Busy(task) == IF task = NoJob THEN 0 ELSE 1

\* Sequence numbers up to here have been taken by the writer ...
LastTaken == nextSeq - 1 - Busy(callback) - Len(pendingSlots)

\* ... and up to here their records have ended.
Ending == IF writer # NoJob /\ writer.pc \in {"write", "report"} THEN 1 ELSE 0
LastEnded == LastTaken - Ending

\* A slot is free, or with the callback, in the queue or with the writer.
SlotsKept == free + Busy(callback) + Len(pendingSlots) + Busy(writer) = SlotCount

\* Images are numbered in the order in which they go through the queue, and
\* the records end in that order.
InOrder ==
  /\ LastTaken \in Nat /\ LastEnded \in Nat
  /\ callback # NoJob => callback.job.seq = nextSeq - 1
  /\ \A n \in 1 .. Len(pendingSlots) : pendingSlots[n].seq = LastTaken + n
  /\ writer # NoJob => writer.job.seq = LastTaken
  /\ \A job \in tally.ended : job.seq <= LastEnded
  /\ \A seq \in 1 .. LastEnded : \E job \in tally.ended : job.seq = seq

\* Every completed image is settled or under way.
Settled == Cardinality(tally.ended) + tally.reported + dropped
Underway == Len(pendingSlots) + Busy(callback) + Ending
Accounted == tally.completed = Settled + Underway

-----------------------------------------------------------------------------
(* The steps of the gateway *)

SentUnits == {<<Head(writer.left)>>, <<Server!Noise>>, <<>>}

OutputStep ==
  \/ Server!DropImage \/ Server!TakeSlot \/ Server!RaiseFlag \/ Server!QueueSlot
  \/ Server!TakeJob \/ \E sent \in SentUnits : Server!WriteUnit(sent)
  \/ Server!FinishWrite \/ Server!ReportDrops \/ Server!ReturnSlot
  \/ UNCHANGED serverOnly

LEMMA NextIsOutputStep == [Next]_vars => OutputStep
<1> SUFFICES ASSUME [Next]_vars PROVE OutputStep
  OBVIOUS
<1>1. CASE ByteSent
  BY <1>1 DEF ByteSent, OutputStep, SentUnits
<1>2. CASE ImageCompletes \/ CallbackContinues \/ WriterStarts
  BY <1>2 DEF ImageCompletes, CallbackContinues, WriterStarts, OutputStep
<1>3. CASE WriteReturns \/ WriterContinues
  BY <1>3 DEF WriteReturns, WriterContinues, OutputStep
<1>4. CASE OtherOutput
  BY <1>4 DEF OtherOutput, Server!WriteLog, OutputStep, serverOnly
<1>5. CASE LaptopWorks \/ Tick \/ UNCHANGED vars
  BY <1>5 DEF LaptopWorks, Tick, OutputStep, vars
<1>6. QED
  BY <1>1, <1>2, <1>3, <1>4, <1>5 DEF Next

-----------------------------------------------------------------------------

LEMMA Units == Server!Noise \in Unit /\ Server!Magic \in Unit
BY DEF Server!Noise, Server!Magic, Unit

LEMMA Pairs ==
  ASSUME NEW S, NEW a \in S, NEW b \in S
  PROVE  <<a, b>> \in Seq(S) /\ Len(<<a, b>>) = 2
OBVIOUS

\* A record has one header, which names the image and its number.
LEMMA Records ==
  ASSUME NEW job \in Job
  PROVE  /\ Server!Record(job) \in Seq(Unit)
         /\ \A n \in DOMAIN Server!Record(job) :
              Server!Record(job)[n][1] = "head" =>
                n = 2 /\ Server!Record(job)[n] = <<"head", job.image, job.seq>>
<1> DEFINE h == <<"head", job.image, job.seq>>
           p == Payload[job.image]
           m == Server!Magic
<1>1. h \in Unit /\ m \in Unit /\ m[1] # "head"
  BY Units, SerialLineAssumption DEF Unit, Job, Server!Magic
<1>2. p \in Seq(Unit) /\ \A n \in DOMAIN p : p[n][1] # "head"
  BY SerialLineAssumption DEF Job
<1>3. Server!Record(job) = <<m, h>> \o p
  BY DEF Server!Record, Server!Header
<1> HIDE DEF h, p, m
<1>4. <<m, h>> \in Seq(Unit) /\ Len(<<m, h>>) = 2
  BY <1>1, Pairs
<1>5. /\ <<m, h>> \o p \in Seq(Unit)
      /\ DOMAIN (<<m, h>> \o p) = 1 .. 2 + Len(p)
      /\ \A n \in 1 .. 2 + Len(p) :
           (<<m, h>> \o p)[n] = IF n = 1 THEN m ELSE IF n = 2 THEN h ELSE p[n - 2]
  BY <1>1, <1>2, <1>4
<1>6. QED
  BY <1>1, <1>2, <1>3, <1>5 DEF h

LEMMA NextImages ==
  ASSUME OutputType, Server!NextImage \in Image
  PROVE  /\ tally.completed \in Nat /\ Server!NextImage = tally.completed + 1
         /\ [tally EXCEPT !.completed = Server!NextImage] \in Tally
         /\ [image |-> Server!NextImage, seq |-> nextSeq] \in Job
BY SerialLineAssumption DEF OutputType, Server!NextImage, Tally, Job

LEMMA WriterWrites ==
  ASSUME OutputType,
         (\E sent \in SentUnits : Server!WriteUnit(sent)) \/ Server!FinishWrite
  PROVE  /\ writer \in WriterTask /\ writer.pc = "write" /\ writer # NoJob
         /\ writer' \in WriterTask /\ writer'.job = writer.job
         /\ writer'.pc \in {"write", "report"}
<1>1. writer \in WriterTask /\ writer.pc = "write" /\ writer # NoJob
  BY DEF Server!WriteUnit, Server!FinishWrite, Server!Writing, OutputType
<1>2. ASSUME NEW sent, Server!WriteUnit(sent)
      PROVE  /\ writer' \in WriterTask /\ writer'.job = writer.job
             /\ writer'.pc \in {"write", "report"}
  <2>1. writer.left \in Seq(Unit) /\ writer.left # <<>>
    BY <1>1, <1>2 DEF Server!WriteUnit, WriterTask
  <2>3. Tail(writer.left) \in Seq(Unit)
    BY <2>1
  <2>2. QED
    BY <1>1, <1>2, <2>3 DEF Server!WriteUnit, WriterTask
<1>3. CASE Server!FinishWrite
  BY <1>1, <1>3 DEF Server!FinishWrite, WriterTask
<1>4. QED
  BY <1>1, <1>2, <1>3

LEMMA TypeNext == OutputType /\ OutputStep => OutputType'
<1> SUFFICES ASSUME OutputType, OutputStep PROVE OutputType'
  OBVIOUS
<1>1. CASE Server!DropImage
  BY <1>1, NextImages DEF Server!DropImage, OutputType, Tally
<1>2. CASE Server!TakeSlot
  <2>1. tally' \in Tally /\ tally'.ended = tally.ended
    BY <1>2, NextImages DEF Server!TakeSlot, OutputType, Tally
  <2>2. callback' \in CallbackTask
    BY <1>2, NextImages DEF Server!TakeSlot, CallbackTask
  <2>3. QED
    BY <1>2, <2>1, <2>2 DEF Server!TakeSlot, OutputType
<1>3. CASE Server!RaiseFlag
  BY <1>3 DEF Server!RaiseFlag, OutputType, CallbackTask
<1>4. CASE Server!QueueSlot
  BY <1>4 DEF Server!QueueSlot, OutputType, CallbackTask
<1>5. CASE Server!TakeJob
  <2>1. /\ Head(pendingSlots) \in Job /\ Tail(pendingSlots) \in Seq(Job)
    BY <1>5 DEF Server!TakeJob, OutputType
  <2>2. [job |-> Head(pendingSlots), pc |-> "write",
         left |-> Server!Record(Head(pendingSlots)), whole |-> TRUE] \in WriterTask
    BY <2>1, Records DEF WriterTask
  <2>3. QED
    BY <1>5, <2>1, <2>2 DEF Server!TakeJob, OutputType
<1>6. CASE (\E sent \in SentUnits : Server!WriteUnit(sent)) \/ Server!FinishWrite
  BY <1>6, WriterWrites
  DEF Server!WriteUnit, Server!FinishWrite, Server!RecordEnds, OutputType
<1>8. CASE Server!ReportDrops
  <2>1. writer \in WriterTask /\ writer' \in WriterTask
    BY <1>8 DEF Server!ReportDrops, OutputType, WriterTask
  <2>2. tally' \in Tally /\ tally'.ended = tally.ended \cup {writer.job}
    <3>1. /\ tally.ended \cup {writer.job} \in SUBSET Job
          /\ tally.intact \cup {writer.job} \in SUBSET Job
          /\ tally.reported + dropped \in Nat
          /\ tally \in Tally
      BY <2>1 DEF OutputType, WriterTask, Tally
    <3>2. PICK intact \in SUBSET Job :
            tally' = [tally EXCEPT !.reported = tally.reported + dropped,
                                   !.ended = tally.ended \cup {writer.job},
                                   !.intact = intact]
      BY <1>8, <3>1 DEF Server!ReportDrops, Tally
    <3>3. QED
      BY <3>1, <3>2 DEF Tally
  <2>3. IsFiniteSet(tally'.ended)
    <3>1. IsFiniteSet(tally.ended)
      BY DEF OutputType
    <3>2. IsFiniteSet(tally.ended \cup {writer.job})
      BY <3>1, FS_AddElement
    <3>3. QED
      BY <2>2, <3>2
  <2>4. dropped' \in Nat
    BY <1>8 DEF Server!ReportDrops, Server!Taken, OutputType
  <2>5. QED
    BY <1>8, <2>1, <2>2, <2>3, <2>4 DEF Server!ReportDrops, OutputType
<1>9. CASE Server!ReturnSlot
  BY <1>9 DEF Server!ReturnSlot, Server!RecordEnds, OutputType
<1>10. CASE UNCHANGED serverOnly
  BY <1>10 DEF serverOnly, OutputType
<1>11. QED
  BY <1>1, <1>2, <1>3, <1>4, <1>5, <1>6, <1>8, <1>9, <1>10 DEF OutputStep

-----------------------------------------------------------------------------
(* The accounts are kept *)

LEMMA OutputInit == Init => OutputType /\ SlotsKept /\ InOrder /\ Accounted
<1> SUFFICES ASSUME Init PROVE OutputType /\ SlotsKept /\ InOrder /\ Accounted
  OBVIOUS
<1>1. OutputType
  BY FS_EmptySet, SerialLineAssumption DEF Init, Server!OutputInit, OutputType, Tally
<1>2. SlotsKept /\ InOrder
  BY SerialLineAssumption DEF Init, Server!OutputInit, SlotsKept, InOrder, Busy,
    LastTaken, LastEnded, Ending
<1>3. Accounted
  BY FS_EmptySet DEF Init, Server!OutputInit, Accounted, Settled, Underway, Busy, Ending
<1>4. QED
  BY <1>1, <1>2, <1>3

\* A task with a job is no absence of one.
LEMMA Jobs ==
  /\ \A task \in CallbackTask : task # NoJob
  /\ \A task \in WriterTask : task # NoJob
<1>1. CallbackTask \subseteq [job : [image : Nat, seq : Nat], pc : {"flag", "queue"}]
  BY SerialLineAssumption DEF CallbackTask, Job
<1>2. WriterTask \subseteq [job : [image : Nat, seq : Nat], pc : {"write", "report", "return"},
                            left : Seq(Unit), whole : BOOLEAN]
  BY SerialLineAssumption DEF WriterTask, Job
<1>3. QED
  BY <1>1, <1>2, SerialLineAssumption

LEMMA Queues ==
  ASSUME NEW s \in Seq(Job), NEW e \in Job
  PROVE  /\ Len(s) \in Nat
         /\ Len(Append(s, e)) = Len(s) + 1
         /\ \A n \in 1 .. Len(s) + 1 :
              Append(s, e)[n] = IF n = Len(s) + 1 THEN e ELSE s[n]
         /\ s # <<>> => /\ Head(s) = s[1] /\ Len(s) > 0
                        /\ Len(Tail(s)) = Len(s) - 1
                        /\ \A n \in 1 .. Len(s) - 1 : Tail(s)[n] = s[n + 1]
OBVIOUS

LEMMA OrderKept ==
  ASSUME InOrder,
         UNCHANGED <<nextSeq, pendingSlots, Busy(callback), Ending>>,
         tally'.ended = tally.ended,
         UNCHANGED callback \/ callback'.job = callback.job,
         UNCHANGED writer \/ writer' = NoJob \/ (writer # NoJob /\ writer'.job = writer.job)
  PROVE  InOrder' /\ UNCHANGED <<LastTaken, LastEnded>>
BY DEF InOrder, LastTaken, LastEnded, Busy, Ending

Accounts == SlotsKept /\ InOrder /\ Accounted

LEMMA AccountsNext == OutputType /\ OutputType' /\ Accounts /\ OutputStep => Accounts'
<1> SUFFICES ASSUME OutputType, OutputType', Accounts, OutputStep PROVE Accounts'
  OBVIOUS
<1>0. /\ pendingSlots \in Seq(Job) /\ tally \in Tally
      /\ free \in Nat /\ nextSeq \in Nat \ {0} /\ dropped \in Nat
      /\ Len(pendingSlots) \in Nat /\ tally.reported \in Nat /\ tally.completed \in Nat
  BY DEF OutputType, Tally
<1>a. Cardinality(tally.ended) \in Nat /\ Settled \in Nat /\ Underway \in Nat
  <2>1. Cardinality(tally.ended) \in Nat
    BY FS_CardinalityType DEF OutputType
  <2>2. Busy(callback) \in Nat /\ Ending \in Nat
    BY DEF Busy, Ending
  <2>3. QED
    BY <1>0, <2>1, <2>2 DEF Settled, Underway
<1>b. ASSUME NEW k \in {0, 1}, SlotsKept', InOrder', tally'.completed = tally.completed + k,
             \/ Settled' = Settled + k /\ Underway' = Underway
             \/ Settled' = Settled /\ Underway' = Underway + k
             \/ k = 0 /\ Settled' = Settled + 1 /\ Underway' = Underway - 1
      PROVE  Accounts'
  <2>1. tally'.completed = Settled' + Underway'
    <3>1. CASE Settled' = Settled + k /\ Underway' = Underway
      BY <1>0, <1>a, <1>b, <3>1 DEF Accounts, Accounted
    <3>2. CASE Settled' = Settled /\ Underway' = Underway + k
      BY <1>0, <1>a, <1>b, <3>2 DEF Accounts, Accounted
    <3>3. CASE k = 0 /\ Settled' = Settled + 1 /\ Underway' = Underway - 1
      BY <1>0, <1>a, <1>b, <3>3 DEF Accounts, Accounted
    <3>4. QED
      BY <1>b, <3>1, <3>2, <3>3
  <2>2. QED
    BY <1>b, <2>1 DEF Accounts, Accounted
<1>1. CASE Server!DropImage
  <2>1. /\ tally'.completed = tally.completed + 1 /\ dropped' = dropped + 1
        /\ tally'.ended = tally.ended /\ tally'.reported = tally.reported
        /\ UNCHANGED <<free, pendingSlots, nextSeq, callback, writer>>
    BY <1>0, <1>1 DEF Server!DropImage, Server!NextImage, Tally
  <2>2. InOrder'
    BY <2>1, OrderKept DEF Accounts, Busy, Ending
  <2>3. SlotsKept' /\ Underway' = Underway
    BY <2>1 DEF Accounts, SlotsKept, Underway, Busy, Ending
  <2>4. Settled' = Settled + 1
    BY <1>0, <1>a, <2>1 DEF Settled
  <2>5. QED
    BY <1>b, <2>1, <2>2, <2>3, <2>4
<1>2. CASE Server!TakeSlot
  <2>1. /\ tally'.completed = tally.completed + 1
        /\ tally'.ended = tally.ended /\ tally'.reported = tally.reported
        /\ callback = NoJob /\ callback'.job.seq = nextSeq
        /\ free' = free - 1 /\ nextSeq' = nextSeq + 1
        /\ UNCHANGED <<pendingSlots, dropped, writer>>
    BY <1>0, <1>2 DEF Server!TakeSlot, Server!NextImage, Tally
  <2>2. callback' # NoJob
    BY <1>2, NextImages, Jobs DEF Server!TakeSlot, CallbackTask
  <2>3. UNCHANGED <<LastTaken, LastEnded>>
    BY <1>0, <2>1, <2>2 DEF LastTaken, LastEnded, Busy, Ending
  <2>4. InOrder'
    BY <1>0, <2>1, <2>2, <2>3 DEF Accounts, InOrder
  <2>5. SlotsKept' /\ Underway' = Underway + 1
    BY <1>0, <2>1, <2>2 DEF Accounts, SlotsKept, Underway, Busy, Ending
  <2>6. Settled' = Settled
    BY <2>1 DEF Settled
  <2>7. QED
    BY <1>b, <2>1, <2>4, <2>5, <2>6
<1>3. CASE Server!RaiseFlag
  <2>1. /\ callback # NoJob /\ callback'.job = callback.job
        /\ UNCHANGED <<free, pendingSlots, dropped, nextSeq, writer, tally>>
    BY <1>3 DEF Server!RaiseFlag, OutputType, CallbackTask
  <2>2. callback' # NoJob
    BY <1>3, Jobs DEF Server!RaiseFlag, OutputType, CallbackTask
  <2>3. InOrder'
    BY <2>1, <2>2, OrderKept DEF Accounts, Busy, Ending
  <2>4. QED
    BY <2>1, <2>2, <2>3 DEF Accounts, SlotsKept, Accounted, Settled, Underway, Busy, Ending
<1>4. CASE Server!QueueSlot
  <2>1. /\ callback # NoJob /\ callback' = NoJob /\ callback.job \in Job
        /\ pendingSlots' = Append(pendingSlots, callback.job)
        /\ UNCHANGED <<free, dropped, nextSeq, writer, tally>>
    BY <1>4 DEF Server!QueueSlot, OutputType, CallbackTask
  <2>2. /\ Len(pendingSlots') = Len(pendingSlots) + 1
        /\ \A n \in 1 .. Len(pendingSlots) + 1 :
             pendingSlots'[n] = IF n = Len(pendingSlots) + 1 THEN callback.job
                                                             ELSE pendingSlots[n]
    BY <1>0, <2>1, Queues
  <2>3. UNCHANGED <<LastTaken, LastEnded>>
    BY <1>0, <2>1, <2>2 DEF LastTaken, LastEnded, Busy, Ending
  <2>4. callback.job.seq = LastTaken + Len(pendingSlots) + 1
    BY <1>0, <2>1 DEF Accounts, InOrder, LastTaken, Busy
  <2>5. \A n \in 1 .. Len(pendingSlots') : pendingSlots'[n].seq = LastTaken' + n
    <3>1. \A n \in 1 .. Len(pendingSlots) : pendingSlots[n].seq = LastTaken + n
      BY DEF Accounts, InOrder
    <3>2. LastTaken' = LastTaken
      BY <2>3
    <3>3. LastTaken \in Nat
      BY DEF Accounts, InOrder
    <3>4. ASSUME NEW n \in 1 .. Len(pendingSlots) + 1
          PROVE  pendingSlots'[n].seq = LastTaken + n
      <4>1. CASE n = Len(pendingSlots) + 1
        BY <1>0, <2>2, <2>4, <3>3, <4>1
      <4>2. CASE n # Len(pendingSlots) + 1
        BY <1>0, <2>2, <3>1, <4>2
      <4>3. QED
        BY <4>1, <4>2
    <3>5. QED
      BY <2>2, <3>2, <3>4
  <2>6. InOrder'
    BY <2>1, <2>3, <2>5 DEF Accounts, InOrder
  <2>7. SlotsKept' /\ Underway' = Underway
    BY <1>0, <2>1, <2>2 DEF Accounts, SlotsKept, Underway, Busy, Ending
  <2>8. tally'.completed = tally.completed + 0 /\ Settled' = Settled + 0
    BY <1>0, <1>a, <2>1 DEF Settled
  <2>9. QED
    BY <1>b, <2>6, <2>7, <2>8
<1>5. CASE Server!TakeJob
  <2>1. /\ writer = NoJob /\ pendingSlots # <<>>
        /\ writer'.job = Head(pendingSlots) /\ writer'.pc = "write"
        /\ pendingSlots' = Tail(pendingSlots)
        /\ UNCHANGED <<free, dropped, nextSeq, callback, tally>>
    BY <1>5 DEF Server!TakeJob
  <2>2. writer' # NoJob
    <3>1. Head(pendingSlots) \in Job
      BY <1>0, <2>1
    <3>2. [job |-> Head(pendingSlots), pc |-> "write",
           left |-> Server!Record(Head(pendingSlots)), whole |-> TRUE] \in WriterTask
      BY <3>1, Records DEF WriterTask
    <3>3. QED
      BY <1>5, <3>2, Jobs DEF Server!TakeJob
  <2>3. /\ Head(pendingSlots) = pendingSlots[1] /\ Len(pendingSlots) > 0
        /\ Len(pendingSlots') = Len(pendingSlots) - 1
        /\ \A n \in 1 .. Len(pendingSlots) - 1 : pendingSlots'[n] = pendingSlots[n + 1]
    <3>1. PICK job \in Job : job = Head(pendingSlots)
      BY <1>0, <2>1
    <3>2. QED
      BY <1>0, <2>1, <3>1, Queues
  <2>4. LastTaken' = LastTaken + 1 /\ LastEnded' = LastEnded
    BY <1>0, <2>1, <2>2, <2>3 DEF LastTaken, LastEnded, Busy, Ending
  <2>5. InOrder'
    <3>1. LastTaken \in Nat /\ pendingSlots[1].seq = LastTaken + 1
      BY <1>0, <2>3 DEF Accounts, InOrder
    <3>2. \A n \in 1 .. Len(pendingSlots') : pendingSlots'[n].seq = LastTaken' + n
      <4>1. ASSUME NEW n \in 1 .. Len(pendingSlots) - 1
            PROVE  pendingSlots'[n].seq = LastTaken' + n
        <5>1. n + 1 \in 1 .. Len(pendingSlots) /\ n \in Nat
          BY <1>0
        <5>2. pendingSlots[n + 1].seq = LastTaken + (n + 1)
          BY <5>1 DEF Accounts, InOrder
        <5>3. QED
          BY <2>3, <2>4, <3>1, <5>1, <5>2
      <4>2. QED
        BY <2>3, <4>1
    <3>3. writer'.job.seq = LastTaken'
      BY <2>1, <2>3, <2>4, <3>1
    <3>4. /\ LastTaken' \in Nat /\ LastEnded' \in Nat
          /\ callback' # NoJob => callback'.job.seq = nextSeq' - 1
          /\ \A job \in tally'.ended : job.seq <= LastEnded'
          /\ \A seq \in 1 .. LastEnded' : \E job \in tally'.ended : job.seq = seq
      BY <2>1, <2>4, <3>1 DEF Accounts, InOrder
    <3>5. QED
      BY <3>2, <3>3, <3>4 DEF InOrder
  <2>6. SlotsKept' /\ Underway' = Underway
    BY <1>0, <2>1, <2>2, <2>3 DEF Accounts, SlotsKept, Underway, Busy, Ending
  <2>7. tally'.completed = tally.completed + 0 /\ Settled' = Settled + 0
    BY <1>0, <1>a, <2>1 DEF Settled
  <2>8. QED
    BY <1>b, <2>5, <2>6, <2>7
<1>6. CASE \/ \E sent \in SentUnits : Server!WriteUnit(sent)
           \/ Server!FinishWrite
  <2>1. UNCHANGED <<free, pendingSlots, dropped, nextSeq, callback, tally>>
    BY <1>6 DEF Server!WriteUnit, Server!FinishWrite, Server!RecordEnds
  <2>2. writer' # NoJob /\ UNCHANGED Ending
    BY <1>6, WriterWrites, Jobs DEF Ending
  <2>3. InOrder'
    BY <1>6, <2>1, <2>2, WriterWrites, OrderKept DEF Accounts, Busy
  <2>4. QED
    BY <1>6, <2>1, <2>2, <2>3, WriterWrites
    DEF Accounts, SlotsKept, Accounted, Settled, Underway, Busy
<1>7. CASE Server!ReportDrops
  <2>1. /\ writer # NoJob /\ writer \in WriterTask /\ writer.pc = "report"
        /\ writer.job \in Job
    BY <1>7 DEF Server!ReportDrops, OutputType, WriterTask
  <2>2. /\ writer' \in WriterTask /\ writer'.job = writer.job /\ writer'.pc = "return"
        /\ dropped' = 0
        /\ UNCHANGED <<free, pendingSlots, nextSeq, callback>>
    <3>1. dropped \in Nat
      BY <1>0
    <3>2. dropped' = dropped - dropped
      BY <1>7 DEF Server!ReportDrops, Server!Taken
    <3>3. QED
      BY <1>7, <2>1, <3>1, <3>2 DEF Server!ReportDrops, WriterTask
  <2>3. /\ tally'.ended = tally.ended \cup {writer.job}
        /\ tally'.reported = tally.reported + dropped
        /\ tally'.completed = tally.completed
    BY <1>0, <1>7 DEF Server!ReportDrops, Tally
  <2>4. Ending = 1 /\ Ending' = 0 /\ writer' # NoJob
    BY <2>1, <2>2, Jobs DEF Ending
  <2>5. LastTaken' = LastTaken /\ LastEnded' = LastEnded + 1 /\ LastEnded' = LastTaken
    BY <1>0, <2>1, <2>2, <2>4 DEF Accounts, InOrder, LastTaken, LastEnded, Busy
  <2>6. writer.job.seq = LastTaken /\ writer.job \notin tally.ended
    BY <1>0, <2>1, <2>4, <2>5 DEF Accounts, InOrder, LastEnded
  <2>7. InOrder'
    <3>1. \A job \in tally'.ended : job.seq <= LastEnded'
      BY <1>0, <2>3, <2>5, <2>6 DEF Accounts, InOrder, OutputType, Tally, Job
    <3>2. \A seq \in 1 .. LastEnded' : \E job \in tally'.ended : job.seq = seq
      BY <1>0, <2>3, <2>5, <2>6 DEF Accounts, InOrder
    <3>3. QED
      BY <2>1, <2>2, <2>4, <2>5, <2>6, <3>1, <3>2 DEF Accounts, InOrder
  <2>8. Cardinality(tally'.ended) = Cardinality(tally.ended) + 1
    BY <2>3, <2>6, FS_AddElement DEF OutputType
  <2>9. SlotsKept'
    BY <2>1, <2>2, <2>4 DEF Accounts, SlotsKept, Busy
  <2>10. Settled' = Settled + 1
    BY <1>0, <1>a, <2>2, <2>3, <2>8 DEF Settled
  <2>11. Underway' = Underway - 1
    BY <1>0, <2>2, <2>4 DEF Underway, Busy
  <2>12. tally'.completed = tally.completed + 0
    BY <1>0, <2>3
  <2>13. QED
    BY <1>b, <2>7, <2>9, <2>10, <2>11, <2>12
<1>8. CASE Server!ReturnSlot
  <2>1. /\ writer # NoJob /\ writer.pc = "return" /\ writer' = NoJob
        /\ free' = free + 1
        /\ UNCHANGED <<pendingSlots, dropped, nextSeq, callback, tally>>
    BY <1>8 DEF Server!ReturnSlot, Server!RecordEnds
  <2>2. Ending = 0 /\ Ending' = 0
    BY <2>1 DEF Ending
  <2>3. UNCHANGED <<nextSeq, pendingSlots, Busy(callback), Ending, callback>>
    BY <2>1, <2>2 DEF Busy
  <2>4. InOrder'
    BY <2>1, <2>3, OrderKept DEF Accounts
  <2>5. QED
    BY <1>0, <2>1, <2>2, <2>4
    DEF Accounts, SlotsKept, Accounted, Settled, Underway, Busy
<1>9. CASE UNCHANGED serverOnly
  <2>1. InOrder'
    BY <1>9, OrderKept DEF Accounts, serverOnly, Busy, Ending
  <2>2. QED
    BY <1>9, <2>1
    DEF Accounts, serverOnly, SlotsKept, Accounted, Settled, Underway, Busy, Ending
<1>10. QED
  BY <1>1, <1>2, <1>3, <1>4, <1>5, <1>6, <1>7, <1>8, <1>9 DEF OutputStep

GatewayInv == OutputType /\ Accounts

LEMMA GatewayInvariant == Spec => []GatewayInv
<1>1. Init => GatewayInv
  BY OutputInit DEF GatewayInv, Accounts
<1>2. GatewayInv /\ [Next]_vars => GatewayInv'
  BY NextIsOutputStep, TypeNext, AccountsNext DEF GatewayInv
<1>3. QED
  BY <1>1, <1>2, PTL DEF Spec

\* The callback and the writer work on two different images.
LEMMA TasksApart ==
  GatewayInv /\ callback # NoJob /\ writer # NoJob => callback # writer
<1> SUFFICES ASSUME GatewayInv, callback # NoJob, writer # NoJob
             PROVE  callback.job.seq # writer.job.seq
  OBVIOUS
<1>1. /\ callback.job.seq = nextSeq - 1 /\ writer.job.seq = LastTaken
      /\ Len(pendingSlots) \in Nat /\ nextSeq \in Nat
  BY DEF GatewayInv, Accounts, InOrder, OutputType
<1>2. LastTaken = nextSeq - 2 - Len(pendingSlots)
  BY <1>1 DEF LastTaken, Busy
<1>3. QED
  BY <1>1, <1>2

\* Between them, the two tasks lose no image and count none twice: whatever
\* the order of their steps, a completed image is counted as dropped, handed
\* over in a count of dropped ones, under way, or its record has ended
\* (image_complete, serial_writer_task, take_dropped_images).
THEOREM NoImageLost == Spec => []ImagesAccounted
<1>1. GatewayInv => ImagesAccounted
  <2> SUFFICES ASSUME GatewayInv PROVE ImagesAccounted
    OBVIOUS
  <2> DEFINE tasks == {task \in {callback, writer} : task # NoJob}
             c == IF writer # NoJob /\ writer.pc = "return" THEN 1 ELSE 0
  <2>1. Cardinality(tasks) = Busy(callback) + Busy(writer)
    <3>1. CASE callback = NoJob /\ writer = NoJob
      <4>1. tasks = {}
        BY <3>1
      <4>2. QED
        BY <3>1, <4>1, FS_EmptySet DEF Busy
    <3>2. CASE callback # NoJob /\ writer = NoJob
      <4>1. tasks = {callback}
        BY <3>2
      <4>2. QED
        BY <3>2, <4>1, FS_Singleton DEF Busy
    <3>3. CASE callback = NoJob /\ writer # NoJob
      <4>1. tasks = {writer}
        BY <3>3
      <4>2. QED
        BY <3>3, <4>1, FS_Singleton DEF Busy
    <3>4. CASE callback # NoJob /\ writer # NoJob
      <4>1. tasks = {callback} \cup {writer} /\ writer \notin {callback}
        BY <3>4, TasksApart
      <4>2. Cardinality({callback} \cup {writer}) = 1 + 1
        BY <4>1, FS_Singleton, FS_AddElement
      <4>3. QED
        BY <3>4, <4>1, <4>2 DEF Busy
    <3>5. QED
      BY <3>1, <3>2, <3>3, <3>4
  <2>2. Busy(writer) - c = Ending /\ Busy(writer) \in Nat /\ c \in Nat
    BY DEF Busy, Ending, GatewayInv, OutputType, WriterTask
  <2> DEFINE s == Cardinality(tally.ended) + tally.reported + dropped + Len(pendingSlots)
  <2>3. /\ Cardinality(tally.ended) \in Nat /\ tally.reported \in Nat
        /\ dropped \in Nat /\ Len(pendingSlots) \in Nat
    BY FS_CardinalityType DEF GatewayInv, OutputType, Tally
  <2>4. Busy(callback) \in Nat /\ Ending \in Nat
    BY DEF Busy, Ending
  <2>5. tally.completed = s + (Busy(callback) + Ending)
    <3>1. tally.completed = Settled + Underway
      BY DEF GatewayInv, Accounts, Accounted
    <3>2. Settled + Underway = s + (Busy(callback) + Ending)
      BY <2>3, <2>4 DEF Settled, Underway
    <3>3. QED
      BY <3>1, <3>2
  <2>6. s \in Nat
    BY <2>3
  <2> HIDE DEF s, c
  <2>7. tally.completed = s + Cardinality(tasks) - c
    BY <2>1, <2>2, <2>4, <2>5, <2>6
  <2>8. QED
    BY <2>7 DEF ImagesAccounted, s, c
<1>2. QED
  BY <1>1, GatewayInvariant, PTL

-----------------------------------------------------------------------------
(* The flag of the one record *)

\* From the moment its flag is raised until its record has ended, the one image
\* that holds the one slot keeps the flag raised.
FlagRaised ==
  /\ callback # NoJob /\ callback.pc = "queue" => transmitting
  /\ pendingSlots # <<>> => transmitting
  /\ Server!Writing => transmitting

LEMMA FlagNext ==
  ASSUME SlotCount = 1, GatewayInv, GatewayInv', FlagRaised, OutputStep
  PROVE  FlagRaised'
<1>a. free \in Nat /\ pendingSlots \in Seq(Job) /\ Len(pendingSlots) \in Nat
  BY DEF GatewayInv, OutputType
<1>b. free + Busy(callback) + Len(pendingSlots) + Busy(writer) = 1
  BY DEF GatewayInv, Accounts, SlotsKept
<1>c. writer # NoJob => callback = NoJob /\ Len(pendingSlots) = 0
  BY <1>a, <1>b DEF Busy
<1>1. CASE Server!DropImage \/ Server!ReturnSlot \/ Server!ReportDrops
  <2>1. UNCHANGED <<pendingSlots, transmitting, callback>>
    BY <1>1 DEF Server!DropImage, Server!ReturnSlot, Server!ReportDrops, Server!RecordEnds
  <2>2. ~Server!Writing' \/ UNCHANGED writer
    <3>1. CASE Server!ReportDrops
      <4>1. writer \in WriterTask /\ writer' = [writer EXCEPT !.pc = "return"]
        BY <3>1 DEF Server!ReportDrops, GatewayInv, OutputType
      <4>2. QED
        BY <4>1 DEF Server!Writing, WriterTask
    <3>2. QED
      BY <1>1, <3>1 DEF Server!DropImage, Server!ReturnSlot, Server!Writing
  <2>3. QED
    BY <2>1, <2>2 DEF FlagRaised, Server!Writing
<1>2. CASE Server!TakeSlot
  BY <1>2 DEF Server!TakeSlot, FlagRaised, Server!Writing
<1>3. CASE Server!RaiseFlag
  BY <1>3 DEF Server!RaiseFlag, FlagRaised
<1>4. CASE Server!QueueSlot
  BY <1>4 DEF Server!QueueSlot, FlagRaised, Server!Writing
<1>5. CASE Server!TakeJob
  BY <1>5 DEF Server!TakeJob, FlagRaised
<1>6. ASSUME NEW sent \in SentUnits, Server!WriteUnit(sent)
      PROVE  FlagRaised'
  BY <1>6 DEF Server!WriteUnit, FlagRaised
<1>7. CASE Server!FinishWrite
  <2>1. writer # NoJob /\ writer \in WriterTask /\ UNCHANGED <<pendingSlots, callback>>
    BY <1>7 DEF Server!FinishWrite, Server!Writing, GatewayInv, OutputType
  <2>2. callback = NoJob /\ Len(pendingSlots) = 0
    BY <1>c, <2>1
  <2>3. pendingSlots = <<>>
    BY <1>a, <2>2
  <2>4. ~Server!Writing'
    BY <1>7, <2>1 DEF Server!FinishWrite, Server!Writing, WriterTask
  <2>5. QED
    BY <2>1, <2>2, <2>3, <2>4 DEF FlagRaised
<1>8. CASE UNCHANGED serverOnly
  BY <1>8 DEF serverOnly, FlagRaised, Server!Writing
<1>9. QED
  BY <1>1, <1>2, <1>3, <1>4, <1>5, <1>6, <1>7, <1>8 DEF OutputStep

\* With one slot, as SERIAL_SLOT_COUNT is, the flag that keeps time packets
\* away is raised for the whole of every record; the end of a record clears no
\* other record's flag, because the slot lets no other image past the callback
\* before (image_complete, serial_writer_task, decode_and_accept).
THEOREM FlagCovers ==
  ASSUME SlotCount = 1
  PROVE  Spec => []FlagCoversRecord
<1>1. Init => FlagRaised
  BY DEF Init, Server!OutputInit, FlagRaised, Server!Writing
<1>2. GatewayInv /\ GatewayInv' /\ FlagRaised /\ [Next]_vars => FlagRaised'
  BY FlagNext, NextIsOutputStep
<1>3. FlagRaised => FlagCoversRecord
  BY DEF FlagRaised, FlagCoversRecord
<1>4. QED
  BY <1>1, <1>2, <1>3, GatewayInvariant, PTL DEF Spec

-----------------------------------------------------------------------------
(* The bytes on the way to the laptop *)

\* Min finds the least of a set of natural numbers.
LEMMA LeastNat ==
  ASSUME NEW T \in SUBSET Nat, T # {}
  PROVE  Min(T) \in T /\ \A n \in T : Min(T) <= n
<1> DEFINE R == OpToRel(<, Nat)
<1>1. IsWellFoundedOn(R, Nat)
  BY NatLessThanWellFounded
<1>2. \A m, n \in Nat : <<m, n>> \in R <=> m < n
  BY DEF OpToRel
<1> HIDE DEF R
<1>3. PICK least \in T : \A n \in T : ~(<<n, least>> \in R)
  BY <1>1, WFMin
<1>4. ASSUME NEW n \in T PROVE least <= n
  <2>1. n \in Nat /\ least \in Nat /\ ~(n < least)
    BY <1>2, <1>3
  <2>2. QED
    BY <2>1
<1>5. \E m \in T : \A n \in T : m <= n
  BY <1>4, Zenon
<1>6. Min(T) = CHOOSE m \in T : \A n \in T : m <= n
  BY DEF Min
<1>7. QED
  BY <1>5, <1>6, Zenon

\* What the parser has of the line and what the line still has
Wire == buffer \o uart

\* t is s without its first k units.
Rest(s, k, t) ==
  /\ k \in 0 .. Len(s)
  /\ t \in Seq(Unit) /\ Len(t) = Len(s) - k
  /\ \A n \in 1 .. Len(t) : t[n] = s[n + k]

LEMMA Suffixes ==
  ASSUME NEW s \in Seq(Unit), NEW k \in 0 .. Len(s)
  PROVE  Rest(s, k, Laptop!From(s, k + 1))
BY DEF Rest, Laptop!From

LEMMA RestOfRest ==
  ASSUME NEW s \in Seq(Unit), NEW k, NEW t, NEW j, NEW u, Rest(s, k, t), Rest(t, j, u)
  PROVE  Rest(s, k + j, u)
BY DEF Rest

LEMMA Joined ==
  ASSUME NEW s \in Seq(Unit), NEW t \in Seq(Unit)
  PROVE  /\ s \o t \in Seq(Unit) /\ Len(s \o t) = Len(s) + Len(t)
         /\ \A n \in 1 .. Len(s) + Len(t) :
              (s \o t)[n] = IF n <= Len(s) THEN s[n] ELSE t[n - Len(s)]
OBVIOUS

LEMMA RestJoined ==
  ASSUME NEW s \in Seq(Unit), NEW u \in Seq(Unit), NEW k, NEW t, Rest(s, k, t)
  PROVE  Rest(s \o u, k, t \o u)
<1>1. /\ k \in 0 .. Len(s) /\ Len(s) \in Nat /\ Len(u) \in Nat
      /\ t \in Seq(Unit) /\ Len(t) = Len(s) - k
      /\ \A n \in 1 .. Len(t) : t[n] = s[n + k]
  BY DEF Rest
<1>2. /\ Len(s \o u) = Len(s) + Len(u)
      /\ \A n \in 1 .. Len(s) + Len(u) :
           (s \o u)[n] = IF n <= Len(s) THEN s[n] ELSE u[n - Len(s)]
  BY Joined
<1>3. /\ t \o u \in Seq(Unit) /\ Len(t \o u) = Len(t) + Len(u)
      /\ \A n \in 1 .. Len(t) + Len(u) :
           (t \o u)[n] = IF n <= Len(t) THEN t[n] ELSE u[n - Len(t)]
  BY <1>1, Joined
<1> DEFINE su == s \o u
           tu == t \o u
<1> HIDE DEF su, tu
<1>4. /\ Len(su) = Len(s) + Len(u)
      /\ \A n \in 1 .. Len(s) + Len(u) :
           su[n] = IF n <= Len(s) THEN s[n] ELSE u[n - Len(s)]
  BY <1>2 DEF su
<1>5. /\ tu \in Seq(Unit) /\ Len(tu) = Len(t) + Len(u)
      /\ \A n \in 1 .. Len(t) + Len(u) :
           tu[n] = IF n <= Len(t) THEN t[n] ELSE u[n - Len(t)]
  BY <1>3 DEF tu
<1>6. ASSUME NEW n \in 1 .. Len(tu)
      PROVE  tu[n] = su[n + k]
  <2>1. /\ n \in 1 .. Len(t) + Len(u) /\ n + k \in 1 .. Len(s) + Len(u)
        /\ n <= Len(t) <=> n + k <= Len(s)
        /\ (n + k) - Len(s) = n - Len(t)
    BY <1>1, <1>5
  <2>2. QED
    BY <1>1, <1>4, <1>5, <2>1
<1>7. Rest(su, k, tu)
  BY <1>1, <1>4, <1>5, <1>6 DEF Rest
<1>8. QED
  BY <1>7 DEF su, tu

LEMMA Associative == \A s, t, u \in Seq(Unit) : (s \o t) \o u = s \o (t \o u)
BY ConcatAssociative

\* What is taken from the front of t goes to the end of s.
LEMMA Moved ==
  ASSUME NEW s \in Seq(Unit), NEW t \in Seq(Unit), NEW n \in 0 .. Len(t)
  PROVE  /\ s \o SubSeq(t, 1, n) \in Seq(Unit)
         /\ Laptop!From(t, n + 1) \in Seq(Unit)
         /\ (s \o SubSeq(t, 1, n)) \o Laptop!From(t, n + 1) = s \o t
<1> DEFINE u == SubSeq(t, 1, n)
           v == SubSeq(t, n + 1, Len(t))
<1>1. u \in Seq(Unit) /\ v \in Seq(Unit)
  OBVIOUS
<1>2. u \o v = t
  <2>1. Len(t) \in Nat /\ 1 \in 1 .. Len(t) + 1 /\ n \in 1 - 1 .. Len(t)
        /\ Len(t) \in n .. Len(t)
    OBVIOUS
  <2>2. u \o v = SubSeq(t, 1, Len(t))
    BY <2>1, ConcatAdjacentSubSeq
  <2>3. QED
    BY <2>2, SubSeqFull
<1>3. v = Laptop!From(t, n + 1)
  BY DEF Laptop!From
<1> HIDE DEF u, v
<1>4. (s \o u) \o v = s \o t /\ s \o u \in Seq(Unit)
  <2>1. (s \o u) \o v = s \o (u \o v)
    BY <1>1, Associative
  <2>2. QED
    BY <1>1, <1>2, <2>1, Joined
<1>5. QED
  BY <1>1, <1>3, <1>4 DEF u

\* The headers of s have rising numbers, after lo and up to hi.
Rising(s, lo, hi) ==
  /\ lo \in Nat /\ hi \in Nat /\ lo <= hi
  /\ \A n \in 1 .. Len(s) :
       s[n][1] = "head" => s[n][2] \in Image /\ lo < s[n][3] /\ s[n][3] <= hi
  /\ \A m, n \in 1 .. Len(s) :
       m < n /\ s[m][1] = "head" /\ s[n][1] = "head" => s[m][3] < s[n][3]

LEMMA RisingRest ==
  ASSUME NEW s \in Seq(Unit), NEW k, NEW t, Rest(s, k, t), NEW lo, NEW hi, Rising(s, lo, hi)
  PROVE  /\ Rising(t, lo, hi)
         /\ \A j \in 1 .. k : s[j][1] = "head" => Rising(t, s[j][3], hi)
<1>1. ASSUME NEW n \in 1 .. Len(s)
      PROVE  s[n][3] \in Nat
  BY DEF Unit
<1>2. /\ k \in 0 .. Len(s) /\ Len(s) \in Nat /\ Len(t) = Len(s) - k
      /\ \A n \in 1 .. Len(t) : t[n] = s[n + k] /\ n + k \in 1 .. Len(s)
  BY DEF Rest
<1>3. /\ lo \in Nat /\ hi \in Nat /\ lo <= hi
      /\ \A n \in 1 .. Len(s) :
           s[n][1] = "head" => s[n][2] \in Image /\ lo < s[n][3] /\ s[n][3] <= hi
      /\ \A m, n \in 1 .. Len(s) :
           m < n /\ s[m][1] = "head" /\ s[n][1] = "head" => s[m][3] < s[n][3]
  BY DEF Rising
<1>4. ASSUME NEW m \in 1 .. Len(t), NEW n \in 1 .. Len(t),
             m < n, t[m][1] = "head", t[n][1] = "head"
      PROVE  t[m][3] < t[n][3]
  <2>1. /\ m + k \in 1 .. Len(s) /\ n + k \in 1 .. Len(s) /\ m + k < n + k
        /\ t[m] = s[m + k] /\ t[n] = s[n + k]
    BY <1>2, <1>4
  <2>2. QED
    BY <1>3, <1>4, <2>1
<1>5. Rising(t, lo, hi)
  BY <1>2, <1>3, <1>4 DEF Rising
<1>6. ASSUME NEW j \in 1 .. k, s[j][1] = "head"
      PROVE  Rising(t, s[j][3], hi)
  <2>1. j \in 1 .. Len(s) /\ s[j][3] \in Nat /\ s[j][3] <= hi
    <3>1. j \in 1 .. Len(s)
      BY <1>2
    <3>2. QED
      BY <1>1, <1>3, <1>6, <3>1
  <2>2. ASSUME NEW n \in 1 .. Len(t), t[n][1] = "head"
        PROVE  t[n][2] \in Image /\ s[j][3] < t[n][3] /\ t[n][3] <= hi
    <3>1. n + k \in 1 .. Len(s) /\ j < n + k /\ t[n] = s[n + k]
      BY <1>2
    <3>2. QED
      BY <1>3, <1>6, <2>1, <2>2, <3>1
  <2>3. QED
    BY <1>3, <1>4, <2>1, <2>2 DEF Rising
<1>7. QED
  BY <1>5, <1>6

LineType ==
  /\ buffer \in Seq(Unit) /\ uart \in Seq(Unit)
  /\ lastSeq \in Nat /\ gaps \in Nat
  /\ saved \in Seq(Job)

\* What a step of the laptop's loop does with the bytes it has.
HostMove ==
  \E k \in Nat :
    /\ Rest(buffer, k, buffer')
    /\ \/ Laptop!Unsaved
       \/ \E j \in 1 .. k :
            /\ buffer[j][1] = "head"
            /\ saved' = Append(saved, [image |-> buffer[j][2], seq |-> buffer[j][3]])
            /\ gaps' = IF lastSeq # 0 /\ buffer[j][3] # lastSeq + 1
                       THEN gaps + 1 ELSE gaps
            /\ lastSeq' = buffer[j][3]

LEMMA Candidates ==
  ASSUME buffer \in Seq(Unit)
  PROVE  \E c \in 0 .. Len(buffer) : Rest(buffer, c, Laptop!Candidate)
<1>1. CASE Laptop!MagicAt = {}
  <2>1. Laptop!Candidate = <<>>
    BY <1>1 DEF Laptop!Candidate
  <2>2. Rest(buffer, Len(buffer), <<>>)
    BY DEF Rest
  <2>3. QED
    BY <2>1, <2>2
<1>2. CASE Laptop!MagicAt # {}
  <2> DEFINE M == Laptop!MagicAt
             c == (CHOOSE m \in M : \A n \in M : m <= n)
  <2>1. M \in SUBSET Nat /\ M # {} /\ \A n \in M : n \in 1 .. Len(buffer)
    BY <1>2 DEF Laptop!MagicAt
  <2>2. Laptop!Candidate = Laptop!From(buffer, c)
    BY <1>2 DEF Laptop!Candidate, Laptop!Min
  <2> HIDE DEF M
  <2>3. c \in M
    BY <2>1, LeastNat DEF Min
  <2>4. c \in 1 .. Len(buffer)
    BY <2>1, <2>3
  <2> HIDE DEF c
  <2>5. Rest(buffer, c - 1, Laptop!From(buffer, (c - 1) + 1))
    BY <2>4, Suffixes
  <2>6. (c - 1) + 1 = c /\ c - 1 \in 0 .. Len(buffer)
    BY <2>4
  <2>7. QED
    BY <2>2, <2>5, <2>6
<1>3. QED
  BY <1>1, <1>2

LEMMA TurnMoves ==
  ASSUME LineType, NEW then, Laptop!Turn(then),
         \A n \in 1 .. Len(buffer) : buffer[n][1] = "head" => buffer[n][2] \in Image
  PROVE  HostMove
<1> DEFINE units == Laptop!Candidate
           size == Laptop!RecordSize(units)
<1>1. PICK c \in 0 .. Len(buffer) : Rest(buffer, c, units)
  BY Candidates DEF LineType
<1>2. /\ buffer \in Seq(Unit) /\ Len(buffer) \in Nat
      /\ units \in Seq(Unit) /\ Len(units) = Len(buffer) - c /\ Len(units) \in Nat
      /\ \A n \in 1 .. Len(units) : units[n] = buffer[n + c]
  BY <1>1 DEF Rest, LineType
<1>3. \/ buffer' = units /\ Laptop!Unsaved
      \/ ~Laptop!Waits(units) /\ buffer' = Tail(units) /\ Laptop!Unsaved
      \/ /\ ~Laptop!Waits(units) /\ Laptop!ValidHeader(units)
         /\ buffer' = Laptop!From(units, size + 1)
         /\ Laptop!SaveRecord(units)
  BY DEF Laptop!Turn, Laptop!AfterBadRecord
<1> HIDE DEF units, size
<1>4. CASE buffer' = units /\ Laptop!Unsaved
  BY <1>1, <1>4 DEF HostMove
<1>5. CASE ~Laptop!Waits(units) /\ buffer' = Tail(units) /\ Laptop!Unsaved
  <2>1. Len(units) >= 1
    BY <1>2, <1>5 DEF Laptop!Waits, Laptop!HeaderSize
  <2>2. Rest(units, 1, Tail(units))
    BY <1>2, <2>1 DEF Rest
  <2>3. Rest(buffer, c + 1, buffer')
    BY <1>1, <1>2, <1>5, <2>2, RestOfRest
  <2>4. QED
    BY <1>5, <2>3 DEF HostMove
<1>6. CASE /\ ~Laptop!Waits(units) /\ Laptop!ValidHeader(units)
           /\ buffer' = Laptop!From(units, size + 1)
           /\ Laptop!SaveRecord(units)
  <2>1. Len(units) >= 2 /\ units[2][1] = "head" /\ ~(Len(units) < size)
    BY <1>6 DEF Laptop!Waits, Laptop!ValidHeader, Laptop!HeaderSize, size
  <2>2. units[2] = buffer[2 + c] /\ 2 + c \in 1 .. Len(buffer) /\ c \in Nat
    BY <1>2, <2>1
  <2>3. Payload[units[2][2]] \in Seq(Unit)
    BY <2>1, <2>2, SerialLineAssumption
  <2>4. size \in Nat /\ size >= 2 /\ size <= Len(units)
    <3>1. Len(Payload[units[2][2]]) \in Nat
      BY <2>3
    <3>2. size = 2 + Len(Payload[units[2][2]])
      BY DEF size, Laptop!RecordSize, Laptop!HeaderSize
    <3>3. QED
      BY <1>2, <2>1, <3>1, <3>2
  <2>5. Rest(units, size, buffer')
    BY <1>2, <1>6, <2>4, Suffixes
  <2>6. Rest(buffer, c + size, buffer')
    BY <1>1, <1>2, <2>5, RestOfRest
  <2>7. 2 + c \in 1 .. c + size /\ c + size \in Nat
    BY <2>2, <2>4
  <2>8. /\ saved' = Append(saved, [image |-> buffer[2 + c][2], seq |-> buffer[2 + c][3]])
        /\ gaps' = IF lastSeq # 0 /\ buffer[2 + c][3] # lastSeq + 1
                   THEN gaps + 1 ELSE gaps
        /\ lastSeq' = buffer[2 + c][3]
    BY <1>6, <2>2 DEF Laptop!SaveRecord
  <2>9. QED
    BY <2>1, <2>2, <2>6, <2>7, <2>8 DEF HostMove
<1>7. QED
  BY <1>3, <1>4, <1>5, <1>6

\* A step that is the laptop's alone keeps the bytes on the way in order.
LEMMA HostStepMoves ==
  ASSUME LineType, Laptop!HostSteps \/ Laptop!ReadNothing,
         \A n \in 1 .. Len(buffer) : buffer[n][1] = "head" => buffer[n][2] \in Image
  PROVE  \/ HostMove /\ uart' = uart
         \/ Laptop!Unsaved /\ Wire' = Wire /\ buffer' \in Seq(Unit) /\ uart' \in Seq(Unit)
<1>1. CASE Laptop!Feed
  <2>1. uart' = uart
    BY <1>1 DEF Laptop!Feed, Laptop!Turn
  <2>2. QED
    BY <1>1, <2>1, TurnMoves DEF Laptop!Feed
<1>2. CASE Laptop!FeedRest
  <2>1. uart' = uart
    BY <1>2 DEF Laptop!FeedRest, Laptop!Turn
  <2>2. QED
    BY <1>2, <2>1, TurnMoves DEF Laptop!FeedRest
<1>3. CASE Laptop!Read
  <2>1. PICK n \in 1 .. Len(uart) :
           /\ buffer' = buffer \o SubSeq(uart, 1, n)
           /\ uart' = Laptop!From(uart, n + 1)
    BY <1>3 DEF Laptop!Read
  <2>2. n \in 0 .. Len(uart)
    OBVIOUS
  <2>3. QED
    BY <1>3, <2>1, <2>2, Moved DEF LineType, Wire, Laptop!Read, Laptop!Unsaved
<1>4. CASE Laptop!ReadNothing \/ Laptop!ObserveAgain
  BY <1>4 DEF Laptop!ReadNothing, Laptop!ObserveAgain, Laptop!Unsaved, Wire, LineType
<1>5. CASE Laptop!Observe
  <2>1. Laptop!Unsaved /\ uart' = uart
    BY <1>5 DEF Laptop!Observe, Laptop!Unsaved
  <2>2. CASE buffer' = buffer
    BY <2>1, <2>2 DEF Wire, LineType
  <2>3. CASE Laptop!Incomplete /\ buffer' = Tail(buffer)
    <3>1. buffer \in Seq(Unit) /\ Len(buffer) >= 1
      BY <2>3 DEF LineType, Laptop!Incomplete, Laptop!ValidHeader, Laptop!HeaderSize
    <3>2. Rest(buffer, 1, buffer')
      BY <2>3, <3>1 DEF Rest
    <3>3. QED
      BY <2>1, <3>2 DEF HostMove
  <2>4. QED
    BY <1>5, <2>2, <2>3 DEF Laptop!Observe
<1>6. QED
  BY <1>1, <1>2, <1>3, <1>4, <1>5 DEF Laptop!HostSteps

\* The header of the record being written is yet to be sent, or lost.
HeadLeft ==
  Server!Writing /\ \E n \in 1 .. Len(writer.left) : writer.left[n][1] = "head"

\* Headers of numbers up to here may have been sent.
LastSent == IF HeadLeft THEN LastTaken - 1 ELSE LastTaken

\* What is left of a record has at most its own header.
LeftOfRecord ==
  Server!Writing =>
    \A n \in 1 .. Len(writer.left) : writer.left[n][1] = "head" =>
      /\ writer.left[n] = <<"head", writer.job.image, writer.job.seq>>
      /\ \A m \in 1 .. Len(writer.left) : writer.left[m][1] = "head" => m = n

\* The headers that the laptop has not seen yet are in the order of their
\* numbers, and after the last one it saved.
LineOrder == Rising(Wire, lastSeq, LastSent)

SavedOrder ==
  /\ lastSeq = IF saved = <<>> THEN 0 ELSE saved[Len(saved)].seq
  /\ \A n \in 1 .. Len(saved) : saved[n].seq <= lastSeq
  /\ \A n \in 1 .. Len(saved) - 1 : saved[n].seq < saved[n + 1].seq

Jumps == {n \in 1 .. Len(saved) - 1 : saved[n + 1].seq # saved[n].seq + 1}

GapsCounted == gaps = Cardinality(Jumps)

LineInv == LineType /\ LeftOfRecord /\ LineOrder /\ SavedOrder /\ GapsCounted

LEMMA LineInit == Init => LineInv
<1> SUFFICES ASSUME Init PROVE LineInv
  OBVIOUS
<1>1. LineType
  BY DEF Init, LineType, Server!OutputInit, Laptop!HostInit
<1>2. LeftOfRecord /\ ~HeadLeft
  BY DEF Init, LeftOfRecord, HeadLeft, Server!OutputInit, Server!Writing
<1>3. LineOrder
  <2>1. LastTaken \in Nat
    BY OutputInit DEF InOrder
  <2>2. lastSeq = 0 /\ Len(Wire) = 0
    BY DEF Init, Server!OutputInit, Laptop!HostInit, Wire
  <2>3. QED
    BY <1>2, <2>1, <2>2 DEF LineOrder, LastSent, Rising
<1>4. SavedOrder
  BY DEF Init, Laptop!HostInit, SavedOrder
<1>5. GapsCounted
  <2>1. Jumps = {} /\ gaps = 0
    BY DEF Init, Laptop!HostInit, Jumps
  <2>2. QED
    BY <2>1, FS_EmptySet DEF GapsCounted
<1>6. QED
  BY <1>1, <1>2, <1>3, <1>4, <1>5 DEF LineInv

-----------------------------------------------------------------------------

\* The writer takes the images in the order of their numbers.
LEMMA LastTakenNext ==
  ASSUME GatewayInv, GatewayInv', OutputStep
  PROVE  LastTaken' = IF Server!TakeJob THEN LastTaken + 1 ELSE LastTaken
<1>0. /\ pendingSlots \in Seq(Job) /\ Len(pendingSlots) \in Nat
      /\ nextSeq \in Nat /\ Busy(callback) \in Nat
  BY DEF GatewayInv, OutputType, Busy
<1>6. Server!TakeJob => pendingSlots' # pendingSlots
  <2>1. Server!TakeJob => Len(pendingSlots') = Len(pendingSlots) - 1
    BY <1>0 DEF Server!TakeJob
  <2>2. QED
    BY <1>0, <2>1
<1>1. CASE Server!TakeJob
  <2>1. Len(pendingSlots') = Len(pendingSlots) - 1
    BY <1>0, <1>1 DEF Server!TakeJob
  <2>2. QED
    BY <1>0, <1>1, <2>1 DEF Server!TakeJob, LastTaken
<1>2. CASE Server!QueueSlot
  <2>1. /\ callback # NoJob /\ callback' = NoJob /\ ~Server!TakeJob
        /\ Len(pendingSlots') = Len(pendingSlots) + 1
    BY <1>0, <1>2 DEF Server!QueueSlot, Server!TakeJob, GatewayInv, OutputType, CallbackTask
  <2>2. QED
    BY <1>0, <1>2, <2>1 DEF Server!QueueSlot, LastTaken, Busy
<1>3. CASE Server!TakeSlot
  <2>1. callback = NoJob /\ callback' # NoJob /\ ~Server!TakeJob
    <3>1. callback' \in CallbackTask
      BY <1>3, NextImages DEF Server!TakeSlot, CallbackTask, GatewayInv
    <3>2. QED
      BY <1>3, <3>1, Jobs DEF Server!TakeSlot, Server!TakeJob
  <2>2. QED
    BY <1>0, <1>3, <2>1 DEF Server!TakeSlot, LastTaken, Busy
<1>4. CASE Server!RaiseFlag
  <2>1. callback # NoJob /\ callback' # NoJob /\ ~Server!TakeJob
    <3>1. callback' \in CallbackTask
      BY <1>4 DEF Server!RaiseFlag, CallbackTask, GatewayInv, OutputType
    <3>2. QED
      BY <1>4, <1>6, <3>1, Jobs DEF Server!RaiseFlag
  <2>2. QED
    BY <1>4, <2>1 DEF Server!RaiseFlag, LastTaken, Busy
<1>5. ASSUME \/ Server!DropImage \/ \E sent \in SentUnits : Server!WriteUnit(sent)
             \/ Server!FinishWrite \/ Server!ReportDrops \/ Server!ReturnSlot
             \/ UNCHANGED serverOnly
      PROVE  UNCHANGED <<LastTaken, pendingSlots>>
  BY <1>5 DEF Server!DropImage, Server!WriteUnit, Server!FinishWrite,
    Server!ReportDrops, Server!ReturnSlot, Server!RecordEnds, serverOnly, LastTaken, Busy
<1>7. QED
  BY <1>1, <1>2, <1>3, <1>4, <1>5, <1>6 DEF OutputStep

LEMMA RisingLater ==
  ASSUME NEW s \in Seq(Unit), NEW lo, NEW hi, NEW top \in Nat, Rising(s, lo, hi),
         hi <= top
  PROVE  Rising(s, lo, top)
<1>1. \A n \in 1 .. Len(s) : s[n][3] \in Nat
  BY DEF Unit
<1>2. QED
  BY <1>1 DEF Rising

LEMMA RisingMore ==
  ASSUME NEW s \in Seq(Unit), NEW e \in Unit, NEW lo, NEW hi, NEW top \in Nat,
         Rising(s, lo, hi), hi <= top,
         e[1] = "head" => e[2] \in Image /\ hi < e[3] /\ e[3] <= top
  PROVE  Rising(s \o <<e>>, lo, top)
<1>1. <<e>> \in Seq(Unit) /\ Len(<<e>>) = 1 /\ <<e>>[1] = e /\ Len(s) \in Nat
  OBVIOUS
<1>2. /\ Len(s \o <<e>>) = Len(s) + 1
      /\ \A n \in 1 .. Len(s) + 1 : (s \o <<e>>)[n] = IF n <= Len(s) THEN s[n] ELSE e
  BY <1>1, Joined
<1> DEFINE t == s \o <<e>>
<1>3. /\ Len(t) = Len(s) + 1
      /\ \A n \in 1 .. Len(s) + 1 : t[n] = IF n <= Len(s) THEN s[n] ELSE e
  BY <1>2
<1> HIDE DEF t
<1>4. e[3] \in Nat /\ \A n \in 1 .. Len(s) : s[n][3] \in Nat
  BY DEF Unit
<1>5. ASSUME NEW n \in 1 .. Len(t), t[n][1] = "head"
      PROVE  t[n][2] \in Image /\ lo < t[n][3] /\ t[n][3] <= top
  BY <1>1, <1>3, <1>4, <1>5 DEF Rising
<1>6. ASSUME NEW m \in 1 .. Len(t), NEW n \in 1 .. Len(t), m < n,
             t[m][1] = "head", t[n][1] = "head"
      PROVE  t[m][3] < t[n][3]
  <2>1. m \in 1 .. Len(s) /\ t[m] = s[m] /\ s[m][3] <= hi /\ hi \in Nat
    BY <1>1, <1>3, <1>6 DEF Rising
  <2>2. CASE n <= Len(s)
    BY <1>1, <1>3, <1>6, <2>1, <2>2 DEF Rising
  <2>3. CASE ~(n <= Len(s))
    BY <1>1, <1>3, <1>4, <1>6, <2>1, <2>3
  <2>4. QED
    BY <2>2, <2>3
<1>7. Rising(t, lo, top)
  BY <1>5, <1>6 DEF Rising
<1>8. QED
  BY <1>7 DEF t

LEMMA SentSoFar ==
  ASSUME GatewayInv
  PROVE  LastTaken \in Nat /\ LastSent \in Nat /\ LastSent <= LastTaken
<1>1. LastTaken \in Nat
  BY DEF GatewayInv, Accounts, InOrder
<1>2. HeadLeft => LastTaken >= 1
  <2>1. SUFFICES ASSUME HeadLeft PROVE LastTaken >= 1
    OBVIOUS
  <2>2. writer # NoJob /\ writer \in WriterTask
    BY <2>1 DEF HeadLeft, Server!Writing, GatewayInv, OutputType
  <2>3. writer.job.seq = LastTaken /\ writer.job.seq \in Nat \ {0}
    BY <2>2 DEF GatewayInv, Accounts, InOrder, WriterTask, Job
  <2>4. QED
    BY <2>3
<1>3. QED
  BY <1>1, <1>2 DEF LastSent

\* The writer sends its record from the front to the end.
LEMMA LeftNext ==
  ASSUME GatewayInv, GatewayInv', LeftOfRecord, OutputStep
  PROVE  LeftOfRecord' /\ LastSent' \in Nat /\ LastSent <= LastSent'
<1>0. /\ LastTaken \in Nat /\ LastSent \in Nat /\ LastSent <= LastTaken
      /\ LastTaken' = IF Server!TakeJob THEN LastTaken + 1 ELSE LastTaken
  BY SentSoFar, LastTakenNext
<1>1. CASE Server!TakeJob
  <2>1. LastSent = LastTaken
    BY <1>1 DEF Server!TakeJob, LastSent, HeadLeft, Server!Writing
  <2>2. LastSent' \in Nat /\ LastSent <= LastSent'
    BY <1>0, <1>1, <2>1 DEF LastSent
  <2>3. PICK job \in Job : job = Head(pendingSlots)
    BY <1>1 DEF Server!TakeJob, GatewayInv, OutputType
  <2>4. /\ writer'.job = job /\ writer'.left = Server!Record(job)
    BY <1>1, <2>3 DEF Server!TakeJob
  <2>5. LeftOfRecord'
    <3>1. /\ Server!Record(job) \in Seq(Unit)
          /\ \A n \in DOMAIN Server!Record(job) :
               Server!Record(job)[n][1] = "head" =>
                 n = 2 /\ Server!Record(job)[n] = <<"head", job.image, job.seq>>
      BY Records
    <3>2. DOMAIN Server!Record(job) = 1 .. Len(Server!Record(job))
      BY <3>1
    <3>3. QED
      BY <2>4, <3>1, <3>2 DEF LeftOfRecord
  <2>6. QED
    BY <2>2, <2>5
<1>2. ASSUME NEW sent \in SentUnits, Server!WriteUnit(sent)
      PROVE  LeftOfRecord' /\ LastSent' \in Nat /\ LastSent <= LastSent'
  <2>1. writer \in WriterTask /\ Server!Writing /\ writer.left # <<>>
    BY <1>2, WriterWrites DEF Server!WriteUnit, Server!Writing, GatewayInv
  <2>2. writer'.job = writer.job /\ writer'.left = Tail(writer.left)
    BY <1>2, <2>1 DEF Server!WriteUnit, WriterTask
  <2>3. /\ writer.left \in Seq(Unit) /\ Len(writer.left) \in Nat
        /\ Len(writer'.left) = Len(writer.left) - 1
        /\ \A n \in 1 .. Len(writer'.left) : writer'.left[n] = writer.left[n + 1]
    BY <2>1, <2>2 DEF WriterTask
  <2>4. LeftOfRecord'
    <3>1. SUFFICES ASSUME NEW n \in 1 .. Len(writer'.left), writer'.left[n][1] = "head"
          PROVE  /\ writer'.left[n] = <<"head", writer'.job.image, writer'.job.seq>>
                 /\ \A m \in 1 .. Len(writer'.left) :
                      writer'.left[m][1] = "head" => m = n
      BY DEF LeftOfRecord
    <3>2. n + 1 \in 1 .. Len(writer.left) /\ writer'.left[n] = writer.left[n + 1]
      BY <2>3
    <3>3. /\ writer.left[n + 1] = <<"head", writer.job.image, writer.job.seq>>
          /\ \A m \in 1 .. Len(writer.left) : writer.left[m][1] = "head" => m = n + 1
      BY <2>1, <3>1, <3>2 DEF LeftOfRecord
    <3>4. ASSUME NEW m \in 1 .. Len(writer'.left), writer'.left[m][1] = "head"
          PROVE  m = n
      <4>1. m + 1 \in 1 .. Len(writer.left) /\ writer'.left[m] = writer.left[m + 1]
        BY <2>3
      <4>2. m + 1 = n + 1
        BY <3>3, <3>4, <4>1
      <4>3. QED
        BY <2>3, <4>2
    <3>5. QED
      BY <2>2, <3>2, <3>3, <3>4
  <2>5. HeadLeft' => HeadLeft
    <3>1. SUFFICES ASSUME HeadLeft' PROVE HeadLeft
      OBVIOUS
    <3>2. PICK n \in 1 .. Len(writer'.left) : writer'.left[n][1] = "head"
      BY <3>1 DEF HeadLeft
    <3>3. n + 1 \in 1 .. Len(writer.left) /\ writer.left[n + 1][1] = "head"
      BY <2>3, <3>2
    <3>4. QED
      BY <2>1, <3>3 DEF HeadLeft
  <2>6. LastTaken' = LastTaken
    BY <1>0, <2>1 DEF Server!TakeJob, Server!Writing
  <2>7. LastSent' = LastSent \/ LastSent' = LastTaken
    BY <2>5, <2>6 DEF LastSent
  <2>8. QED
    BY <1>0, <2>4, <2>7
<1>3. CASE \/ Server!DropImage \/ Server!TakeSlot \/ Server!RaiseFlag
           \/ Server!QueueSlot \/ Server!FinishWrite \/ Server!ReportDrops
           \/ Server!ReturnSlot \/ UNCHANGED serverOnly
  <2>1. writer' = writer \/ ~Server!Writing'
    <3>1. CASE Server!FinishWrite \/ Server!ReportDrops
      <4>1. writer \in WriterTask
        BY <3>1
        DEF Server!FinishWrite, Server!ReportDrops, Server!Writing, GatewayInv, OutputType
      <4>2. writer'.pc # "write"
        BY <3>1, <4>1 DEF Server!FinishWrite, Server!ReportDrops, WriterTask
      <4>3. QED
        BY <4>2 DEF Server!Writing
    <3>2. QED
      BY <1>3, <3>1 DEF Server!DropImage, Server!TakeSlot, Server!RaiseFlag,
        Server!QueueSlot, Server!ReturnSlot, Server!Writing, serverOnly
  <2>2. LeftOfRecord'
    BY <2>1 DEF LeftOfRecord, Server!Writing
  <2>3. HeadLeft' => HeadLeft
    BY <2>1 DEF HeadLeft, Server!Writing
  <2>4. LastTaken' = LastTaken \/ Server!TakeJob
    BY <1>0
  <2>5. CASE LastTaken' = LastTaken
    <3>1. LastSent' = LastSent \/ LastSent' = LastTaken
      BY <2>3, <2>5 DEF LastSent
    <3>2. QED
      BY <1>0, <2>2, <3>1
  <2>6. QED
    BY <1>1, <2>4, <2>5
<1>4. QED
  BY <1>1, <1>2, <1>3 DEF OutputStep

\* A header is sent after those of the images before it.
LEMMA HeaderSent ==
  ASSUME GatewayInv, GatewayInv', LeftOfRecord, LineType, LineOrder, ByteSent
  PROVE  uart' \in Seq(Unit) /\ buffer' = buffer /\ Rising(Wire', lastSeq, LastSent')
<1> DEFINE e == Head(writer.left)
<1>a. PICK sent \in SentUnits : Server!WriteUnit(sent)
  BY DEF ByteSent, SentUnits
<1>b. OutputStep
  BY <1>a DEF OutputStep
<1>0. /\ LastTaken \in Nat /\ LastSent \in Nat /\ LastSent' \in Nat /\ LastSent <= LastSent'
  BY <1>b, SentSoFar, LeftNext
<1>1. writer \in WriterTask /\ Server!Writing /\ writer.left # <<>>
  BY <1>a, WriterWrites DEF Server!WriteUnit, Server!Writing, GatewayInv
<1>2. uart' = uart \o sent /\ buffer' = buffer /\ writer'.left = Tail(writer.left)
  BY <1>a, <1>1 DEF Server!WriteUnit, WriterTask, ByteSent, hostVars
<1>3. /\ writer.left \in Seq(Unit) /\ Len(writer.left) >= 1 /\ Len(writer.left) \in Nat
      /\ e = writer.left[1] /\ e \in Unit /\ 1 \in 1 .. Len(writer.left)
      /\ Len(writer'.left) = Len(writer.left) - 1
      /\ \A n \in 1 .. Len(writer'.left) : writer'.left[n] = writer.left[n + 1]
  <2>1. writer.left \in Seq(Unit)
    BY <1>1 DEF WriterTask
  <2>2. QED
    BY <1>1, <1>2, <2>1
<1> HIDE DEF e
<1>4. e[1] = "head" => e[2] \in Image /\ LastSent < e[3] /\ e[3] <= LastSent'
  <2>1. SUFFICES ASSUME e[1] = "head"
                 PROVE  e[2] \in Image /\ LastSent < e[3] /\ e[3] <= LastSent'
    OBVIOUS
  <2>2. e = <<"head", writer.job.image, writer.job.seq>>
    BY <1>1, <1>3, <2>1 DEF LeftOfRecord
  <2>3. writer.job.image \in Image /\ writer.job.seq = LastTaken
    BY <1>1 DEF WriterTask, Job, GatewayInv, Accounts, InOrder, Server!Writing
  <2>4. HeadLeft
    BY <1>1, <1>3, <2>1 DEF HeadLeft
  <2>5. ~HeadLeft'
    <3>1. SUFFICES ASSUME HeadLeft' PROVE FALSE
      OBVIOUS
    <3>2. PICK n \in 1 .. Len(writer'.left) : writer'.left[n][1] = "head"
      BY <3>1 DEF HeadLeft
    <3>3. n + 1 \in 1 .. Len(writer.left) /\ writer.left[n + 1][1] = "head" /\ n + 1 # 1
      BY <1>3, <3>2
    <3>4. \A m \in 1 .. Len(writer.left) : writer.left[m][1] = "head" => m = 1
      BY <1>1, <1>3, <2>1 DEF LeftOfRecord
    <3>5. QED
      BY <3>3, <3>4
  <2>6. LastTaken' = LastTaken
    BY <1>b, <1>1, LastTakenNext DEF Server!TakeJob, Server!Writing
  <2>7. LastSent = LastTaken - 1 /\ LastSent' = LastTaken
    BY <2>4, <2>5, <2>6 DEF LastSent
  <2>8. QED
    BY <1>0, <2>2, <2>3, <2>7
<1>5. Wire' = Wire \o sent /\ Wire \in Seq(Unit) /\ uart' \in Seq(Unit)
  <2>1. sent \in Seq(Unit)
    <3>1. <<e>> \in Seq(Unit) /\ <<Server!Noise>> \in Seq(Unit) /\ <<>> \in Seq(Unit)
      BY <1>3, Units
    <3>2. QED
      BY <3>1 DEF SentUnits, e
  <2>3. QED
    BY <1>2, <2>1, Associative, Joined DEF Wire, LineType
<1>6. Rising(Wire, lastSeq, LastSent)
  BY DEF LineOrder
<1>7. CASE sent = <<e>>
  BY <1>0, <1>2, <1>3, <1>4, <1>5, <1>6, <1>7, RisingMore
<1>8. CASE sent = <<Server!Noise>>
  <2>1. Server!Noise \in Unit /\ Server!Noise[1] # "head"
    BY Units DEF Server!Noise
  <2>2. QED
    BY <1>0, <1>2, <1>5, <1>6, <1>8, <2>1, RisingMore
<1>9. CASE sent = <<>>
  <2>1. Wire' = Wire
    BY <1>5, <1>9, ConcatProperties
  <2>2. QED
    BY <1>0, <1>2, <1>5, <1>6, <2>1, RisingLater
<1>10. QED
  BY <1>7, <1>8, <1>9 DEF SentUnits, e

\* A record is saved after those with smaller numbers, and a gap is counted
\* if it is not the next one.
LEMMA SaveNext ==
  ASSUME LineType, SavedOrder, GapsCounted, NEW job \in Job, lastSeq < job.seq,
         saved' = Append(saved, job), lastSeq' = job.seq,
         gaps' = IF lastSeq # 0 /\ job.seq # lastSeq + 1 THEN gaps + 1 ELSE gaps
  PROVE  SavedOrder' /\ GapsCounted'
<1>1. /\ saved \in Seq(Job) /\ Len(saved) \in Nat /\ lastSeq \in Nat /\ gaps \in Nat
      /\ job.seq \in Nat \ {0}
      /\ \A n \in 1 .. Len(saved) : saved[n].seq \in Nat \ {0}
  <2>1. saved \in Seq(Job)
    BY DEF LineType
  <2>2. \A n \in 1 .. Len(saved) : saved[n] \in Job
    BY <2>1
  <2>3. QED
    BY <2>1, <2>2 DEF LineType, Job
<1>2. /\ Len(saved') = Len(saved) + 1
      /\ \A n \in 1 .. Len(saved) + 1 :
           saved'[n] = IF n = Len(saved) + 1 THEN job ELSE saved[n]
  BY <1>1, Queues
<1>3. saved = <<>> <=> lastSeq = 0
  <2>1. saved # <<>> => Len(saved) \in 1 .. Len(saved)
    BY <1>1
  <2>2. QED
    BY <1>1, <2>1 DEF SavedOrder
<1>4. saved # <<>> => Len(saved) > 0 /\ lastSeq = saved[Len(saved)].seq
  BY <1>1 DEF SavedOrder
<1>5. SavedOrder'
  <2>1. lastSeq' = saved'[Len(saved')].seq /\ saved' # <<>>
    BY <1>1, <1>2
  <2>2. \A n \in 1 .. Len(saved') : saved'[n].seq <= lastSeq'
    BY <1>1, <1>2 DEF SavedOrder
  <2>3. ASSUME NEW n \in 1 .. Len(saved') - 1
        PROVE  saved'[n].seq < saved'[n + 1].seq
    <3>1. n \in 1 .. Len(saved) /\ saved'[n] = saved[n]
      BY <1>1, <1>2
    <3>2. CASE n = Len(saved)
      BY <1>1, <1>2, <3>1, <3>2 DEF SavedOrder
    <3>3. CASE n # Len(saved)
      <4>1. n \in 1 .. Len(saved) - 1 /\ saved'[n + 1] = saved[n + 1]
        BY <1>1, <1>2, <3>1, <3>3
      <4>2. QED
        BY <3>1, <4>1 DEF SavedOrder
    <3>4. QED
      BY <3>2, <3>3
  <2>4. QED
    BY <2>1, <2>2, <2>3 DEF SavedOrder
<1>6. /\ IsFiniteSet(Jumps) /\ Len(saved) \notin Jumps
      /\ \A n \in Jumps : n \in 1 .. Len(saved) - 1
  <2>1. Jumps \subseteq 1 .. Len(saved) - 1
    BY DEF Jumps
  <2>2. IsFiniteSet(1 .. Len(saved) - 1)
    BY <1>1, FS_Interval
  <2>3. Len(saved) \notin 1 .. Len(saved) - 1
    BY <1>1
  <2>4. QED
    BY <2>1, <2>2, <2>3, FS_Subset
<1>7. \A n : n \in Jumps' <=>
        \/ n \in Jumps
        \/ n = Len(saved) /\ saved # <<>> /\ job.seq # lastSeq + 1
  <2>1. SUFFICES ASSUME NEW n
        PROVE  n \in Jumps' <=>
                 \/ n \in Jumps
                 \/ n = Len(saved) /\ saved # <<>> /\ job.seq # lastSeq + 1
    OBVIOUS
  <2>2. CASE n \in 1 .. Len(saved) - 1
    <3>1. /\ n \in 1 .. Len(saved') - 1 /\ n # Len(saved)
          /\ saved'[n] = saved[n] /\ saved'[n + 1] = saved[n + 1]
      BY <1>1, <1>2, <2>2
    <3>2. QED
      BY <2>2, <3>1 DEF Jumps
  <2>3. CASE n = Len(saved) /\ saved # <<>>
    <3>1. n \in 1 .. Len(saved') - 1 /\ saved'[n] = saved[n] /\ saved'[n + 1] = job
      BY <1>1, <1>2, <1>4, <2>3
    <3>2. n \in Jumps' <=> job.seq # lastSeq + 1
      BY <1>4, <2>3, <3>1 DEF Jumps
    <3>3. QED
      BY <1>6, <2>3, <3>2
  <2>4. CASE n \notin 1 .. Len(saved) - 1 /\ ~(n = Len(saved) /\ saved # <<>>)
    <3>1. n \notin 1 .. Len(saved') - 1
      <4>1. SUFFICES ASSUME n \in 1 .. Len(saved') - 1 PROVE FALSE
        OBVIOUS
      <4>2. n \in Nat /\ n >= 1 /\ n <= Len(saved)
        BY <1>1, <1>2, <4>1
      <4>3. n = Len(saved)
        BY <1>1, <2>4, <4>2
      <4>4. saved # <<>>
        BY <4>2, <4>3
      <4>5. QED
        BY <2>4, <4>3, <4>4
    <3>2. QED
      BY <2>4, <3>1 DEF Jumps
  <2>5. QED
    BY <2>2, <2>3, <2>4
<1>8. GapsCounted'
  <2>1. CASE saved # <<>> /\ job.seq # lastSeq + 1
    <3>1. Jumps' = Jumps \cup {Len(saved)}
      BY <1>7, <2>1
    <3>2. Cardinality(Jumps') = Cardinality(Jumps) + 1
      BY <1>6, <3>1, FS_AddElement
    <3>3. QED
      BY <1>3, <2>1, <3>2 DEF GapsCounted
  <2>2. CASE ~(saved # <<>> /\ job.seq # lastSeq + 1)
    <3>1. Jumps' = Jumps
      BY <1>7, <2>2
    <3>2. gaps' = gaps
      BY <1>3, <2>2
    <3>3. QED
      BY <3>1, <3>2 DEF GapsCounted
  <2>3. QED
    BY <2>1, <2>2
<1>9. QED
  BY <1>5, <1>8

LEMMA LaptopNext ==
  ASSUME GatewayInv, LineInv, LastSent' = LastSent,
         Laptop!HostSteps \/ Laptop!ReadNothing
  PROVE  LineType' /\ LineOrder' /\ SavedOrder' /\ GapsCounted'
<1>1. /\ LineType /\ SavedOrder /\ GapsCounted
      /\ Rising(Wire, lastSeq, LastSent)
      /\ buffer \in Seq(Unit) /\ uart \in Seq(Unit) /\ Wire \in Seq(Unit)
      /\ Len(Wire) = Len(buffer) + Len(uart)
      /\ \A n \in 1 .. Len(buffer) : n \in 1 .. Len(Wire) /\ Wire[n] = buffer[n]
  <2>1. LineType /\ SavedOrder /\ GapsCounted /\ Rising(Wire, lastSeq, LastSent)
    BY DEF LineInv, LineOrder
  <2>2. buffer \in Seq(Unit) /\ uart \in Seq(Unit)
    BY <2>1 DEF LineType
  <2>3. /\ Wire \in Seq(Unit) /\ Len(Wire) = Len(buffer) + Len(uart)
        /\ \A n \in 1 .. Len(buffer) + Len(uart) :
             Wire[n] = IF n <= Len(buffer) THEN buffer[n] ELSE uart[n - Len(buffer)]
    BY <2>2, Joined DEF Wire
  <2>4. ASSUME NEW n \in 1 .. Len(buffer)
        PROVE  n \in 1 .. Len(Wire) /\ Wire[n] = buffer[n]
    <3>1. Len(buffer) \in Nat /\ Len(uart) \in Nat
      BY <2>2
    <3>2. QED
      BY <2>3, <3>1
  <2>5. QED
    BY <2>1, <2>2, <2>3, <2>4
<1>2. \A n \in 1 .. Len(buffer) : buffer[n][1] = "head" => buffer[n][2] \in Image
  BY <1>1 DEF Rising
<1>3. ASSUME Laptop!Unsaved, buffer' \in Seq(Unit), uart' \in Seq(Unit),
             Rising(Wire', lastSeq, LastSent)
      PROVE  LineType' /\ LineOrder' /\ SavedOrder' /\ GapsCounted'
  <2>1. UNCHANGED <<saved, gaps, lastSeq>>
    BY <1>3 DEF Laptop!Unsaved
  <2>2. LineType' /\ SavedOrder' /\ GapsCounted'
    BY <1>1, <1>3, <2>1 DEF LineType, SavedOrder, GapsCounted, Jumps
  <2>3. LineOrder'
    BY <1>3, <2>1 DEF LineOrder
  <2>4. QED
    BY <2>2, <2>3
<1>4. CASE HostMove /\ uart' = uart
  <2>1. PICK k \in Nat :
          /\ Rest(buffer, k, buffer')
          /\ \/ Laptop!Unsaved
             \/ \E j \in 1 .. k :
                  /\ buffer[j][1] = "head"
                  /\ saved' = Append(saved, [image |-> buffer[j][2], seq |-> buffer[j][3]])
                  /\ gaps' = IF lastSeq # 0 /\ buffer[j][3] # lastSeq + 1
                             THEN gaps + 1 ELSE gaps
                  /\ lastSeq' = buffer[j][3]
    BY <1>4 DEF HostMove
  <2>2. Rest(Wire, k, Wire') /\ buffer' \in Seq(Unit) /\ uart' \in Seq(Unit)
    <3>1. buffer' \in Seq(Unit)
      BY <2>1 DEF Rest
    <3>2. QED
      BY <1>1, <1>4, <2>1, <3>1, RestJoined DEF Wire
  <2>3. /\ Rising(Wire', lastSeq, LastSent)
        /\ \A j \in 1 .. k : Wire[j][1] = "head" => Rising(Wire', Wire[j][3], LastSent)
    BY <1>1, <2>2, RisingRest
  <2>4. CASE Laptop!Unsaved
    BY <1>3, <2>2, <2>3, <2>4
  <2>5. ASSUME NEW j \in 1 .. k,
               buffer[j][1] = "head",
               saved' = Append(saved, [image |-> buffer[j][2], seq |-> buffer[j][3]]),
               gaps' = IF lastSeq # 0 /\ buffer[j][3] # lastSeq + 1
                       THEN gaps + 1 ELSE gaps,
               lastSeq' = buffer[j][3]
        PROVE  LineType' /\ LineOrder' /\ SavedOrder' /\ GapsCounted'
    <3>1. j \in 1 .. Len(buffer) /\ Wire[j] = buffer[j] /\ j \in 1 .. Len(Wire)
      <4>1. k \in 0 .. Len(buffer)
        BY <2>1 DEF Rest
      <4>2. j \in 1 .. Len(buffer)
        BY <1>1, <4>1
      <4>3. QED
        BY <1>1, <4>2
    <3>2. buffer[j][2] \in Image /\ lastSeq < buffer[j][3] /\ lastSeq \in Nat
      BY <1>1, <2>5, <3>1 DEF Rising
    <3>3. buffer[j][3] \in Nat
      <4>1. buffer[j] \in Unit
        BY <1>1, <3>1
      <4>2. QED
        BY <4>1 DEF Unit
    <3>4. PICK job \in Job : job = [image |-> buffer[j][2], seq |-> buffer[j][3]]
      <4>1. buffer[j][3] \in Nat \ {0}
        BY <3>2, <3>3
      <4>2. QED
        BY <3>2, <4>1 DEF Job
    <3>5. SavedOrder' /\ GapsCounted'
      BY <1>1, <2>5, <3>2, <3>4, SaveNext
    <3>6. LineType'
      BY <1>1, <2>2, <2>5, <3>3, <3>4 DEF LineType
    <3>7. LineOrder'
      BY <2>3, <2>5, <3>1 DEF LineOrder
    <3>8. QED
      BY <3>5, <3>6, <3>7
  <2>6. QED
    BY <2>1, <2>4, <2>5
<1>5. CASE Laptop!Unsaved /\ Wire' = Wire /\ buffer' \in Seq(Unit) /\ uart' \in Seq(Unit)
  BY <1>1, <1>3, <1>5
<1>6. QED
  BY <1>1, <1>2, <1>4, <1>5, HostStepMoves

LEMMA LineNext == GatewayInv /\ GatewayInv' /\ LineInv /\ [Next]_vars => LineInv'
<1> SUFFICES ASSUME GatewayInv, GatewayInv', LineInv, [Next]_vars PROVE LineInv'
  OBVIOUS
<1>1. LineType /\ LeftOfRecord /\ LineOrder /\ SavedOrder /\ GapsCounted
  BY DEF LineInv
<1>2. LeftOfRecord' /\ LastSent' \in Nat /\ LastSent <= LastSent'
  BY <1>1, NextIsOutputStep, LeftNext
<1>3. Wire \in Seq(Unit) /\ Rising(Wire, lastSeq, LastSent)
  BY <1>1, Joined DEF Wire, LineType, LineOrder
<1>4. CASE LaptopWorks \/ Tick
  <2>1. Laptop!HostSteps \/ Laptop!ReadNothing
    BY <1>4 DEF LaptopWorks, Tick
  <2>2. LastSent' = LastSent
    BY <1>4 DEF LaptopWorks, Tick, serverOnly, LastSent, HeadLeft, Server!Writing,
      LastTaken, Busy
  <2>3. QED
    BY <1>2, <2>1, <2>2, LaptopNext DEF LineInv
<1>5. ASSUME UNCHANGED hostVars, uart' \in Seq(Unit), Rising(Wire', lastSeq, LastSent')
      PROVE  LineInv'
  <2>1. UNCHANGED <<buffer, lastSeq, gaps, saved>>
    BY <1>5 DEF hostVars
  <2>2. LineType' /\ SavedOrder' /\ GapsCounted'
    BY <1>1, <1>5, <2>1 DEF LineType, SavedOrder, GapsCounted, Jumps
  <2>3. LineOrder'
    BY <1>5, <2>1 DEF LineOrder
  <2>4. QED
    BY <1>2, <2>2, <2>3 DEF LineInv
<1>6. CASE ByteSent
  BY <1>1, <1>5, <1>6, HeaderSent DEF ByteSent
<1>7. CASE OtherOutput
  <2>1. uart' = Append(uart, Server!Noise) /\ UNCHANGED hostVars
    BY <1>7 DEF OtherOutput, Server!WriteLog
  <2>2. buffer' = buffer /\ buffer \in Seq(Unit) /\ uart \in Seq(Unit)
    BY <1>1, <2>1 DEF hostVars, LineType
  <2>3. Server!Noise \in Unit /\ Server!Noise[1] # "head"
    BY Units DEF Server!Noise
  <2>4. uart' = uart \o <<Server!Noise>> /\ <<Server!Noise>> \in Seq(Unit)
    BY <2>1, <2>2, <2>3, AppendIsConcat
  <2>5. Wire' = Wire \o <<Server!Noise>> /\ uart' \in Seq(Unit)
      <3>2. QED
      BY <2>2, <2>4, Associative, Joined DEF Wire
  <2>6. Rising(Wire', lastSeq, LastSent')
    BY <1>2, <1>3, <2>3, <2>5, RisingMore
  <2>7. QED
    BY <1>5, <2>1, <2>5, <2>6
<1>8. ASSUME UNCHANGED <<hostVars, uart>>
      PROVE  LineInv'
  <2>1. uart' \in Seq(Unit) /\ Wire' = Wire
    BY <1>1, <1>8 DEF hostVars, Wire, LineType
  <2>2. Rising(Wire', lastSeq, LastSent')
    BY <1>2, <1>3, <2>1, RisingLater
  <2>3. QED
    BY <1>5, <1>8, <2>1, <2>2
<1>9. CASE ImageCompletes \/ CallbackContinues \/ WriterStarts
  <2>1. UNCHANGED <<hostVars, uart>>
    BY <1>9 DEF ImageCompletes, CallbackContinues, WriterStarts, Server!DropImage,
      Server!TakeSlot, Server!RaiseFlag, Server!QueueSlot, Server!TakeJob
  <2>2. QED
    BY <1>8, <2>1
<1>10. CASE WriteReturns \/ WriterContinues \/ UNCHANGED vars
  <2>1. UNCHANGED <<hostVars, uart>>
    BY <1>10 DEF WriteReturns, WriterContinues, vars, Server!FinishWrite,
      Server!ReportDrops, Server!ReturnSlot
  <2>2. QED
    BY <1>8, <2>1
<1>11. QED
  BY <1>4, <1>6, <1>7, <1>9, <1>10 DEF Next

\* The laptop reports a gap exactly where the record of an image, or its
\* header, was lost on the line: the numbers on the line rise, and every
\* number below the one being written is that of an image whose record has
\* ended; an image the gateway dropped took no number (image_complete,
\* SequenceTracker.observe).
THEOREM GapsAreLosses == Spec => []GapsAreLostRecords
<1>1. GatewayInv /\ LineInv => GapsAreLostRecords
  <2> SUFFICES ASSUME GatewayInv, LineInv PROVE GapsAreLostRecords
    OBVIOUS
  <2>1. /\ saved \in Seq(Job) /\ Len(saved) \in Nat
        /\ \A n \in 1 .. Len(saved) : saved[n].seq \in Nat /\ saved[n].seq <= lastSeq
        /\ \A n \in 1 .. Len(saved) - 1 : saved[n].seq < saved[n + 1].seq
    <3>1. saved \in Seq(Job)
      BY DEF LineInv, LineType
    <3>2. \A n \in 1 .. Len(saved) : saved[n] \in Job
      BY <3>1
    <3>3. QED
      BY <3>1, <3>2 DEF LineInv, SavedOrder, Job
  <2>2. lastSeq \in Nat /\ LastTaken \in Nat /\ lastSeq <= LastTaken
    <3>1. lastSeq \in Nat /\ LastSent \in Nat /\ lastSeq <= LastSent
      BY DEF LineInv, LineOrder, Rising
    <3>2. QED
      BY <3>1, SentSoFar
  <2>3. LastEnded \in Nat /\ LastEnded >= LastTaken - 1
    BY <2>2 DEF LastEnded, Ending, GatewayInv, Accounts, InOrder
  <2>4. /\ \A seq \in 1 .. LastEnded : \E job \in tally.ended : job.seq = seq
        /\ \A job \in tally.ended : job.seq \in Nat
    BY DEF GatewayInv, OutputType, Accounts, InOrder, Tally, Job
  <2>5. ASSUME NEW n \in 1 .. Len(saved) - 1
        PROVE  saved[n + 1].seq # saved[n].seq + 1 <=>
                 \E job \in tally.ended :
                   saved[n].seq < job.seq /\ job.seq < saved[n + 1].seq
    <3>1. /\ saved[n].seq \in Nat /\ saved[n + 1].seq \in Nat
          /\ saved[n].seq < saved[n + 1].seq /\ saved[n + 1].seq <= lastSeq
      <4>1. n \in 1 .. Len(saved) /\ n + 1 \in 1 .. Len(saved)
        BY <2>1
      <4>2. QED
        BY <2>1, <4>1
    <3>2. CASE saved[n + 1].seq # saved[n].seq + 1
      <4>1. saved[n].seq + 1 \in 1 .. LastEnded
        BY <2>2, <2>3, <3>1, <3>2
      <4>2. PICK job \in tally.ended : job.seq = saved[n].seq + 1
        BY <2>4, <4>1
      <4>3. saved[n].seq < job.seq /\ job.seq < saved[n + 1].seq
        BY <3>1, <3>2, <4>2
      <4>4. QED
        BY <3>2, <4>3
    <3>3. CASE saved[n + 1].seq = saved[n].seq + 1
      BY <2>4, <3>1, <3>3
    <3>4. QED
      BY <3>2, <3>3
  <2>6. Jumps = {n \in 1 .. Len(saved) - 1 : \E job \in tally.ended :
                   saved[n].seq < job.seq /\ job.seq < saved[n + 1].seq}
    BY <2>5 DEF Jumps
  <2>7. QED
    BY <2>6 DEF GapsAreLostRecords, LineInv, GapsCounted
<1>2. QED
  BY <1>1, LineInit, LineNext, GatewayInvariant, PTL DEF Spec
=============================================================================
