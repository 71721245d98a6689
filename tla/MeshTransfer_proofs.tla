-------------------------- MODULE MeshTransfer_proofs --------------------------
(***************************************************************************)
(* The image source, the gateway and the network between them implement    *)
(* ImageDelivery: for every set of images, every number of frame IDs,      *)
(* retries and cache entries, every size of chunk and buffer, any number   *)
(* of messages in flight and any number of losses, restarts and other      *)
(* troubles.                                                               *)
(***************************************************************************)
EXTENDS MeshTransfer, TLAPS

Item == [frame : 1 .. LastFrame, desc : Image]
JobItem(j) == ItemOf(j.frame, j.desc)

\* Some image of this frame ID is verified.
FrameVerified(f) == \E i \in verified : i.frame = f

\* A frame ID stands for one accepted image, and the counter is past it.
UsedOnce ==
  /\ nextFrame \in 1 .. LastFrame
  /\ accepted \subseteq Item
  /\ \A i \in accepted : i.frame < nextFrame
  /\ \A i, j \in accepted : i.frame = j.frame => i = j

\* The source's jobs are accepted images, and different ones.
JobsAccepted ==
  /\ queue # NoJob => queue \in C6!ImageJob /\ JobItem(queue) \in accepted
  /\ job # NoJob => job \in C6!ImageJob /\ JobItem(job) \in accepted
  /\ queue # NoJob /\ job # NoJob => queue.frame # job.frame

\* Where the worker has a job, who may have the other place, and that active
\* is set only in the steps that end with Finish.
Places ==
  /\ phase \in {"open", "end"}
  /\ pc \notin {"timeSend", "timeWait", "timeRead"}
  /\ job = NoJob <=> pc \in {"idle", "restart"}
  /\ pc \notin {"idle", "report", "restart"} => outstanding /\ queue = NoJob
  /\ queue # NoJob => outstanding
  /\ active => pc \notin {"idle", "begin", "flush", "release", "report", "restart"}

\* A COMPLETE in the mailbox, and a verdict made of one, are about the job.
VerdictRight ==
  /\ response = "COMPLETE" => active /\ JobItem(job) \in verified
  /\ pc \in {"finish", "flush", "release", "report"} /\ status = "ok" =>
       JobItem(job) \in verified

\* The gateway assembles what was accepted and remembers what it verified.
GatewayShape ==
  /\ session # NoSession =>
       session \in [src : {Node}, frame : 1 .. LastFrame, desc : Image,
                    rxEstimate : Gateway!Estimate, have : {session.have},
                    silence : {session.silence}]
  /\ \A i \in Gateway!Slot : cache[i] # NoEntry =>
       cache[i] \in [src : {Node}, frame : 1 .. LastFrame, desc : Image,
                     ttl : {cache[i].ttl}]

GatewayRight ==
  /\ verified \subseteq accepted
  /\ session # NoSession => JobItem(session) \in accepted
  /\ \A i \in Gateway!Slot : cache[i] # NoEntry => JobItem(cache[i]) \in verified

\* An OPEN under way describes an accepted image; a COMPLETE under way names
\* the frame of a verified one.
MessagesRight ==
  /\ \A m \in toGateway : m.op = "OPEN" =>
       ItemOf(m.frame, Gateway!OpenDescriptor(m)) \in accepted
  /\ \A r \in toSource : r.op = "COMPLETE" => FrameVerified(r.frame)

TransferInv ==
  /\ UsedOnce /\ JobsAccepted /\ Places /\ VerdictRight
  /\ GatewayShape /\ GatewayRight /\ MessagesRight

SourceRight == JobsAccepted /\ Places /\ VerdictRight
GatewaySide == GatewayShape /\ GatewayRight

-----------------------------------------------------------------------------
(* Items and jobs *)

\* A job's item is the only accepted one of its frame ID.
LEMMA FrameNamesItem ==
  ASSUME UsedOnce, GatewayRight, NEW j, JobItem(j) \in accepted,
         FrameVerified(j.frame)
  PROVE  JobItem(j) \in verified
<1>1. PICK i \in verified : i.frame = j.frame
  BY DEF FrameVerified
<1>2. i \in accepted /\ JobItem(j).frame = j.frame
  BY <1>1 DEF GatewayRight, JobItem, ItemOf
<1>3. i = JobItem(j)
  BY <1>1, <1>2 DEF UsedOnce
<1>4. QED
  BY <1>1, <1>3

LEMMA OwedIs ==
  Owed = {JobItem(j) : j \in {queue, job} \ {NoJob}}
BY DEF Owed, JobItem

\* An image's descriptor is what its OPEN declares.
LEMMA OpenDeclares ==
  ASSUME NEW j \in C6!ImageJob, NEW m,
         m = [op |-> "OPEN", frame |-> j.frame, detected |-> j.desc.detected,
              len |-> j.desc.len, crc |-> j.desc.crc]
  PROVE  ItemOf(m.frame, Gateway!OpenDescriptor(m)) = JobItem(j)
<1>1. j.desc \in Gateway!Descriptor
  BY TransferAssumption DEF C6!ImageJob
<1>2. j.desc = [detected |-> j.desc.detected, len |-> j.desc.len,
                crc |-> j.desc.crc]
  BY <1>1 DEF Gateway!Descriptor
<1>3. Gateway!OpenDescriptor(m) = j.desc /\ m.frame = j.frame
  BY <1>2 DEF Gateway!OpenDescriptor
<1>4. QED
  BY <1>3 DEF JobItem

\* The worker's OPEN is about its job.
LEMMA OutgoingOpen ==
  ASSUME SourceRight, C6!Sending, C6!Outgoing.op = "OPEN"
  PROVE  ItemOf(C6!Outgoing.frame, Gateway!OpenDescriptor(C6!Outgoing)) \in accepted
<1>1. pc \in {"send", "data", "repair"} /\ phase \in {"open", "end"}
  BY DEF SourceRight, Places, C6!Sending
<1>2. job \in C6!ImageJob /\ JobItem(job) \in accepted
  BY <1>1 DEF SourceRight, Places, JobsAccepted
<1>3. CASE pc = "send" /\ phase = "open"
  <2>1. C6!Outgoing = C6!OpenMessage
    BY <1>3 DEF C6!Outgoing
  <2>2. QED
    BY <1>2, <2>1, OpenDeclares DEF C6!OpenMessage
<1>4. CASE pc = "send" /\ phase = "end"
  <2>1. C6!Outgoing = C6!EndMessage
    BY <1>4 DEF C6!Outgoing
  <2>2. QED
    BY <2>1 DEF C6!EndMessage
<1>5. CASE pc = "data"
  <2>1. C6!Outgoing = C6!DataMessage(chunk)
    BY <1>5 DEF C6!Outgoing
  <2>2. QED
    BY <2>1 DEF C6!DataMessage
<1>6. CASE pc = "repair"
  <2>1. C6!Outgoing = C6!DataMessage(C6!FirstNack)
    BY <1>6 DEF C6!Outgoing
  <2>2. QED
    BY <2>1 DEF C6!DataMessage
<1>7. QED
  BY <1>1, <1>3, <1>4, <1>5, <1>6

-----------------------------------------------------------------------------
(* Steps of the source *)

\* The worker's own steps, apart from Take and Report, keep both jobs.
LEMMA WorkerKeepsJobs ==
  ASSUME SourceRight, UNCHANGED <<accepted, verified>>,
         \/ C6!Begin \/ C6!Clear \/ C6!Woken \/ C6!WaitTimeout \/ C6!Read
         \/ C6!Accepted \/ C6!Poll \/ C6!Repaired \/ C6!Finish \/ C6!Flush
         \/ C6!Release \/ C6!SendDone \/ C6!SendRefused \/ C6!SendFault
         \/ C6!Expire \/ C6!RouteChange \/ C6!Give
  PROVE  SourceRight' /\ UNCHANGED <<queue, job, nextFrame>>
<1> USE DEF SourceRight, Places, VerdictRight, C6!owner, C6!progress,
  C6!mailbox, C6!link, C6!Goto, C6!FinishWith
<1>1. UNCHANGED <<queue, job, nextFrame>>
  BY DEF C6!Begin, C6!Clear, C6!Woken, C6!WaitTimeout, C6!Read, C6!Accepted,
    C6!Poll, C6!Repaired, C6!Finish, C6!Flush, C6!Release, C6!SendDone,
    C6!SendRefused, C6!SendFault, C6!Expire, C6!RouteChange, C6!Give
<1>2. JobsAccepted'
  BY <1>1 DEF JobsAccepted
<1>3. job # NoJob => job.kind = "image"
  BY DEF JobsAccepted, C6!ImageJob
<1>4. JobItem(job)' = JobItem(job)
  BY <1>1 DEF JobItem
<1>5. CASE C6!Begin
  BY <1>1, <1>2, <1>3, <1>4, <1>5 DEF C6!Begin
<1>6. CASE C6!Clear
  BY <1>1, <1>2, <1>4, <1>6 DEF C6!Clear
<1>7. CASE C6!Woken \/ C6!WaitTimeout
  BY <1>1, <1>2, <1>4, <1>7 DEF C6!Woken, C6!WaitTimeout, C6!Waiting, C6!AfterWait
<1>8. CASE C6!Read
  BY <1>1, <1>2, <1>4, <1>8 DEF C6!Read, C6!ReadOpen, C6!ReadEnd, C6!StartAgain,
    C6!NextRound
<1>9. CASE C6!Accepted \/ C6!Repaired
  BY <1>1, <1>2, <1>4, <1>9 DEF C6!Accepted, C6!Repaired
<1>10. CASE C6!Poll
  BY <1>1, <1>2, <1>4, <1>10 DEF C6!Poll, C6!Interrupt, C6!StartAgain
<1>11. CASE C6!Finish \/ C6!Flush
  BY <1>1, <1>2, <1>3, <1>4, <1>11 DEF C6!Finish, C6!Flush
<1>12. CASE C6!Release
  BY <1>1, <1>2, <1>4, <1>12 DEF C6!Release
<1>13. CASE C6!SendDone
  BY <1>1, <1>2, <1>4, <1>13 DEF C6!SendDone, C6!Sending
<1>14. CASE C6!SendRefused \/ C6!SendFault
  BY <1>1, <1>2, <1>4, <1>14 DEF C6!SendRefused, C6!SendFault, C6!Sending
<1>15. CASE C6!Expire \/ C6!RouteChange \/ C6!Give
  <2>1. UNCHANGED <<pc, phase, outstanding, active, response, status>>
    BY <1>15 DEF C6!Expire, C6!RouteChange, C6!Give
  <2>2. QED
    BY <1>1, <1>2, <1>4, <2>1
<1>16. QED
  BY <1>1, <1>5, <1>6, <1>7, <1>8, <1>9, <1>10, <1>11, <1>12, <1>13, <1>14,
     <1>15

\* A response that is taken for the job's COMPLETE is about its frame.
LEMMA ResponseRight ==
  ASSUME UsedOnce, GatewayRight, SourceRight, UNCHANGED <<accepted, verified>>,
         NEW r, r.op = "COMPLETE" => FrameVerified(r.frame),
         C6!RespondImage(r)
  PROVE  SourceRight' /\ UNCHANGED <<queue, job, nextFrame>>
<1>1. UNCHANGED <<queue, job, nextFrame, outstanding, pc, phase, active, status>>
  BY DEF C6!RespondImage, C6!owner, C6!progress
<1>2. JobsAccepted' /\ Places'
  BY <1>1 DEF SourceRight, JobsAccepted, Places
<1>3. JobItem(job)' = JobItem(job)
  BY <1>1 DEF JobItem
<1>4. ASSUME response' = "COMPLETE", response # "COMPLETE"
      PROVE  active /\ JobItem(job) \in verified
  <2>1. C6!FitsFrame(r) /\ C6!Stored(r.op) = "COMPLETE"
    BY <1>4 DEF C6!RespondImage
  <2>2. r.op = "COMPLETE"
    BY <1>4, <2>1 DEF C6!Stored
  <2>3. active /\ r.frame = job.frame
    BY <2>1 DEF C6!FitsFrame
  <2>4. JobItem(job) \in accepted
    BY <2>3 DEF SourceRight, Places, JobsAccepted
  <2>5. QED
    BY <2>2, <2>3, <2>4, FrameNamesItem
<1>5. VerdictRight'
  BY <1>1, <1>3, <1>4 DEF SourceRight, VerdictRight
<1>6. QED
  BY <1>1, <1>2, <1>5 DEF SourceRight

\* A taken job leaves the queue for the worker.
LEMMA TakeRight ==
  ASSUME SourceRight, UNCHANGED <<accepted, verified>>, C6!Take
  PROVE  SourceRight' /\ Owed' = Owed /\ UNCHANGED nextFrame
<1>1. /\ queue # NoJob /\ job = NoJob
      /\ job' = queue /\ queue' = NoJob
      /\ UNCHANGED <<nextFrame, outstanding, phase, active, response>>
      /\ pc' \in {"begin", "release"} /\ status' = "error"
  BY DEF C6!Take, C6!progress, SourceRight, Places
<1>2. JobsAccepted'
  BY <1>1 DEF SourceRight, JobsAccepted, JobItem
<1>3. ~active /\ response # "COMPLETE" /\ outstanding
  BY DEF SourceRight, Places, VerdictRight, C6!Take
<1>4. Places' /\ VerdictRight'
  BY <1>1, <1>3 DEF SourceRight, Places, VerdictRight
<1>5. {queue, job}' \ {NoJob} = {queue, job} \ {NoJob}
  BY <1>1
<1>6. Owed' = Owed
  BY <1>5 DEF Owed
<1>7. QED
  BY <1>1, <1>2, <1>4, <1>6 DEF SourceRight

\* A reported job is owed no longer, another one still is.
LEMMA ReportRight ==
  ASSUME SourceRight, UNCHANGED <<accepted, verified>>, C6!Report
  PROVE  /\ SourceRight' /\ UNCHANGED nextFrame
         /\ JobItem(job) \in Item /\ JobItem(job) \in Owed
         /\ Owed' = Owed \ {JobItem(job)}
         /\ status = "ok" => JobItem(job) \in verified
<1>1. /\ pc = "report" /\ pc' \in {"idle", "restart"} /\ job' = NoJob
      /\ UNCHANGED <<nextFrame, queue, outstanding, phase, active, response,
                     status>>
  BY DEF C6!Report, C6!progress, C6!mailbox
<1>2. job # NoJob /\ job \in C6!ImageJob /\ ~active /\ response # "COMPLETE"
  BY <1>1 DEF SourceRight, Places, VerdictRight, JobsAccepted
<1>3. JobsAccepted'
  BY <1>1 DEF SourceRight, JobsAccepted, JobItem
<1>4. Places' /\ VerdictRight'
  BY <1>1, <1>2 DEF SourceRight, Places, VerdictRight
<1>5. JobItem(job) \in Item
  BY <1>2 DEF JobItem, ItemOf, Item, C6!ImageJob, C6!FrameId
<1>6. JobItem(job) \in Owed
  BY <1>2, OwedIs
<1>7. queue # NoJob => JobItem(queue) # JobItem(job)
  BY <1>2 DEF SourceRight, JobsAccepted, JobItem, ItemOf
<1>8. Owed = {JobItem(j) : j \in {queue} \ {NoJob}} \cup {JobItem(job)}
  BY <1>2, OwedIs
<1>9. Owed' = {JobItem(j) : j \in {queue} \ {NoJob}}
  BY <1>1 DEF Owed, JobItem
<1>10. Owed' = Owed \ {JobItem(job)}
  BY <1>7, <1>8, <1>9
<1>11. status = "ok" => JobItem(job) \in verified
  BY <1>1 DEF SourceRight, VerdictRight
<1>12. QED
  BY <1>1, <1>3, <1>4, <1>5, <1>6, <1>10, <1>11 DEF SourceRight

\* A restart forgets every job.
LEMMA RestartRight ==
  ASSUME NEW seed, C6!Restart(seed)
  PROVE  SourceRight' /\ Owed' = {} /\ nextFrame' = seed
<1>1. /\ queue' = NoJob /\ job' = NoJob /\ pc' = "idle" /\ phase' = "open"
      /\ active' = FALSE /\ response' = "NONE" /\ nextFrame' = seed
  BY DEF C6!Restart
<1>2. Owed' = {}
  BY <1>1 DEF Owed
<1>3. JobsAccepted' /\ Places' /\ VerdictRight'
  BY <1>1 DEF JobsAccepted, Places, VerdictRight
<1>4. QED
  BY <1>1, <1>2, <1>3 DEF SourceRight

\* A submitted image is a new one, and the queue has room for it.
LEMMA SubmitRight ==
  ASSUME UsedOnce, SourceRight, GatewayRight, NEW d \in Image, Submit(d)
  PROVE  /\ UsedOnce' /\ SourceRight'
         /\ ItemOf(nextFrame, d) \in Item
         /\ ItemOf(nextFrame, d) \notin accepted
         /\ Owed' = Owed \cup {ItemOf(nextFrame, d)}
<1> DEFINE new == [kind |-> "image", frame |-> nextFrame, desc |-> d]
           item == ItemOf(nextFrame, d)
<1>1. /\ nextFrame < LastFrame /\ nextFrame' = C6!FrameAfter(nextFrame)
      /\ C6!Enqueue(new)
      /\ accepted' = accepted \cup {item} /\ verified' = verified
  BY DEF Submit, C6!Submit
<1>2. nextFrame \in 1 .. LastFrame /\ nextFrame' = nextFrame + 1
  BY <1>1, TransferAssumption DEF UsedOnce, C6!FrameAfter
<1>3. item \in Item /\ item.frame = nextFrame /\ item = JobItem(new)
  BY <1>2 DEF ItemOf, Item, JobItem
<1>4. item \notin accepted
  BY <1>2, <1>3 DEF UsedOnce
<1>5. UsedOnce'
  <2>1. nextFrame' \in 1 .. LastFrame /\ accepted' \subseteq Item
    BY <1>1, <1>2, <1>3, TransferAssumption DEF UsedOnce
  <2>2. ASSUME NEW i \in accepted' PROVE i.frame < nextFrame'
    <3>1. i \in accepted => i.frame \in 1 .. LastFrame /\ i.frame < nextFrame
      BY DEF UsedOnce, Item
    <3>2. i \notin accepted => i.frame = nextFrame
      BY <1>1, <1>3, <2>2
    <3>3. QED
      BY <1>2, <3>1, <3>2
  <2>3. \A i \in accepted : i.frame # nextFrame
    BY <1>2 DEF UsedOnce, Item
  <2>4. \A i, j \in accepted' : i.frame = j.frame => i = j
    BY <1>1, <1>3, <2>3 DEF UsedOnce
  <2>5. QED
    BY <2>1, <2>2, <2>4 DEF UsedOnce
<1>6. queue = NoJob /\ queue' = new /\ outstanding' = TRUE
  BY <1>1 DEF C6!Enqueue, SourceRight, Places
<1>7. UNCHANGED <<job, pc, phase, status, active, response>>
  BY <1>1 DEF C6!Enqueue, C6!progress, C6!mailbox
<1>8. new \in C6!ImageJob /\ new # NoJob
  BY <1>2, TransferAssumption DEF C6!ImageJob, C6!FrameId
<1>9. JobsAccepted'
  <2>1. queue' \in C6!ImageJob /\ JobItem(queue)' \in accepted'
    BY <1>1, <1>3, <1>6, <1>8 DEF JobItem
  <2>2. job' # NoJob => job' \in C6!ImageJob /\ JobItem(job)' \in accepted'
    BY <1>1, <1>7 DEF SourceRight, JobsAccepted, JobItem
  <2>3. job' # NoJob => queue'.frame # job'.frame
    <3>1. job # NoJob => job.frame < nextFrame
      BY DEF SourceRight, JobsAccepted, JobItem, ItemOf, UsedOnce
    <3>2. queue'.frame = nextFrame
      BY <1>6
    <3>3. QED
      BY <1>2, <1>7, <3>1, <3>2
  <2>4. QED
    BY <2>1, <2>2, <2>3 DEF JobsAccepted
<1>10. pc \in {"idle", "report", "restart"}
  BY <1>1 DEF SourceRight, Places, C6!Enqueue
<1>11. Places' /\ VerdictRight'
  BY <1>1, <1>6, <1>7, <1>10 DEF SourceRight, Places, VerdictRight, JobItem
<1>12. Owed' = Owed \cup {item}
  <2>1. {queue, job}' \ {NoJob} = ({queue, job} \ {NoJob}) \cup {new}
    BY <1>6, <1>7, <1>8
  <2>2. Owed' = {JobItem(j) : j \in ({queue, job} \ {NoJob}) \cup {new}}
    BY <2>1 DEF Owed, JobItem
  <2>3. QED
    BY <1>3, <2>2, OwedIs
<1>13. QED
  BY <1>3, <1>4, <1>5, <1>9, <1>11, <1>12 DEF SourceRight

-----------------------------------------------------------------------------
(* Steps of the gateway *)

\* The entries of ExpireCache are entries of the ring.
LEMMA ExpireKeeps ==
  ASSUME NEW i \in Gateway!Slot, Gateway!ExpireCache[i] # NoEntry
  PROVE  cache[i] # NoEntry /\ Gateway!ExpireCache[i] = cache[i]
BY DEF Gateway!ExpireCache

\* A frame that the ring remembers is verified.
LEMMA HitVerified ==
  ASSUME GatewaySide, NEW f,
         Gateway!CacheHits(Gateway!ExpireCache, Node, f) # {}
  PROVE  FrameVerified(f)
<1>1. PICK i \in Gateway!Slot :
        Gateway!ExpireCache[i] # NoEntry /\ Gateway!ExpireCache[i].frame = f
  BY DEF Gateway!CacheHits
<1>2. cache[i] # NoEntry /\ cache[i].frame = f
  BY <1>1, ExpireKeeps
<1>3. JobItem(cache[i]) \in verified /\ JobItem(cache[i]).frame = f
  BY <1>2 DEF GatewaySide, GatewayRight, JobItem, ItemOf
<1>4. QED
  BY <1>3 DEF FrameVerified

\* A step that only removes entries of the ring.
LEMMA RingKept ==
  ASSUME GatewaySide, UNCHANGED <<verified, accepted>>,
         \A i \in Gateway!Slot : cache'[i] # NoEntry =>
           cache[i] # NoEntry /\ cache'[i] = cache[i],
         \/ session' = NoSession
         \/ session' = session
  PROVE  GatewaySide'
<1>1. ASSUME NEW i \in Gateway!Slot, cache'[i] # NoEntry
      PROVE  /\ cache'[i] \in [src : {Node}, frame : 1 .. LastFrame,
                               desc : Image, ttl : {cache'[i].ttl}]
             /\ JobItem(cache'[i]) \in verified'
  <2>1. cache[i] # NoEntry /\ cache'[i] = cache[i]
    BY <1>1
  <2>2. QED
    BY <2>1 DEF GatewaySide, GatewayShape, GatewayRight
<1>2. GatewayShape'
  BY <1>1 DEF GatewaySide, GatewayShape, Gateway!Slot
<1>3. GatewayRight'
  BY <1>1 DEF GatewaySide, GatewayRight, Gateway!Slot, JobItem
<1>4. QED
  BY <1>2, <1>3 DEF GatewaySide

\* An accepted image that an OPEN or a DATA leaves in the slot is of its shape.
LEMMA SessionKept ==
  ASSUME GatewaySide, UNCHANGED <<verified, accepted>>,
         \A i \in Gateway!Slot : cache'[i] # NoEntry =>
           cache[i] # NoEntry /\ cache'[i] = cache[i],
         session' \in [src : {Node}, frame : 1 .. LastFrame, desc : Image,
                       rxEstimate : Gateway!Estimate, have : {session'.have},
                       silence : {session'.silence}],
         ItemOf(session'.frame, session'.desc) \in accepted
  PROVE  GatewaySide'
<1>1. ASSUME NEW i \in Gateway!Slot, cache'[i] # NoEntry
      PROVE  /\ cache'[i] \in [src : {Node}, frame : 1 .. LastFrame,
                               desc : Image, ttl : {cache'[i].ttl}]
             /\ JobItem(cache'[i]) \in verified'
  <2>1. cache[i] # NoEntry /\ cache'[i] = cache[i]
    BY <1>1
  <2>2. QED
    BY <2>1 DEF GatewaySide, GatewayShape, GatewayRight
<1>2. GatewayShape'
  BY <1>1 DEF GatewaySide, GatewayShape, Gateway!Slot
<1>3. GatewayRight'
  BY <1>1 DEF GatewaySide, GatewayRight, Gateway!Slot, JobItem
<1>4. QED
  BY <1>2, <1>3 DEF GatewaySide

\* Only a completing END leaves a completion to publish; it is one of an
\* accepted image.
LEMMA CompletionAccepted ==
  ASSUME GatewaySide, UsedOnce, NEW m, Gateway!EndComplete(Node, m)
  PROVE  /\ publication' # NoPublication
         /\ JobItem(publication)' = JobItem(session)
         /\ JobItem(session) \in accepted
         /\ reply' = {Gateway!FrameReply("COMPLETE", Node, session.frame)}
<1>1. /\ session # NoSession /\ session.frame = m.frame
      /\ publication' = [src |-> session.src, frame |-> session.frame,
                         desc |-> session.desc,
                         rxEstimate |-> session.rxEstimate]
      /\ reply' = {Gateway!FrameReply("COMPLETE", Node, m.frame)}
  BY DEF Gateway!EndComplete, Gateway!Holds, Gateway!Active
<1>2. session \in [src : {Node}, frame : 1 .. LastFrame, desc : Image,
                   rxEstimate : Gateway!Estimate, have : {session.have},
                   silence : {session.silence}]
  BY <1>1 DEF GatewaySide, GatewayShape
<1>3. publication' \in Gateway!Publication
  BY <1>1, <1>2, TransferAssumption DEF Gateway!Publication
<1>4. QED
  BY <1>1, <1>3, TransferAssumption DEF GatewaySide, GatewayRight, JobItem

\* What a step of the callback leaves in the slot.
LEMMA SessionAfter ==
  ASSUME UsedOnce, GatewaySide, NEW m,
         m.op = "OPEN" =>
           ItemOf(m.frame, Gateway!OpenDescriptor(m)) \in accepted,
         Gateway!Receive(Node, m)
  PROVE  \/ session' = NoSession
         \/ session' = session
         \/ /\ session' \in [src : {Node}, frame : 1 .. LastFrame, desc : Image,
                             rxEstimate : Gateway!Estimate,
                             have : {session'.have},
                             silence : {session'.silence}]
            /\ ItemOf(session'.frame, session'.desc) \in accepted
<1> DEFINE Fine ==
      /\ session' \in [src : {Node}, frame : 1 .. LastFrame, desc : Image,
                       rxEstimate : Gateway!Estimate, have : {session'.have},
                       silence : {session'.silence}]
      /\ ItemOf(session'.frame, session'.desc) \in accepted
<1>1. ASSUME session # NoSession
      PROVE  /\ session \in [src : {Node}, frame : 1 .. LastFrame, desc : Image,
                             rxEstimate : Gateway!Estimate,
                             have : {session.have}, silence : {session.silence}]
             /\ ItemOf(session.frame, session.desc) \in accepted
  BY <1>1 DEF GatewaySide, GatewayShape, GatewayRight, JobItem
<1>2. CASE Gateway!OpenAgain(Node, m)
  <2>1. PICK sample \in Gateway!Estimate :
          session' = [Gateway!Heard EXCEPT !.rxEstimate =
                        Gateway!FirstEstimate(@, m, sample)]
    BY <1>2 DEF Gateway!OpenAgain
  <2>2. session # NoSession
    BY <1>2 DEF Gateway!OpenAgain, Gateway!Holds, Gateway!Active
  <2>3. Gateway!FirstEstimate(session.rxEstimate, m, sample) \in Gateway!Estimate
    BY <1>1, <2>2 DEF Gateway!FirstEstimate
  <2>4. Fine
    BY <1>1, <2>1, <2>2, <2>3 DEF Gateway!Heard
  <2>5. QED
    BY <2>4
<1>3. CASE Gateway!OpenSession(Node, m)
  <2>1. PICK sample \in Gateway!Estimate :
          session' = [src |-> Node, frame |-> m.frame,
                      desc |-> Gateway!OpenDescriptor(m),
                      rxEstimate |-> Gateway!FirstEstimate(0, m, sample),
                      have |-> {}, silence |-> 0]
    BY <1>3 DEF Gateway!OpenSession
  <2>2. Gateway!FirstEstimate(0, m, sample) \in Gateway!Estimate
    BY DEF Gateway!FirstEstimate, Gateway!Estimate
  <2>3. ItemOf(m.frame, Gateway!OpenDescriptor(m)) \in accepted
    BY <1>3 DEF Gateway!OpenSession, Gateway!FreshOpen
  <2>4. m.frame \in 1 .. LastFrame /\ Gateway!OpenDescriptor(m) \in Image
    BY <2>3 DEF UsedOnce, Item, ItemOf
  <2>5. Fine
    BY <2>1, <2>2, <2>3, <2>4
  <2>6. QED
    BY <2>5
<1>4. CASE Gateway!DataStore(Node, m)
  <2>1. /\ session # NoSession
        /\ session' = [Gateway!Heard EXCEPT !.have = @ \cup {m.index}]
    BY <1>4 DEF Gateway!DataStore, Gateway!Holds, Gateway!Active
  <2>2. Fine
    BY <1>1, <2>1 DEF Gateway!Heard
  <2>3. QED
    BY <2>2
<1>5. CASE Gateway!EndIncomplete(Node, m)
  <2>1. session # NoSession /\ session' = Gateway!Heard
    BY <1>5 DEF Gateway!EndIncomplete, Gateway!Holds, Gateway!Active
  <2>2. Fine
    BY <1>1, <2>1 DEF Gateway!Heard
  <2>3. QED
    BY <2>2
<1>6. CASE \/ Gateway!MalformedMessage(Node, m) \/ Gateway!OpenBadSize(Node, m)
           \/ Gateway!OpenCompleted(Node, m) \/ Gateway!OpenBusy(Node, m)
           \/ Gateway!DataStray(Node, m) \/ Gateway!EndStray(Node, m)
  BY <1>6 DEF Gateway!MalformedMessage, Gateway!OpenBadSize,
    Gateway!OpenCompleted, Gateway!OpenBusy, Gateway!DataStray, Gateway!EndStray
<1>7. CASE \/ Gateway!OpenConflict(Node, m) \/ Gateway!DataBadIndex(Node, m)
           \/ Gateway!DataBadLength(Node, m) \/ Gateway!DataConflict(Node, m)
           \/ Gateway!EndBadImage(Node, m) \/ Gateway!EndComplete(Node, m)
  BY <1>7 DEF Gateway!OpenConflict, Gateway!DataBadIndex, Gateway!DataBadLength,
    Gateway!DataConflict, Gateway!EndBadImage, Gateway!EndComplete,
    Gateway!DropSession
<1>8. QED
  BY <1>2, <1>3, <1>4, <1>5, <1>6, <1>7 DEF Gateway!Receive,
    Gateway!ReceiveOpen, Gateway!ReceiveData, Gateway!ReceiveEnd

\* No message but a completing END adds to the ring or publishes anything.
LEMMA RingAfter ==
  ASSUME NEW m, Gateway!Receive(Node, m), ~Gateway!EndComplete(Node, m)
  PROVE  /\ publication' = publication
         /\ \A i \in Gateway!Slot : cache'[i] # NoEntry =>
              cache[i] # NoEntry /\ cache'[i] = cache[i]
<1>1. CASE cache' = Gateway!ExpireCache /\ publication' = publication
  BY <1>1, ExpireKeeps
<1>2. CASE Gateway!FreshOpen(Node, m)
  <2>1. cache' = Gateway!CacheAfterOpen(Node, m) /\ publication' = publication
    BY <1>2 DEF Gateway!FreshOpen, Gateway!NotCompleted
  <2>2. ASSUME NEW i \in Gateway!Slot, cache'[i] # NoEntry
        PROVE  cache'[i] = Gateway!ExpireCache[i]
    BY <2>1, <2>2 DEF Gateway!CacheAfterOpen, Gateway!ExpireCache
  <2>3. QED
    BY <2>1, <2>2, ExpireKeeps
<1>3. \/ Gateway!FreshOpen(Node, m)
      \/ cache' = Gateway!ExpireCache /\ publication' = publication
  BY DEF Gateway!Receive, Gateway!MalformedMessage, Gateway!ReceiveOpen,
    Gateway!ReceiveData, Gateway!ReceiveEnd, Gateway!OpenBadSize,
    Gateway!OpenCompleted, Gateway!OpenBusy, Gateway!OpenAgain,
    Gateway!OpenConflict, Gateway!OpenSession, Gateway!DataStray,
    Gateway!DataBadIndex, Gateway!DataBadLength, Gateway!DataConflict,
    Gateway!DataStore, Gateway!Data, Gateway!EndStray, Gateway!EndIncomplete,
    Gateway!EndBadImage, Gateway!NotCompleted
<1>4. QED
  BY <1>1, <1>2, <1>3

\* Apart from a completing END's, a COMPLETE is about a remembered frame.
LEMMA ReplyAfter ==
  ASSUME GatewaySide, NEW m, Gateway!Receive(Node, m),
         ~Gateway!EndComplete(Node, m), NEW r \in reply', r.op = "COMPLETE"
  PROVE  FrameVerified(r.frame)
<1>1. CASE Gateway!OpenCompleted(Node, m)
  BY <1>1, HitVerified DEF Gateway!OpenCompleted, Gateway!KnownComplete,
    Gateway!FrameReply
<1>2. CASE Gateway!EndStray(Node, m)
  <2>1. r = Gateway!FrameReply(
              IF Gateway!CacheHits(Gateway!ExpireCache, Node, m.frame) # {}
              THEN "COMPLETE" ELSE "RESTART", Node, m.frame)
    BY <1>2 DEF Gateway!EndStray
  <2>2. /\ Gateway!CacheHits(Gateway!ExpireCache, Node, m.frame) # {}
        /\ r.frame = m.frame
    BY <2>1 DEF Gateway!FrameReply
  <2>3. QED
    BY <2>2, HitVerified
<1>3. CASE Gateway!EndIncomplete(Node, m)
  BY <1>3 DEF Gateway!EndIncomplete, Gateway!Nacks
<1>4. CASE \/ Gateway!MalformedMessage(Node, m) \/ Gateway!OpenBadSize(Node, m)
           \/ Gateway!OpenBusy(Node, m) \/ Gateway!OpenAgain(Node, m)
           \/ Gateway!OpenConflict(Node, m) \/ Gateway!OpenSession(Node, m)
  BY <1>4 DEF Gateway!MalformedMessage, Gateway!OpenBadSize, Gateway!OpenBusy,
    Gateway!OpenAgain, Gateway!OpenConflict, Gateway!OpenSession,
    Gateway!FrameReply, Gateway!Reject
<1>5. CASE Gateway!ReceiveData(Node, m) \/ Gateway!EndBadImage(Node, m)
  BY <1>5 DEF Gateway!ReceiveData, Gateway!DataStray, Gateway!DataBadIndex,
    Gateway!DataBadLength, Gateway!DataConflict, Gateway!DataStore,
    Gateway!EndBadImage, Gateway!DropSession, Gateway!FrameReply, Gateway!Reject
<1>6. QED
  BY <1>1, <1>2, <1>3, <1>4, <1>5 DEF Gateway!Receive, Gateway!ReceiveOpen,
    Gateway!ReceiveEnd

\* A completing END verifies the image in the slot and remembers it.
LEMMA CompletionRight ==
  ASSUME GatewaySide, UsedOnce, accepted' = accepted, NEW m,
         Gateway!EndComplete(Node, m),
         verified' = verified \cup {JobItem(session)}
  PROVE  GatewaySide'
<1>1. /\ session # NoSession /\ session' = NoSession
      /\ cache' = Gateway!StoreCache(Gateway!ExpireCache)
  BY DEF Gateway!EndComplete, Gateway!Holds, Gateway!Active
<1>2. /\ session \in [src : {Node}, frame : 1 .. LastFrame, desc : Image,
                      rxEstimate : Gateway!Estimate, have : {session.have},
                      silence : {session.silence}]
      /\ JobItem(session) \in accepted
  BY <1>1 DEF GatewaySide, GatewayShape, GatewayRight
<1> DEFINE new == [src |-> session.src, frame |-> session.frame,
                   desc |-> session.desc, ttl |-> CacheTime]
<1>3. ASSUME NEW i \in Gateway!Slot, cache'[i] # NoEntry
      PROVE  /\ cache'[i] \in [src : {Node}, frame : 1 .. LastFrame,
                               desc : Image, ttl : {cache'[i].ttl}]
             /\ JobItem(cache'[i]) \in verified'
  <2>1. \/ cache'[i] = new
        \/ cache'[i] = Gateway!ExpireCache[i]
    BY <1>1 DEF Gateway!StoreCache, Gateway!ExpireCache
  <2>2. CASE cache'[i] = new
    <3>1. new \in [src : {Node}, frame : 1 .. LastFrame, desc : Image,
                   ttl : {new.ttl}]
      BY <1>2
    <3>2. JobItem(new) = JobItem(session)
      BY DEF JobItem
    <3>3. QED
      BY <2>2, <3>1, <3>2
  <2>3. CASE cache'[i] = Gateway!ExpireCache[i]
    <3>1. cache[i] # NoEntry /\ cache'[i] = cache[i]
      BY <1>3, <2>3, ExpireKeeps
    <3>2. QED
      BY <3>1 DEF GatewaySide, GatewayShape, GatewayRight
  <2>4. QED
    BY <2>1, <2>2, <2>3
<1>4. GatewayShape'
  BY <1>1, <1>3 DEF GatewayShape, Gateway!Slot
<1>5. GatewayRight'
  BY <1>1, <1>2, <1>3 DEF GatewaySide, GatewayRight, Gateway!Slot, JobItem
<1>6. QED
  BY <1>4, <1>5 DEF GatewaySide

LEMMA GatewayUntouched ==
  ASSUME GatewaySide, UNCHANGED <<session, cache>>,
         accepted \subseteq accepted', verified' = verified
  PROVE  GatewaySide'
<1>1. GatewayShape'
  BY DEF GatewaySide, GatewayShape, Gateway!Slot
<1>2. GatewayRight'
  BY DEF GatewaySide, GatewayRight, Gateway!Slot, JobItem
<1>3. QED
  BY <1>1, <1>2 DEF GatewaySide

-----------------------------------------------------------------------------
(* Every step keeps the invariant and is one of the promise's, or none *)

Promised == [Promise!Next]_(Promise!vars)

\* A step that the promise does not see.
LEMMA Unseen ==
  ASSUME UNCHANGED <<accepted, verified, acked>>, Owed' = Owed
  PROVE  Promised
BY DEF Promised, Promise!vars

LEMMA OwedUntouched ==
  ASSUME UNCHANGED <<queue, job>>
  PROVE  Owed' = Owed
BY DEF Owed

LEMMA UsedOnceKept ==
  ASSUME UsedOnce, UNCHANGED <<accepted, nextFrame>>
  PROVE  UsedOnce'
BY DEF UsedOnce

\* What is under way stays right when nothing but right messages are added.
LEMMA MessagesKept ==
  ASSUME MessagesRight, accepted \subseteq accepted', verified \subseteq verified',
         \A m \in toGateway' : m \in toGateway \/
           (m.op = "OPEN" =>
              ItemOf(m.frame, Gateway!OpenDescriptor(m)) \in accepted'),
         \A r \in toSource' : r \in toSource \/
           (r.op = "COMPLETE" => \E i \in verified' : i.frame = r.frame)
  PROVE  MessagesRight'
<1>1. ASSUME NEW m \in toGateway', m.op = "OPEN"
      PROVE  ItemOf(m.frame, Gateway!OpenDescriptor(m)) \in accepted'
  BY <1>1 DEF MessagesRight
<1>2. ASSUME NEW r \in toSource', r.op = "COMPLETE"
      PROVE  \E i \in verified' : i.frame = r.frame
  BY <1>2 DEF MessagesRight, FrameVerified
<1>3. QED
  BY <1>1, <1>2 DEF MessagesRight, FrameVerified, ItemOf, Gateway!OpenDescriptor

LEMMA SubmitKeeps ==
  ASSUME TransferInv, NEW d \in Image, Submit(d)
  PROVE  TransferInv' /\ Promised
<1>1. UsedOnce /\ SourceRight /\ GatewaySide /\ GatewayRight /\ MessagesRight
  BY DEF TransferInv, SourceRight, GatewaySide
<1>2. /\ UNCHANGED <<session, cache, toGateway, toSource, verified, acked>>
      /\ accepted' = accepted \cup {ItemOf(nextFrame, d)}
  BY DEF Submit, gatewayVars, network
<1>3. /\ UsedOnce' /\ SourceRight'
      /\ ItemOf(nextFrame, d) \in Item
      /\ ItemOf(nextFrame, d) \notin accepted
      /\ Owed' = Owed \cup {ItemOf(nextFrame, d)}
  BY <1>1, SubmitRight
<1>4. GatewaySide' /\ MessagesRight'
  BY <1>1, <1>2, GatewayUntouched, MessagesKept
<1>5. Promise!Accept(ItemOf(nextFrame, d))
  BY <1>2, <1>3 DEF Promise!Accept
<1>6. Promised
  BY <1>3, <1>5 DEF Promised, Promise!Next, Item
<1>7. QED
  BY <1>3, <1>4, <1>6 DEF TransferInv, SourceRight, GatewaySide

\* The source's steps but for its reports, restarts and submissions.
LEMMA SourceKeeps ==
  ASSUME TransferInv, UNCHANGED <<session, cache, accepted, verified, acked>>,
         SourceRight', UNCHANGED nextFrame, Owed' = Owed, MessagesRight'
  PROVE  TransferInv' /\ Promised
<1>1. UsedOnce /\ GatewaySide
  BY DEF TransferInv, GatewaySide
<1>2. UsedOnce' /\ GatewaySide' /\ Promised
  BY <1>1, UsedOnceKept, GatewayUntouched, Unseen
<1>3. QED
  BY <1>2 DEF TransferInv, SourceRight, GatewaySide

LEMMA SendKeeps ==
  ASSUME TransferInv, SourceSends \/ SourceFaults
  PROVE  TransferInv' /\ Promised
<1>1. UsedOnce /\ SourceRight /\ MessagesRight
  BY DEF TransferInv, SourceRight
<1>2. /\ UNCHANGED <<session, cache, accepted, verified, acked, toSource>>
      /\ C6!SendDone \/ C6!SendFault \/ C6!SendRefused
      /\ toGateway' \in {toGateway, toGateway \cup {C6!Outgoing}}
  BY DEF SourceSends, SourceFaults, gatewayVars, history
<1>3. SourceRight' /\ UNCHANGED <<queue, job, nextFrame>>
  BY <1>1, <1>2, WorkerKeepsJobs
<1>4. Owed' = Owed
  BY <1>3, OwedUntouched
<1>5. C6!Sending
  BY <1>2 DEF C6!SendDone, C6!SendFault, C6!SendRefused
<1>6. MessagesRight'
  BY <1>1, <1>2, <1>5, OutgoingOpen, MessagesKept
<1>7. QED
  BY <1>2, <1>3, <1>4, <1>6, SourceKeeps

LEMMA WorkKeeps ==
  ASSUME TransferInv,
         \/ SourceTimesOut \/ SourceWorks \/ CallbackReturns \/ SourceTroubled
  PROVE  TransferInv' /\ Promised
<1>1. SourceRight /\ MessagesRight
  BY DEF TransferInv, SourceRight
<1>2. UNCHANGED <<session, cache, accepted, verified, acked, toSource, toGateway>>
  BY DEF SourceTimesOut, SourceWorks, CallbackReturns, SourceTroubled,
    gatewayVars, history, network
<1>3. MessagesRight'
  BY <1>1, <1>2, MessagesKept
<1>4. CASE C6!Take
  <2>1. SourceRight' /\ Owed' = Owed /\ UNCHANGED nextFrame
    BY <1>1, <1>2, <1>4, TakeRight
  <2>2. QED
    BY <1>2, <1>3, <2>1, SourceKeeps
<1>5. CASE ~C6!Take
  <2>1. SourceRight' /\ UNCHANGED <<queue, job, nextFrame>>
    BY <1>1, <1>2, <1>5, WorkerKeepsJobs DEF SourceTimesOut, SourceWorks,
      CallbackReturns, SourceTroubled
  <2>2. QED
    BY <1>2, <1>3, <2>1, OwedUntouched, SourceKeeps
<1>6. QED
  BY <1>4, <1>5

LEMMA HearKeeps ==
  ASSUME TransferInv, NEW r \in toSource, SourceHears(r)
  PROVE  TransferInv' /\ Promised
<1>1. /\ UsedOnce /\ GatewayRight /\ SourceRight /\ MessagesRight
      /\ r.op = "COMPLETE" => FrameVerified(r.frame)
  BY DEF TransferInv, SourceRight, MessagesRight
<1>2. /\ UNCHANGED <<session, cache, accepted, verified, acked, toGateway>>
      /\ C6!RespondImage(r) /\ toSource' = toSource \ {r}
  BY DEF SourceHears, gatewayVars, history
<1>3. SourceRight' /\ UNCHANGED <<queue, job, nextFrame>>
  BY <1>1, <1>2, ResponseRight
<1>4. MessagesRight'
  BY <1>1, <1>2, MessagesKept
<1>5. QED
  BY <1>2, <1>3, <1>4, OwedUntouched, SourceKeeps

LEMMA ReportKeeps ==
  ASSUME TransferInv, SourceReports
  PROVE  TransferInv' /\ Promised
<1>1. UsedOnce /\ SourceRight /\ GatewaySide /\ MessagesRight
  BY DEF TransferInv, SourceRight, GatewaySide
<1>2. /\ UNCHANGED <<session, cache, accepted, verified, toGateway, toSource>>
      /\ C6!Report
      /\ acked' = IF status = "ok" THEN acked \cup {JobItem(job)} ELSE acked
  BY DEF SourceReports, gatewayVars, network, JobItem
<1>3. /\ SourceRight' /\ UNCHANGED nextFrame
      /\ JobItem(job) \in Item /\ JobItem(job) \in Owed
      /\ Owed' = Owed \ {JobItem(job)}
      /\ status = "ok" => JobItem(job) \in verified
  BY <1>1, <1>2, ReportRight
<1>4. UsedOnce' /\ GatewaySide' /\ MessagesRight'
  BY <1>1, <1>2, <1>3, UsedOnceKept, GatewayUntouched, MessagesKept
<1>5. Promise!Acknowledge(JobItem(job)) \/ Promise!GiveUp(JobItem(job))
  BY <1>2, <1>3 DEF Promise!Acknowledge, Promise!GiveUp
<1>6. Promised
  BY <1>3, <1>5 DEF Promised, Promise!Next, Item
<1>7. QED
  BY <1>3, <1>4, <1>6 DEF TransferInv, SourceRight, GatewaySide

LEMMA RestartKeeps ==
  ASSUME TransferInv, SourceRestarts
  PROVE  TransferInv' /\ Promised
<1>1. UsedOnce /\ GatewaySide /\ MessagesRight
  BY DEF TransferInv, GatewaySide
<1>2. PICK seed \in nextFrame .. LastFrame : C6!Restart(seed)
  BY DEF SourceRestarts
<1>3. UNCHANGED <<session, cache, accepted, verified, acked, toGateway, toSource>>
  BY DEF SourceRestarts, gatewayVars, network, history
<1>4. SourceRight' /\ Owed' = {} /\ nextFrame' = seed
  BY <1>2, RestartRight
<1>5. UsedOnce'
  <2>1. nextFrame' \in 1 .. LastFrame
    BY <1>1, <1>4, TransferAssumption DEF UsedOnce
  <2>2. \A i \in accepted : i.frame < nextFrame'
    BY <1>1, <1>4, TransferAssumption DEF UsedOnce, Item
  <2>3. QED
    BY <1>1, <1>3, <2>1, <2>2 DEF UsedOnce
<1>6. GatewaySide' /\ MessagesRight'
  BY <1>1, <1>3, GatewayUntouched, MessagesKept
<1>7. Promised
  BY <1>3, <1>4 DEF Promised, Promise!Next, Promise!Restart
<1>8. QED
  BY <1>4, <1>5, <1>6, <1>7 DEF TransferInv, SourceRight, GatewaySide

LEMMA SourceUntouched ==
  ASSUME SourceRight, UNCHANGED sourceVars,
         accepted \subseteq accepted', verified \subseteq verified'
  PROVE  SourceRight' /\ Owed' = Owed /\ UNCHANGED nextFrame
<1>1. UNCHANGED <<queue, job, nextFrame, pc, phase, outstanding, active,
                  response, status>>
  BY DEF sourceVars
<1>2. JobsAccepted' /\ Places' /\ VerdictRight'
  BY <1>1 DEF SourceRight, JobsAccepted, Places, VerdictRight, JobItem
<1>3. QED
  BY <1>1, <1>2, OwedUntouched DEF SourceRight

LEMMA GatewayHearsKeeps ==
  ASSUME TransferInv, NEW m \in toGateway, GatewayHears(m)
  PROVE  TransferInv' /\ Promised
<1>1. /\ UsedOnce /\ SourceRight /\ GatewaySide /\ MessagesRight
      /\ verified \subseteq accepted
      /\ m.op = "OPEN" => ItemOf(m.frame, Gateway!OpenDescriptor(m)) \in accepted
  BY DEF TransferInv, SourceRight, GatewaySide, GatewayRight, MessagesRight
<1>2. /\ UNCHANGED <<sourceVars, accepted, acked>>
      /\ publication = NoPublication
      /\ toGateway' \subseteq toGateway /\ toSource' = toSource \cup reply'
      /\ verified' = IF publication' # NoPublication
                     THEN verified \cup {JobItem(publication)'} ELSE verified
  BY DEF GatewayHears, Gateway!Receive, Gateway!ReceiveWhileReserved,
    Gateway!CallbackTaskIdle, Answers, JobItem
<1>3. verified \subseteq verified'
  BY <1>2
<1>4. SourceRight' /\ Owed' = Owed /\ UNCHANGED nextFrame
  BY <1>1, <1>2, <1>3, SourceUntouched
<1>5. UsedOnce'
  BY <1>1, <1>2, <1>4, UsedOnceKept
<1>6. CASE Gateway!Receive(Node, m) /\ Gateway!EndComplete(Node, m)
  <2>1. /\ publication' # NoPublication
        /\ JobItem(publication)' = JobItem(session)
        /\ JobItem(session) \in accepted
        /\ reply' = {Gateway!FrameReply("COMPLETE", Node, session.frame)}
    BY <1>1, <1>6, CompletionAccepted
  <2>2. verified' = verified \cup {JobItem(session)}
    BY <1>2, <2>1
  <2>3. GatewaySide'
    BY <1>1, <1>2, <1>6, <2>2, CompletionRight
  <2>4. ASSUME NEW r \in reply' PROVE \E i \in verified' : i.frame = r.frame
    <3>1. r.frame = session.frame /\ JobItem(session).frame = session.frame
      BY <2>1, <2>4 DEF Gateway!FrameReply, JobItem, ItemOf
    <3>2. QED
      BY <2>2, <3>1
  <2>5. MessagesRight'
    BY <1>1, <1>2, <1>3, <2>4, MessagesKept
  <2>6. Promise!Verify(JobItem(session))
    BY <1>2, <1>4, <2>1, <2>2 DEF Promise!Verify
  <2>7. JobItem(session) \in Item
    BY <1>1, <2>1 DEF UsedOnce
  <2>8. Promised
    BY <2>6, <2>7 DEF Promised, Promise!Next, Item
  <2>9. QED
    BY <1>4, <1>5, <2>3, <2>5, <2>8 DEF TransferInv, SourceRight, GatewaySide
<1>7. CASE Gateway!Receive(Node, m) /\ ~Gateway!EndComplete(Node, m)
  <2>1. /\ publication' = publication
        /\ \A i \in Gateway!Slot : cache'[i] # NoEntry =>
             cache[i] # NoEntry /\ cache'[i] = cache[i]
    BY <1>7, RingAfter
  <2>2. verified' = verified
    BY <1>2, <2>1
  <2>3. GatewaySide'
    BY <1>1, <1>2, <1>7, <2>1, <2>2, SessionAfter, RingKept, SessionKept
  <2>4. \A r \in reply' : r.op = "COMPLETE" =>
          \E i \in verified' : i.frame = r.frame
    BY <1>1, <1>7, <2>2, ReplyAfter DEF FrameVerified
  <2>5. MessagesRight'
    BY <1>1, <1>2, <1>3, <2>4, MessagesKept
  <2>6. Promised
    BY <1>2, <1>4, <2>2, Unseen
  <2>7. QED
    BY <1>4, <1>5, <2>3, <2>5, <2>6 DEF TransferInv, SourceRight, GatewaySide
<1>8. CASE Gateway!ReceiveWhileReserved(Node, m)
  <2>1. /\ UNCHANGED <<session, cache, publication>>
        /\ \A r \in reply' : r.op # "COMPLETE"
    BY <1>8 DEF Gateway!ReceiveWhileReserved, Gateway!FrameReply
  <2>2. verified' = verified
    BY <1>2, <2>1
  <2>3. GatewaySide' /\ MessagesRight'
    BY <1>1, <1>2, <1>3, <2>1, <2>2, GatewayUntouched, MessagesKept
  <2>4. Promised
    BY <1>2, <1>4, <2>2, Unseen
  <2>5. QED
    BY <1>4, <1>5, <2>3, <2>4 DEF TransferInv, SourceRight, GatewaySide
<1>9. QED
  BY <1>6, <1>7, <1>8 DEF GatewayHears

\* The gateway's other tasks, losses and its restarts: nothing is added to the
\* slot, the ring or the messages but what says no COMPLETE.
LEMMA GatewayWorksKeeps ==
  ASSUME TransferInv, GatewayWorks \/ Harm
  PROVE  TransferInv' /\ Promised
<1>1. UsedOnce /\ SourceRight /\ GatewaySide /\ MessagesRight
  BY DEF TransferInv, SourceRight, GatewaySide
<1>2. /\ UNCHANGED <<sourceVars, accepted, verified, acked>>
      /\ toGateway' \subseteq toGateway
      /\ toSource' \subseteq toSource \cup reply' \/ toSource' \subseteq toSource
  BY DEF GatewayWorks, Harm, Lose, GatewayRestarts, Answers, history
<1>3. SourceRight' /\ Owed' = Owed /\ UNCHANGED nextFrame
  BY <1>1, <1>2, SourceUntouched
<1>4. UsedOnce' /\ Promised
  BY <1>1, <1>2, <1>3, UsedOnceKept, Unseen
<1>5. \/ UNCHANGED <<session, cache>>
      \/ Gateway!PollTimeout \/ Gateway!Tick \/ Gateway!Reboot
  BY DEF GatewayWorks, Harm, Lose, GatewayRestarts, gatewayVars,
    Gateway!Publish, Gateway!TryBeginIdleWork, Gateway!EndIdleWork
<1>6. GatewaySide'
  <2>1. CASE UNCHANGED <<session, cache>>
    BY <1>1, <1>2, <2>1, GatewayUntouched
  <2>2. CASE Gateway!PollTimeout
    <3>1. cache' = Gateway!ExpireCache
          /\ (session' = session \/ session' = NoSession)
      BY <2>2 DEF Gateway!PollTimeout
    <3>2. QED
      BY <1>1, <1>2, <3>1, ExpireKeeps, RingKept
  <2>3. CASE Gateway!Reboot
    <3>1. session' = NoSession /\ cache' = [i \in Gateway!Slot |-> NoEntry]
      BY <2>3 DEF Gateway!Reboot
    <3>2. QED
      BY <1>1, <1>2, <3>1, RingKept
  <2>4. CASE Gateway!Tick
    <3>1. ASSUME NEW i \in Gateway!Slot, cache'[i] # NoEntry
          PROVE  /\ cache'[i] \in [src : {Node}, frame : 1 .. LastFrame,
                                   desc : Image, ttl : {cache'[i].ttl}]
                 /\ JobItem(cache'[i]) \in verified'
      <4>1. \/ cache'[i] = cache[i]
            \/ cache[i] # NoEntry
               /\ cache'[i] = [cache[i] EXCEPT !.ttl = @ - 1]
        BY <2>4 DEF Gateway!Tick
      <4>2. cache[i] # NoEntry
        BY <3>1, <4>1
      <4>3. /\ cache[i] \in [src : {Node}, frame : 1 .. LastFrame,
                             desc : Image, ttl : {cache[i].ttl}]
            /\ JobItem(cache[i]) \in verified
        BY <1>1, <4>2 DEF GatewaySide, GatewayShape, GatewayRight
      <4>4. QED
        BY <1>2, <4>1, <4>3 DEF JobItem
    <3>2. ASSUME session' # NoSession
          PROVE  /\ session' \in [src : {Node}, frame : 1 .. LastFrame,
                                  desc : Image, rxEstimate : Gateway!Estimate,
                                  have : {session'.have},
                                  silence : {session'.silence}]
                 /\ JobItem(session)' \in accepted'
      <4>1. /\ session # NoSession
            /\ session' = [session EXCEPT !.silence =
                             Gateway!Older(@, FrameTimeout)]
        BY <2>4, <3>2 DEF Gateway!Tick, Gateway!Active
      <4>2. /\ session \in [src : {Node}, frame : 1 .. LastFrame,
                            desc : Image, rxEstimate : Gateway!Estimate,
                            have : {session.have}, silence : {session.silence}]
            /\ JobItem(session) \in accepted
        BY <1>1, <4>1 DEF GatewaySide, GatewayShape, GatewayRight
      <4>3. QED
        BY <1>2, <4>1, <4>2 DEF JobItem
    <3>3. GatewayShape'
      BY <3>1, <3>2 DEF GatewayShape, Gateway!Slot
    <3>4. GatewayRight'
      BY <1>1, <1>2, <3>1, <3>2 DEF GatewaySide, GatewayRight, Gateway!Slot,
        JobItem
    <3>5. QED
      BY <3>3, <3>4 DEF GatewaySide
  <2>5. QED
    BY <1>5, <2>1, <2>2, <2>3, <2>4
<1>7. MessagesRight'
  <2>1. CASE Harm
    <3>1. toSource' \subseteq toSource
      BY <2>1 DEF Harm, Lose, GatewayRestarts
    <3>2. QED
      BY <1>1, <1>2, <3>1, MessagesKept
  <2>2. CASE GatewayWorks
    <3>1. \A r \in reply' : r.op # "COMPLETE"
      BY <2>2 DEF GatewayWorks, Gateway!Publish, Gateway!PollTimeout,
        Gateway!Tick, Gateway!TryBeginIdleWork, Gateway!EndIdleWork,
        Gateway!Reject
    <3>2. QED
      BY <1>1, <1>2, <3>1, MessagesKept
  <2>3. QED
    BY <2>1, <2>2
<1>8. QED
  BY <1>3, <1>4, <1>6, <1>7 DEF TransferInv, SourceRight, GatewaySide

-----------------------------------------------------------------------------
(* The theorem *)

LEMMA InitRight == Init => TransferInv /\ Promise!Init
<1> SUFFICES ASSUME Init PROVE TransferInv /\ Promise!Init
  OBVIOUS
<1>1. UsedOnce
  BY TransferAssumption DEF Init, UsedOnce
<1>2. JobsAccepted /\ Places /\ VerdictRight
  BY DEF Init, C6!Init, JobsAccepted, Places, VerdictRight
<1>3. GatewayShape /\ GatewayRight
  BY DEF Init, Gateway!Init, GatewayShape, GatewayRight
<1>4. MessagesRight
  BY DEF Init, MessagesRight
<1>5. Owed = {}
  BY DEF Init, C6!Init, Owed
<1>6. Promise!Init
  BY <1>5 DEF Init, Promise!Init
<1>7. QED
  BY <1>1, <1>2, <1>3, <1>4, <1>6 DEF TransferInv

LEMMA StepRight == TransferInv /\ [Next]_vars => TransferInv' /\ Promised
<1>1. ASSUME TransferInv, Next PROVE TransferInv' /\ Promised
  <2>1. CASE \E d \in Image : Submit(d)
    BY <1>1, <2>1, SubmitKeeps
  <2>2. CASE SourceSends \/ SourceFaults
    BY <1>1, <2>2, SendKeeps
  <2>3. CASE SourceTimesOut \/ SourceWorks \/ CallbackReturns \/ SourceTroubled
    BY <1>1, <2>3, WorkKeeps
  <2>4. CASE SourceReports
    BY <1>1, <2>4, ReportKeeps
  <2>5. CASE SourceRestarts
    BY <1>1, <2>5, RestartKeeps
  <2>6. CASE \E r \in toSource : SourceHears(r)
    BY <1>1, <2>6, HearKeeps
  <2>7. CASE \E m \in toGateway : GatewayHears(m)
    BY <1>1, <2>7, GatewayHearsKeeps
  <2>8. CASE GatewayWorks \/ Harm
    BY <1>1, <2>8, GatewayWorksKeeps
  <2>9. QED
    BY <1>1, <2>1, <2>2, <2>3, <2>4, <2>5, <2>6, <2>7, <2>8 DEF Next, SourceSteps
<1>2. ASSUME TransferInv, UNCHANGED vars PROVE TransferInv' /\ Promised
  <2>1. /\ SourceRight /\ MessagesRight
        /\ UNCHANGED <<session, cache, sourceVars, accepted, verified, acked,
                       toGateway, toSource>>
    BY <1>2 DEF vars, gatewayVars, history, network, TransferInv, SourceRight
  <2>2. SourceRight' /\ UNCHANGED nextFrame /\ Owed' = Owed
    BY <2>1, SourceUntouched
  <2>3. MessagesRight'
    BY <2>1, MessagesKept
  <2>4. QED
    BY <1>2, <2>1, <2>2, <2>3, SourceKeeps
<1>3. QED
  BY <1>1, <1>2

\* The two ends and the network implement ImageDelivery, step by step: an image
\* is reported as acknowledged only if the gateway verified that very image
\* under that frame ID, a verified image was accepted from the application
\* first, and every accepted one is owed a report until it has it or the C6
\* restarts -- whatever the network loses and reorders, whoever restarts or
\* times out, and however late an answer of an earlier frame arrives
\* (send_image, store_gateway_response, handle_open, handle_end).
THEOREM DeliveryIsKept == Spec => DeliveryKept
<1>1. Init => TransferInv /\ Promise!Init
  BY InitRight
<1>2. TransferInv /\ [Next]_vars => TransferInv' /\ [Promise!Next]_(Promise!vars)
  BY StepRight DEF Promised
<1>3. QED
  BY <1>1, <1>2, PTL DEF Spec, DeliveryKept, Promise!Spec
=============================================================================
