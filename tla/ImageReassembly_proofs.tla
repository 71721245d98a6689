------------------------ MODULE ImageReassembly_proofs ------------------------
(***************************************************************************)
(* Proofs about the gateway's reassembly slot, for every set of nodes,     *)
(* frame IDs and images and every size of the buffer and the cache.        *)
(***************************************************************************)
EXTENDS ImageReassembly, TLAPS

(* Arithmetic of the chunk count *)

\* Division by the chunk size is Euclidean.
LEMMA ChunkDivision ==
  ASSUME NEW n \in Nat
  PROVE  /\ n \div DataBytes \in Nat
         /\ DataBytes * (n \div DataBytes) <= n
         /\ n < DataBytes * (n \div DataBytes) + DataBytes
BY SizeAssumption

\* A longer image never has fewer chunks, so that every chunk of an accepted
\* image has its place in the buffer and its bit in received_bitmap.
LEMMA ChunksFit ==
  ASSUME NEW len \in 1 .. MaxBytes
  PROVE  Chunks(len) \subseteq ChunkIndex
<1> DEFINE a == len + DataBytes - 1
           b == MaxBytes + DataBytes - 1
<1>1. a \in Nat /\ b \in Nat /\ a <= b
  BY SizeAssumption
<1>2. /\ a \div DataBytes \in Nat
      /\ DataBytes * (a \div DataBytes) <= a
  BY <1>1, ChunkDivision
<1>3. /\ b \div DataBytes \in Nat
      /\ b < DataBytes * (b \div DataBytes) + DataBytes
  BY <1>1, ChunkDivision
<1> HIDE DEF a, b
<1>4. SUFFICES ASSUME b \div DataBytes < a \div DataBytes
               PROVE  FALSE
  BY <1>2, <1>3 DEF Chunks, ChunkIndex, TotalChunks, a, b
<1>5. DataBytes * (a \div DataBytes) >= DataBytes * (b \div DataBytes + 1)
  BY <1>2, <1>3, <1>4, SizeAssumption
<1>6. QED
  BY <1>1, <1>2, <1>3, <1>5, SizeAssumption

LEMMA TotalChunksBound ==
  ASSUME NEW len \in 1 .. MaxBytes
  PROVE  /\ TotalChunks(len) \in Nat
         /\ DataBytes * TotalChunks(len) <= len + DataBytes - 1
<1>1. len + DataBytes - 1 \in Nat
  BY SizeAssumption
<1>2. QED
  BY <1>1, ChunkDivision DEF TotalChunks

\* The base index of a NACK is a chunk of the buffer.
LEMMA NackBaseFits ==
  ASSUME NEW missing \in SUBSET ChunkIndex, NEW b \in NackBases(missing)
  PROVE  b \in ChunkIndex
<1>1. PICK k \in 0 .. ReplyMax - 1 :
        b = k * NackBits /\ missing \cap Window(k * NackBits) # {}
  BY DEF NackBases
<1>2. k \in Nat /\ b \in Nat
  BY <1>1, SizeAssumption
<1>3. PICK i \in missing : i \in b .. b + NackBits - 1
  BY <1>1 DEF Window
<1>4. i \in Nat /\ b <= i
  BY <1>2, <1>3, SizeAssumption
<1>5. TotalChunks(MaxBytes) \in Nat
  BY SizeAssumption, TotalChunksBound
<1>6. i < TotalChunks(MaxBytes)
  BY <1>3, <1>4, <1>5 DEF ChunkIndex, Chunks
<1>7. QED
  BY <1>2, <1>4, <1>5, <1>6 DEF ChunkIndex, Chunks

\* Every chunk lies in the window of one of the first ReplyMax bases.
LEMMA ChunkHasWindow ==
  ASSUME NEW i \in ChunkIndex
  PROVE  \E k \in 0 .. ReplyMax - 1 : i \in Window(k * NackBits)
<1>1. TotalChunks(MaxBytes) \in Nat /\ MaxBytes \in 1 .. MaxBytes
  BY SizeAssumption, TotalChunksBound
<1>2. i \in Nat /\ i + 1 <= TotalChunks(MaxBytes)
  BY <1>1 DEF ChunkIndex, Chunks
<1>3. DataBytes * (i + 1) <= MaxBytes + DataBytes - 1
  <2>1. DataBytes * (i + 1) <= DataBytes * TotalChunks(MaxBytes)
    BY <1>1, <1>2, SizeAssumption
  <2>2. QED
    BY <1>1, <1>2, <2>1, TotalChunksBound, SizeAssumption
<1>4. DataBytes * i < DataBytes * (ReplyMax * NackBits)
  BY <1>2, <1>3, SizeAssumption
<1>5. i < ReplyMax * NackBits
  BY <1>2, <1>4, SizeAssumption
<1> DEFINE k == i \div NackBits
<1>6. /\ k \in Nat
      /\ NackBits * k <= i
      /\ i < NackBits * k + NackBits
  BY <1>2, SizeAssumption
<1> HIDE DEF k
<1>7. k < ReplyMax
  <2>1. SUFFICES ASSUME ReplyMax <= k PROVE FALSE
    BY <1>6, SizeAssumption
  <2>2. ReplyMax * NackBits <= NackBits * k
    BY <1>6, <2>1, SizeAssumption
  <2>3. QED
    BY <1>2, <1>5, <1>6, <2>2, SizeAssumption
<1>8. k \in 0 .. ReplyMax - 1
  BY <1>6, <1>7, SizeAssumption
<1>9. i \in Window(k * NackBits)
  BY <1>2, <1>6, SizeAssumption DEF Window
<1>10. QED
  BY <1>8, <1>9

\* Together the NACKs ask for exactly the missing chunks: ReplyMax bitmaps
\* of NackBits suffice for an image of MaxBytes.
THEOREM NacksCoverMissing ==
  ASSUME NEW missing \in SUBSET ChunkIndex
  PROVE  UNION {Asked(r) : r \in Nacks(missing)} = missing
<1>1. ASSUME NEW r \in Nacks(missing), NEW i \in Asked(r)
      PROVE  i \in missing
  BY <1>1 DEF Nacks, Asked
<1>2. ASSUME NEW i \in missing
      PROVE  \E r \in Nacks(missing) : i \in Asked(r)
  <2>1. PICK k \in 0 .. ReplyMax - 1 : i \in Window(k * NackBits)
    BY ChunkHasWindow
  <2> DEFINE b == k * NackBits
             bits == {r \in 0 .. NackBits - 1 : b + r \in missing}
             nack == [op |-> "NACK", dst |-> session.src,
                      frame |-> session.frame, base |-> b, bits |-> bits]
  <2>2. b \in NackBases(missing)
    BY <2>1 DEF NackBases
  <2>3. nack \in Nacks(missing)
    BY <2>2 DEF Nacks
  <2>4. b \in Nat /\ i \in b .. b + NackBits - 1
    BY <2>1, SizeAssumption DEF Window
  <2>5. i - b \in 0 .. NackBits - 1 /\ i = b + (i - b)
    BY <2>4, SizeAssumption
  <2> HIDE DEF b
  <2>6. i \in Asked(nack)
    BY <2>5 DEF Asked
  <2>7. QED
    BY <2>3, <2>6
<1>3. QED
  BY <1>1, <1>2

\* What the handlers read of a message is there.
LEMMA MessageFields ==
  ASSUME NEW m \in Message
  PROVE  /\ m.frame \in FrameId
         /\ m.op = "OPEN" => /\ m.detected \in Detected
                             /\ m.len \in WireLen
                             /\ m.crc \in Crc
         /\ m.op = "DATA" => /\ m.index \in Nat
                             /\ m.data \in Payload
BY WireAssumption, ImageAssumption DEF Message

-----------------------------------------------------------------------------
(* Typing *)

LEMMA ExpireCacheType ==
  ASSUME cache \in [Slot -> Entry \cup {NoEntry}]
  PROVE  ExpireCache \in [Slot -> Entry \cup {NoEntry}]
BY DEF ExpireCache

LEMMA FirstSlot == 0 \in Slot
BY SizeAssumption DEF Slot

LEMMA InitType == Init => TypeOK
BY FirstSlot DEF Init, TypeOK

\* Hearing a source changes nothing else of its session.
LEMMA HeardType ==
  ASSUME session \in Session
  PROVE  /\ Heard \in Session
         /\ Heard.src = session.src /\ Heard.frame = session.frame
         /\ Heard.desc = session.desc /\ Heard.have = session.have
         /\ Heard.rxEstimate = session.rxEstimate
BY SizeAssumption DEF Heard, Session

\* An OPEN answered ACCEPT leaves a well-typed session.
LEMMA OpenDescriptorType ==
  ASSUME NEW m \in Message, m.op = "OPEN", m.len \in 1 .. MaxBytes
  PROVE  OpenDescriptor(m) \in Descriptor
BY MessageFields DEF OpenDescriptor, Descriptor

LEMMA FirstEstimateType ==
  ASSUME NEW old \in Estimate, NEW m, NEW sample \in Estimate
  PROVE  FirstEstimate(old, m, sample) \in Estimate
BY DEF FirstEstimate

\* Every handler of the callback task preserves the types.
LEMMA ReceiveType ==
  ASSUME TypeOK, NEW src \in Source, NEW m \in Message, Receive(src, m)
  PROVE  TypeOK'
<1> USE DEF TypeOK
<1> DEFINE Others == /\ nextCache' \in Slot
                     /\ idleReserved' \in BOOLEAN
                     /\ publication' \in Publication \cup {NoPublication}
                     /\ delivered' \subseteq Delivery
           Ring == cache' \in [Slot -> Entry \cup {NoEntry}]
           Buffer == jpeg' \in [ChunkIndex -> Payload \cup {Unwritten}]
           Sess == session' \in Session \cup {NoSession}
           Answer == reply' \subseteq Reply
<1>0. /\ m.frame \in FrameId
      /\ ExpireCache \in [Slot -> Entry \cup {NoEntry}]
  BY MessageFields, ExpireCacheType
<1>1. NotCompleted => Others
  BY DEF NotCompleted, Untouched
<1>2. \A reason \in Reason : {Reject(src, m.frame, reason)} \subseteq Reply
  BY <1>0 DEF Reject, Reply
<1>3. \A op \in {"ACCEPT", "BUSY", "COMPLETE", "RESTART"} :
        {FrameReply(op, src, m.frame)} \subseteq Reply
  BY <1>0 DEF FrameReply, Reply
<1>4. CASE MalformedMessage(src, m)
  BY <1>0, <1>1, <1>2, <1>4 DEF MalformedMessage, Reason
<1>5. CASE ReceiveOpen(src, m)
  <2>1. CASE OpenBadSize(src, m)
    BY <1>0, <1>1, <1>2, <2>1 DEF OpenBadSize, Reason
  <2>2. CASE OpenCompleted(src, m)
    BY <1>0, <1>1, <1>3, <2>2 DEF OpenCompleted
  <2>3. ASSUME FreshOpen(src, m)
        PROVE  Others /\ Ring /\ Buffer /\ OpenDescriptor(m) \in Descriptor
    <3>1. CacheAfterOpen(src, m) \in [Slot -> Entry \cup {NoEntry}]
      BY <1>0 DEF CacheAfterOpen
    <3>2. QED
      BY <1>1, <2>3, <3>1, OpenDescriptorType DEF FreshOpen
  <2>4. CASE OpenBusy(src, m)
    BY <1>3, <2>3, <2>4 DEF OpenBusy
  <2>5. CASE OpenAgain(src, m)
    <3>1. PICK sample \in Estimate :
            session' = [Heard EXCEPT !.rxEstimate =
                          FirstEstimate(@, m, sample)]
      BY <2>5 DEF OpenAgain
    <3>2. session \in Session
      BY <2>5 DEF OpenAgain, Holds, Active
    <3>3. Heard \in Session /\ Heard.rxEstimate \in Estimate
      BY <3>2, HeardType DEF Session
    <3>4. FirstEstimate(Heard.rxEstimate, m, sample) \in Estimate
      BY <3>3, FirstEstimateType
    <3>5. Sess
      BY <3>1, <3>3, <3>4 DEF Session
    <3>6. QED
      BY <1>3, <2>3, <2>5, <3>5 DEF OpenAgain
  <2>6. CASE OpenConflict(src, m)
    BY <1>2, <2>3, <2>6 DEF OpenConflict, Reason
  <2>7. CASE OpenSession(src, m)
    <3>1. PICK sample \in Estimate :
            session' = [src |-> src, frame |-> m.frame,
                        desc |-> OpenDescriptor(m),
                        rxEstimate |-> FirstEstimate(0, m, sample),
                        have |-> {}, silence |-> 0]
      BY <2>7 DEF OpenSession
    <3>2. FirstEstimate(0, m, sample) \in Estimate
      BY FirstEstimateType DEF Estimate
    <3>3. Sess
      BY <1>0, <2>3, <2>7, <3>1, <3>2, SizeAssumption
      DEF OpenSession, Session
    <3>4. QED
      BY <1>3, <2>3, <2>7, <3>3 DEF OpenSession
  <2>8. QED
    BY <1>5, <2>1, <2>2, <2>4, <2>5, <2>6, <2>7 DEF ReceiveOpen
<1>6. CASE ReceiveData(src, m)
  <2>1. ASSUME Data(m) PROVE Others /\ Ring
    BY <1>0, <1>1, <2>1 DEF Data
  <2>2. CASE DataStray(src, m)
    BY <1>3, <2>1, <2>2 DEF DataStray
  <2>3. CASE DataBadIndex(src, m)
    BY <1>2, <2>1, <2>3 DEF DataBadIndex, DropSession, Reason
  <2>4. CASE DataBadLength(src, m)
    BY <1>2, <2>1, <2>4 DEF DataBadLength, DropSession, Reason
  <2>5. CASE DataConflict(src, m)
    BY <1>2, <2>1, <2>5 DEF DataConflict, DropSession, Reason
  <2>6. CASE DataStore(src, m)
    <3>1. session \in Session
      BY <2>6 DEF DataStore, Holds, Active
    <3>2. m.index \in Nat /\ m.data \in Payload
      BY <2>6, MessageFields DEF DataStore, Data
    <3>3. session.desc.len \in 1 .. MaxBytes
      BY <3>1 DEF Session, Descriptor
    <3>4. TotalChunks(session.desc.len) \in Nat
      <4>1. session.desc.len + DataBytes - 1 \in Nat
        BY <3>3, SizeAssumption
      <4>2. QED
        BY <4>1, ChunkDivision DEF TotalChunks
    <3>5. m.index \in ChunkIndex
      <4>1. m.index \in Chunks(session.desc.len)
        BY <2>6, <3>2, <3>4 DEF DataStore, InRange, Chunks
      <4>2. QED
        BY <3>3, <4>1, ChunksFit
    <3>6. Sess
      <4>1. Heard \in Session /\ Heard.have \subseteq ChunkIndex
        BY <3>1, HeardType DEF Session
      <4>2. session' = [Heard EXCEPT !.have = @ \cup {m.index}]
        BY <2>6 DEF DataStore
      <4>3. QED
        BY <3>5, <4>1, <4>2 DEF Session
    <3>7. Buffer
      BY <2>6, <3>2, <3>5 DEF DataStore
    <3>8. Answer
      BY <2>6 DEF DataStore
    <3>9. QED
      BY <2>1, <2>6, <3>6, <3>7, <3>8 DEF DataStore
  <2>7. QED
    BY <1>6, <2>2, <2>3, <2>4, <2>5, <2>6 DEF ReceiveData
<1>7. CASE ReceiveEnd(src, m)
  <2>1. CASE EndStray(src, m)
    BY <1>0, <1>1, <1>3, <2>1 DEF EndStray
  <2>2. CASE EndIncomplete(src, m)
    <3>1. session \in Session
      BY <2>2 DEF EndIncomplete, Holds, Active
    <3>2. Missing \subseteq ChunkIndex
      BY <3>1, ChunksFit DEF Missing, Session, Descriptor
    <3>3. Nacks(Missing) \subseteq Reply
      <4>1. Missing \subseteq Chunks(session.desc.len)
        BY DEF Missing
      <4>2. SUFFICES ASSUME NEW b \in NackBases(Missing)
                     PROVE  b \in ChunkIndex
        BY <3>1 DEF Nacks, Reply, Session
      <4>3. QED
        BY <3>2, NackBaseFits
    <3>4. Sess
      BY <2>2, <3>1, HeardType DEF EndIncomplete
    <3>5. QED
      BY <1>0, <1>1, <2>2, <3>3, <3>4 DEF EndIncomplete
  <2>3. CASE EndBadImage(src, m)
    <3>1. Sess /\ Answer /\ Buffer
      BY <1>2, <2>3 DEF EndBadImage, DropSession, Reason
    <3>2. QED
      BY <1>0, <1>1, <2>3, <3>1 DEF EndBadImage
  <2>4. CASE EndComplete(src, m)
    <3>1. session \in Session
      BY <2>4 DEF EndComplete, Holds, Active
    <3>2. publication' \in Publication
      BY <2>4, <3>1 DEF EndComplete, Publication, Session
    <3>3. Ring
      <4>1. [src |-> session.src, frame |-> session.frame,
             desc |-> session.desc, ttl |-> CacheTime] \in Entry
        BY <3>1, SizeAssumption DEF Session, Entry
      <4>2. QED
        BY <1>0, <2>4, <4>1 DEF EndComplete, StoreCache
    <3>4. nextCache' \in Slot
      BY <2>4, SizeAssumption DEF EndComplete, NextSlot, Slot
    <3>5. QED
      BY <1>3, <2>4, <3>2, <3>3, <3>4 DEF EndComplete, Untouched
  <2>5. QED
    BY <1>7, <2>1, <2>2, <2>3, <2>4 DEF ReceiveEnd
<1>8. QED
  BY <1>4, <1>5, <1>6, <1>7 DEF Receive

LEMMA NextType == TypeOK /\ [Next]_vars => TypeOK'
<1> SUFFICES ASSUME TypeOK, [Next]_vars
             PROVE  TypeOK'
  OBVIOUS
<1>0. ExpireCache \in [Slot -> Entry \cup {NoEntry}]
  BY ExpireCacheType DEF TypeOK
<1>1. ASSUME NEW src \in Source, NEW m \in Message,
             ReceiveWhileReserved(src, m)
      PROVE  TypeOK'
  BY <1>1, MessageFields
  DEF TypeOK, ReceiveWhileReserved, FrameReply, Reply
<1>2. CASE Publish
  <2>1. publication \in Publication
    BY <1>2 DEF Publish, TypeOK
  <2>2. EventTime(publication) \in Nat
    BY <2>1, WireAssumption DEF EventTime, Publication, Descriptor, Estimate
  <2>3. TimeSourceOf(publication) \in TimeSource
    BY DEF TimeSourceOf, TimeSource
  <2>4. delivered' \subseteq Delivery
    BY <1>2, <2>1, <2>2, <2>3 DEF Publish, TypeOK, Delivery, Publication
  <2>5. QED
    BY <1>2, <2>4 DEF Publish, TypeOK
<1>3. CASE PollTimeout
  <2>1. CASE TimedOut
    <3>1. session \in Session
      BY <2>1 DEF TypeOK, TimedOut, Active
    <3>2. {Reject(session.src, session.frame, "TIMEOUT")} \subseteq Reply
      BY <3>1 DEF Reject, Reply, Reason, Session
    <3>3. QED
      BY <1>0, <1>3, <2>1, <3>2 DEF PollTimeout, TypeOK
  <2>2. CASE ~TimedOut
    BY <1>0, <1>3, <2>2 DEF PollTimeout, TypeOK
  <2>3. QED
    BY <2>1, <2>2
<1>4. CASE TryBeginIdleWork
  BY <1>4 DEF TryBeginIdleWork, TypeOK
<1>5. CASE EndIdleWork
  BY <1>5 DEF EndIdleWork, TypeOK
<1>6. CASE Tick
  <2>1. session' \in Session \cup {NoSession}
    <3>1. CASE Active
      <4>1. session \in Session
        BY <3>1 DEF Active, TypeOK
      <4>2. Older(session.silence, FrameTimeout) \in 0 .. FrameTimeout
        BY <4>1, SizeAssumption DEF Older, Session
      <4>3. QED
        BY <1>6, <3>1, <4>1, <4>2 DEF Tick, Session
    <3>2. QED
      BY <1>6, <3>1 DEF Tick
  <2>2. ASSUME NEW i \in Slot, cache[i] # NoEntry, cache[i].ttl > 0
        PROVE  [cache[i] EXCEPT !.ttl = @ - 1] \in Entry
    <3>1. cache[i] \in Entry
      BY <2>2 DEF TypeOK
    <3>2. cache[i].ttl - 1 \in 0 .. CacheTime
      BY <2>2, <3>1, SizeAssumption DEF Entry
    <3>3. QED
      BY <3>1, <3>2 DEF Entry
  <2>3. cache' \in [Slot -> Entry \cup {NoEntry}]
    BY <1>6, <2>2 DEF Tick, TypeOK
  <2>4. QED
    BY <1>6, <2>1, <2>3 DEF Tick, TypeOK
<1>7. CASE Reboot
  BY <1>7, FirstSlot DEF Reboot, TypeOK
<1>8. CASE UNCHANGED vars
  BY <1>8 DEF vars, TypeOK
<1>9. QED
  BY <1>1, <1>2, <1>3, <1>4, <1>5, <1>6, <1>7, <1>8, ReceiveType
  DEF Next, ReceiveSome, Local

\* The reassembly state, the cache, the pending publication, what was
\* delivered and every reply stay well-typed, so no chunk is ever stored or
\* requested outside the buffer.
THEOREM TypeCorrect == Spec => []TypeOK
BY InitType, NextType, PTL DEF Spec

-----------------------------------------------------------------------------
(* Safety *)

\* The mutex makes the idle-window test and its reservation one step: the
\* Wi-Fi radio is never taken while a node uploads an image, and no image is
\* accepted while it is taken.
THEOREM IdleWindowIsExclusive == Spec => []IdleWindowExclusive
<1>1. Init => IdleWindowExclusive
  BY DEF Init, IdleWindowExclusive
<1>2. IdleWindowExclusive /\ [Next]_vars => IdleWindowExclusive'
  <2> SUFFICES ASSUME IdleWindowExclusive, [Next]_vars
               PROVE  IdleWindowExclusive'
    OBVIOUS
  <2> USE DEF IdleWindowExclusive, Active
  <2>1. ASSUME NEW src \in Source, NEW m \in Message, Receive(src, m)
        PROVE  IdleWindowExclusive'
    <3>1. idleReserved' = idleReserved
      BY <2>1 DEF Receive, MalformedMessage, ReceiveOpen, OpenBadSize,
        OpenCompleted, OpenBusy, OpenAgain, OpenConflict, OpenSession,
        FreshOpen, ReceiveData, DataStray, DataBadIndex, DataBadLength,
        DataConflict, DataStore, Data, ReceiveEnd, EndStray, EndIncomplete,
        EndBadImage, EndComplete, NotCompleted, Untouched
    <3>2. QED
      BY <2>1, <3>1 DEF Receive
  <2>2. ASSUME NEW src \in Source, NEW m \in Message,
               ReceiveWhileReserved(src, m)
        PROVE  IdleWindowExclusive'
    BY <2>2 DEF ReceiveWhileReserved
  <2>3. CASE Local
    BY <2>3 DEF Local, Publish, PollTimeout, TryBeginIdleWork, EndIdleWork,
      Tick
  <2>4. CASE Reboot \/ UNCHANGED vars
    BY <2>4 DEF Reboot, vars
  <2> QED
    BY <2>1, <2>2, <2>3, <2>4 DEF Next, ReceiveSome
<1>3. QED
  BY <1>1, <1>2, PTL DEF Spec

\* From the check of the completed image to the end of its callback nothing
\* rewrites the buffer, although the callback runs outside the mutex.
THEOREM PendingImageStaysIntact == Spec => []PendingImageIntact
<1>1. Init => PendingImageIntact
  BY DEF Init, PendingImageIntact
<1>2. PendingImageIntact /\ [Next]_vars => PendingImageIntact'
  <2> SUFFICES ASSUME PendingImageIntact, [Next]_vars
               PROVE  PendingImageIntact'
    OBVIOUS
  <2>0. UNCHANGED <<publication, jpeg>> => PendingImageIntact'
    BY DEF PendingImageIntact
  <2>1. ASSUME NEW src \in Source, NEW m \in Message, Receive(src, m)
        PROVE  PendingImageIntact'
    <3>1. CASE EndComplete(src, m)
      BY <3>1 DEF EndComplete, CrcMatches, PendingImageIntact
    <3>2. CASE ~EndComplete(src, m)
      <4>1. publication' = NoPublication
        BY <2>1, <3>2 DEF Receive, CallbackTaskIdle, MalformedMessage,
          ReceiveOpen, OpenBadSize, OpenCompleted, OpenBusy, OpenAgain,
          OpenConflict, OpenSession, FreshOpen, ReceiveData, DataStray,
          DataBadIndex, DataBadLength, DataConflict, DataStore, Data,
          ReceiveEnd, EndStray, EndIncomplete, EndBadImage, NotCompleted
      <4>2. QED
        BY <4>1 DEF PendingImageIntact
    <3>3. QED
      BY <3>1, <3>2
  <2>2. ASSUME NEW src \in Source, NEW m \in Message,
               ReceiveWhileReserved(src, m)
        PROVE  PendingImageIntact'
    BY <2>0, <2>2 DEF ReceiveWhileReserved
  <2>3. CASE Publish
    BY <2>3 DEF Publish, PendingImageIntact
  <2>4. CASE PollTimeout \/ TryBeginIdleWork \/ EndIdleWork \/ Tick
    BY <2>0, <2>4 DEF PollTimeout, TryBeginIdleWork, EndIdleWork, Tick
  <2>5. CASE Reboot
    BY <2>5 DEF Reboot, PendingImageIntact
  <2>6. CASE UNCHANGED vars
    BY <2>0, <2>6 DEF vars
  <2>7. QED
    BY <2>1, <2>2, <2>3, <2>4, <2>5, <2>6 DEF Next, ReceiveSome, Local
<1>3. QED
  BY <1>1, <1>2, PTL DEF Spec

-----------------------------------------------------------------------------
(* The completion cache *)

\* What a step left of slot i, if anything, was there before it.
Kept(i) ==
  cache'[i] # NoEntry => /\ cache[i] # NoEntry
                         /\ cache'[i].src = cache[i].src
                         /\ cache'[i].frame = cache[i].frame

LEMMA ExpireCacheKeeps ==
  ASSUME NEW i \in Slot, ExpireCache[i] # NoEntry
  PROVE  cache[i] # NoEntry /\ ExpireCache[i] = cache[i]
BY DEF ExpireCache

\* FirstHit is a hit, and with unique keys the only one.
LEMMA FirstHitIsHit ==
  ASSUME TypeOK, KeyRememberedOnce, NEW src \in Source, NEW f \in FrameId,
         CacheHits(ExpireCache, src, f) # {}
  PROVE  /\ FirstHit(ExpireCache, src, f) \in Slot
         /\ \A i \in CacheHits(ExpireCache, src, f) :
              i = FirstHit(ExpireCache, src, f)
<1>1. PICK k \in CacheHits(ExpireCache, src, f) : TRUE
  OBVIOUS
<1>2. \A i \in CacheHits(ExpireCache, src, f) : i = k
  BY <1>1, ExpireCacheKeeps DEF CacheHits, KeyRememberedOnce
<1>3. k \in Int /\ k \in Slot
  BY <1>1, SizeAssumption DEF CacheHits, Slot
<1>4. \A j \in CacheHits(ExpireCache, src, f) : k <= j
  BY <1>2, <1>3
<1>5. FirstHit(ExpireCache, src, f) \in CacheHits(ExpireCache, src, f)
  BY <1>1, <1>4 DEF FirstHit
<1>6. QED
  BY <1>2, <1>5 DEF CacheHits

\* Only a completing END adds to the ring.
LEMMA RingStep ==
  ASSUME TypeOK, [Next]_vars,
         ~ \E src \in Source, m \in Message : EndComplete(src, m)
  PROVE  \A i \in Slot : Kept(i)
<1> SUFFICES ASSUME NEW i \in Slot PROVE Kept(i)
  OBVIOUS
<1>0. cache' = cache \/ cache' = ExpireCache => Kept(i)
  BY ExpireCacheKeeps DEF Kept
<1>1. ASSUME NEW src \in Source, NEW m \in Message, Receive(src, m)
      PROVE  Kept(i)
  <2>1. CASE FreshOpen(src, m)
    <3>1. cache' = CacheAfterOpen(src, m)
      BY <2>1 DEF FreshOpen
    <3>2. ExpireCache \in [Slot -> Entry \cup {NoEntry}]
      BY ExpireCacheType DEF TypeOK
    <3>3. CacheAfterOpen(src, m)[i] \in {ExpireCache[i], NoEntry}
      BY <3>2 DEF CacheAfterOpen
    <3>4. QED
      BY <3>1, <3>3, ExpireCacheKeeps DEF Kept
  <2>2. CASE ~FreshOpen(src, m)
    BY <1>0, <1>1, <2>2 DEF Receive, MalformedMessage, ReceiveOpen,
      OpenBadSize, OpenCompleted, OpenBusy, OpenAgain, OpenConflict,
      OpenSession, ReceiveData, DataStray, DataBadIndex, DataBadLength,
      DataConflict, DataStore, Data, ReceiveEnd, EndStray, EndIncomplete,
      EndBadImage
  <2>3. QED
    BY <2>1, <2>2
<1>2. ASSUME NEW src \in Source, NEW m \in Message,
             ReceiveWhileReserved(src, m)
      PROVE  Kept(i)
  BY <1>0, <1>2 DEF ReceiveWhileReserved
<1>3. CASE Publish \/ PollTimeout \/ TryBeginIdleWork \/ EndIdleWork
  BY <1>0, <1>3 DEF Publish, PollTimeout, TryBeginIdleWork, EndIdleWork
<1>4. CASE Tick
  <2>1. cache[i] \in Entry \cup {NoEntry}
    BY DEF TypeOK
  <2>2. CASE cache[i] # NoEntry /\ cache[i].ttl > 0
    <3>1. cache'[i] = [cache[i] EXCEPT !.ttl = @ - 1]
      BY <1>4, <2>2 DEF Tick
    <3>2. QED
      BY <2>1, <2>2, <3>1 DEF Kept, Entry
  <2>3. CASE ~(cache[i] # NoEntry /\ cache[i].ttl > 0)
    BY <1>4, <2>3 DEF Tick, Kept
  <2>4. QED
    BY <2>2, <2>3
<1>5. CASE Reboot
  BY <1>5 DEF Reboot, Kept
<1>6. CASE UNCHANGED vars
  BY <1>0, <1>6 DEF vars
<1>7. QED
  BY <1>1, <1>2, <1>3, <1>4, <1>5, <1>6 DEF Next, ReceiveSome, Local

\* What a completing END does to the ring.
LEMMA CompletionStored ==
  ASSUME TypeOK, NEW src \in Source, NEW m \in Message, EndComplete(src, m)
  PROVE  /\ session \in Session
         /\ cache'[nextCache].src = session.src
         /\ cache'[nextCache].frame = session.frame
         /\ \A i \in Slot \ {nextCache} : cache'[i] = ExpireCache[i]
<1>1. session \in Session
  BY DEF EndComplete, Holds, Active, TypeOK
<1>2. ExpireCache \in [Slot -> Entry \cup {NoEntry}]
  BY ExpireCacheType DEF TypeOK
<1>3. nextCache \in Slot
  BY DEF TypeOK
<1>4. QED
  BY <1>1, <1>2, <1>3 DEF EndComplete, StoreCache

\* A key that a step begins to hold was not remembered, or is forgotten.
LEMMA NewlyHeld ==
  ASSUME TypeOK, KeyRememberedOnce, [Next]_vars,
         NEW src \in Source, NEW f \in FrameId,
         Holds(src, f)', ~Holds(src, f)
  PROVE  CacheHits(cache', src, f) = {}
<1>1. session' \in Session /\ session'.src = src /\ session'.frame = f
  BY NextType DEF Holds, Active, TypeOK
<1>2. session' # NoSession /\ ~Holds(src, f)
  BY DEF Holds, Active
<1>3. ASSUME session \in Session, session'.src = session.src,
             session'.frame = session.frame
      PROVE  FALSE
  BY <1>1, <1>2, <1>3, SentinelAssumption DEF Holds, Active
<1>4. PICK s \in Source, m \in Message : OpenSession(s, m)
  <2>1. ASSUME NEW s \in Source, NEW m \in Message, Receive(s, m)
        PROVE  OpenSession(s, m)
    <3>1. session \in Session => session' # Heard
      BY <1>3, HeardType
    <3>2. ~OpenAgain(s, m)
      <4>1. SUFFICES ASSUME OpenAgain(s, m) PROVE FALSE
        OBVIOUS
      <4>2. PICK x : session' = [Heard EXCEPT !.rxEstimate = x]
        BY <4>1 DEF OpenAgain
      <4>3. session \in Session
        BY <4>1 DEF OpenAgain, Holds, Active, TypeOK
      <4>4. QED
        BY <1>3, <4>2, <4>3, HeardType DEF Session
    <3>3. ~DataStore(s, m)
      <4>1. SUFFICES ASSUME DataStore(s, m) PROVE FALSE
        OBVIOUS
      <4>2. PICK x : session' = [Heard EXCEPT !.have = x]
        BY <4>1 DEF DataStore
      <4>3. session \in Session
        BY <4>1 DEF DataStore, Holds, Active, TypeOK
      <4>4. QED
        BY <1>3, <4>2, <4>3, HeardType DEF Session
    <3>4. ~EndIncomplete(s, m)
      BY <3>1 DEF EndIncomplete, Holds, Active, TypeOK
    <3>5. session' # session
      BY <1>2 DEF Holds, Active
    <3>6. QED
      BY <1>2, <2>1, <3>2, <3>3, <3>4, <3>5 DEF Receive, MalformedMessage,
        ReceiveOpen, OpenBadSize, OpenCompleted, OpenBusy, OpenConflict,
        ReceiveData, DataStray, DataBadIndex, DataBadLength, DataConflict,
        DropSession, ReceiveEnd, EndStray, EndBadImage, EndComplete
  <2>2. session' # session
    BY <1>1, <1>2 DEF Holds, Active
  <2>3. ~Tick
    <3>1. SUFFICES ASSUME Tick PROVE FALSE
      OBVIOUS
    <3>2. PICK x : session' = [session EXCEPT !.silence = x]
      BY <1>2, <3>1 DEF Tick
    <3>3. session \in Session
      BY <1>2, <3>1 DEF Tick, Active, TypeOK
    <3>4. QED
      BY <1>3, <3>2, <3>3 DEF Session
  <2>4. QED
    BY <1>2, <2>1, <2>2, <2>3 DEF Next, ReceiveSome, Local, Publish,
      PollTimeout, TryBeginIdleWork, EndIdleWork, Reboot, vars,
      ReceiveWhileReserved
<1>5. s = src /\ m.frame = f
  BY <1>1, <1>4 DEF OpenSession
<1>6. cache' = CacheAfterOpen(src, m)
  BY <1>4, <1>5 DEF OpenSession, FreshOpen
<1>7. CASE CacheHits(ExpireCache, src, f) = {}
  BY <1>5, <1>6, <1>7 DEF CacheAfterOpen
<1>8. CASE CacheHits(ExpireCache, src, f) # {}
  <2> DEFINE k == FirstHit(ExpireCache, src, f)
  <2>1. k \in Slot /\ \A i \in CacheHits(ExpireCache, src, f) : i = k
    BY <1>8, FirstHitIsHit
  <2>2. cache' = [ExpireCache EXCEPT ![k] = NoEntry]
    BY <1>5, <1>6, <1>8 DEF CacheAfterOpen
  <2>3. ExpireCache \in [Slot -> Entry \cup {NoEntry}]
    BY ExpireCacheType DEF TypeOK
  <2> HIDE DEF k
  <2>4. QED
    BY <2>1, <2>2, <2>3 DEF CacheHits
<1>9. QED
  BY <1>7, <1>8

\* A completed frame is remembered once, and never while its key is being
\* reassembled again: find_cache's first match is its only match.
THEOREM KeyIsRememberedOnce == Spec => []KeyRememberedOnce
<1>1. Init => KeyRememberedOnce
  BY DEF Init, KeyRememberedOnce
<1>2. TypeOK /\ KeyRememberedOnce /\ [Next]_vars => KeyRememberedOnce'
  <2> SUFFICES ASSUME TypeOK, KeyRememberedOnce, [Next]_vars,
                      NEW i \in Slot, cache'[i] # NoEntry
               PROVE  /\ ~Holds(cache[i].src, cache[i].frame)'
                      /\ \A j \in Slot \ {i} : cache'[j] # NoEntry =>
                           \/ cache'[j].src # cache'[i].src
                           \/ cache'[j].frame # cache'[i].frame
    BY DEF KeyRememberedOnce
  <2>0. cache'[i] \in Entry
    BY NextType DEF TypeOK
  <2>1. CASE \E src \in Source, m \in Message : EndComplete(src, m)
    <3>1. PICK src \in Source, m \in Message : EndComplete(src, m)
      BY <2>1
    <3>2. session' = NoSession
      BY <3>1 DEF EndComplete
    <3>3. Holds(session.src, session.frame)
      BY <3>1 DEF EndComplete, Holds, Active
    <3>4. \A k \in Slot \ {nextCache} : cache'[k] # NoEntry =>
            \/ cache'[k].src # session.src
            \/ cache'[k].frame # session.frame
      BY <3>1, <3>3, CompletionStored, ExpireCacheKeeps
      DEF KeyRememberedOnce
    <3>5. QED
      BY <3>1, <3>2, <3>4, CompletionStored, ExpireCacheKeeps
      DEF KeyRememberedOnce, Holds, Active
  <2>2. CASE ~ \E src \in Source, m \in Message : EndComplete(src, m)
    <3>1. \A k \in Slot : Kept(k)
      BY <2>2, RingStep
    <3>2. ~Holds(cache'[i].src, cache'[i].frame)
      BY <3>1 DEF Kept, KeyRememberedOnce
    <3>3. ~Holds(cache[i].src, cache[i].frame)'
      <4>1. cache'[i].src \in Source /\ cache'[i].frame \in FrameId
        BY <2>0 DEF Entry
      <4>2. ASSUME NEW s \in Source, NEW f \in FrameId,
                   s = cache'[i].src, f = cache'[i].frame, Holds(s, f)'
            PROVE  FALSE
        BY <3>2, <4>2, NewlyHeld DEF CacheHits
      <4>3. QED
        BY <4>1, <4>2 DEF Holds, Active
    <3>4. QED
      BY <3>1, <3>3 DEF Kept, KeyRememberedOnce
  <2>3. QED
    BY <2>1, <2>2
<1>3. QED
  BY <1>1, <1>2, TypeCorrect, PTL DEF Spec

\* Distance and successor on the ring, without the remainder.
LEMMA RingDistance ==
  ASSUME NEW i \in Slot, NEW n \in Slot
  PROVE  (i - n + CacheEntries) % CacheEntries
           = IF i >= n THEN i - n ELSE i - n + CacheEntries
<1>1. /\ CacheEntries \in Nat \ {0}
      /\ i \in 0 .. CacheEntries - 1 /\ n \in 0 .. CacheEntries - 1
  BY SizeAssumption DEF Slot
<1>2. QED
  BY <1>1

LEMMA RingSuccessor ==
  ASSUME NEW n \in Slot
  PROVE  (n + 1) % CacheEntries = IF n = CacheEntries - 1 THEN 0 ELSE n + 1
<1>1. CacheEntries \in Nat \ {0} /\ n \in 0 .. CacheEntries - 1
  BY SizeAssumption DEF Slot
<1>2. QED
  BY <1>1

\* Storing a completion makes its slot the youngest and every other one
\* a step older.
LEMMA RingAgeStep ==
  ASSUME TypeOK, nextCache' = NextSlot, NEW i \in Slot
  PROVE  /\ RingAge(i) \in Slot
         /\ RingAge(i)' = IF i = nextCache THEN CacheEntries - 1
                          ELSE RingAge(i) - 1
<1>1. nextCache \in Slot
  BY DEF TypeOK
<1>2. /\ CacheEntries \in Nat \ {0}
      /\ i \in 0 .. CacheEntries - 1 /\ nextCache \in 0 .. CacheEntries - 1
  BY <1>1, SizeAssumption DEF Slot
<1>3. RingAge(i) = IF i >= nextCache THEN i - nextCache
                   ELSE i - nextCache + CacheEntries
  BY <1>1, RingDistance DEF RingAge
<1>4. nextCache' = IF nextCache = CacheEntries - 1 THEN 0 ELSE nextCache + 1
  BY <1>1, RingSuccessor DEF NextSlot
<1>5. nextCache' \in Slot
  BY <1>2, <1>4 DEF Slot
<1>6. RingAge(i)' = IF i >= nextCache' THEN i - nextCache'
                    ELSE i - nextCache' + CacheEntries
  BY <1>5, RingDistance DEF RingAge
<1>7. QED
  BY <1>2, <1>3, <1>4, <1>6 DEF Slot

\* From the slot the next completion overwrites, remembered completions have
\* ever longer to live: the ring forgets the oldest first, wherever it wraps
\* and whatever was invalidated or expired in between.
THEOREM OldestIsEvictedFirst == Spec => []OldestEvictedFirst
<1>1. Init => OldestEvictedFirst
  BY DEF Init, OldestEvictedFirst
<1>2. TypeOK /\ OldestEvictedFirst /\ [Next]_vars => OldestEvictedFirst'
  <2> SUFFICES ASSUME TypeOK, OldestEvictedFirst, [Next]_vars,
                      NEW i \in Slot, NEW j \in Slot,
                      cache'[i] # NoEntry, cache'[j] # NoEntry,
                      RingAge(i)' < RingAge(j)'
               PROVE  cache'[i].ttl <= cache'[j].ttl
    BY DEF OldestEvictedFirst
  <2> DEFINE Lasts(k) == cache[k] # NoEntry /\ cache'[k] = cache[k]
  <2>1. cache'[i] \in Entry /\ cache'[j] \in Entry
    BY NextType DEF TypeOK
  <2>2. nextCache' = nextCache => RingAge(i) < RingAge(j)
    BY DEF RingAge
  <2>3. CASE nextCache' = nextCache /\ Lasts(i) /\ Lasts(j)
    BY <2>2, <2>3 DEF OldestEvictedFirst
  <2>4. cache' = cache \/ cache' = ExpireCache => Lasts(i) /\ Lasts(j)
    BY ExpireCacheKeeps
  <2>5. ASSUME NEW src \in Source, NEW m \in Message, EndComplete(src, m)
        PROVE  cache'[i].ttl <= cache'[j].ttl
    <3>1. nextCache' = NextSlot /\ nextCache \in Slot
      BY <2>5 DEF EndComplete, TypeOK
    <3>2. cache'[nextCache].ttl = CacheTime
      <4>1. ExpireCache \in [Slot -> Entry \cup {NoEntry}]
        BY ExpireCacheType DEF TypeOK
      <4>2. QED
        BY <2>5, <3>1, <4>1 DEF EndComplete, StoreCache
    <3>3. /\ RingAge(i) \in 0 .. CacheEntries - 1
          /\ RingAge(j) \in 0 .. CacheEntries - 1
          /\ CacheEntries \in Nat
      BY <3>1, RingAgeStep, SizeAssumption DEF Slot
    <3>4. i # nextCache
      BY <3>1, <3>3, RingAgeStep
    <3>5. CASE j = nextCache
      BY <2>1, <3>2, <3>5, SizeAssumption DEF Entry
    <3>6. CASE j # nextCache
      <4>1. RingAge(i) < RingAge(j)
        BY <3>1, <3>3, <3>4, <3>6, RingAgeStep
      <4>2. Lasts(i) /\ Lasts(j)
        BY <2>5, <3>4, <3>6, CompletionStored, ExpireCacheKeeps
      <4>3. QED
        BY <4>1, <4>2 DEF OldestEvictedFirst
    <3>7. QED
      BY <3>5, <3>6
  <2>6. ASSUME NEW src \in Source, NEW m \in Message, FreshOpen(src, m)
        PROVE  cache'[i].ttl <= cache'[j].ttl
    <3>1. ExpireCache \in [Slot -> Entry \cup {NoEntry}]
      BY ExpireCacheType DEF TypeOK
    <3>2. \A k \in Slot : cache'[k] \in {ExpireCache[k], NoEntry}
      BY <2>6, <3>1 DEF FreshOpen, CacheAfterOpen
    <3>3. Lasts(i) /\ Lasts(j)
      BY <3>2, ExpireCacheKeeps
    <3>4. QED
      BY <2>3, <2>6, <3>3 DEF FreshOpen, NotCompleted
  <2>7. ASSUME NEW src \in Source, NEW m \in Message, Receive(src, m),
               ~EndComplete(src, m), ~FreshOpen(src, m)
        PROVE  cache'[i].ttl <= cache'[j].ttl
    BY <2>3, <2>4, <2>7 DEF Receive, MalformedMessage, ReceiveOpen,
      OpenBadSize, OpenCompleted, OpenBusy, OpenAgain, OpenConflict,
      OpenSession, ReceiveData, DataStray, DataBadIndex, DataBadLength,
      DataConflict, DataStore, Data, ReceiveEnd, EndStray, EndIncomplete,
      EndBadImage, NotCompleted
  <2>8. CASE Tick
    <3>1. cache[i] \in Entry \cup {NoEntry} /\ cache[j] \in Entry \cup {NoEntry}
      BY DEF TypeOK
    <3>2. /\ cache'[i] = IF cache[i] # NoEntry /\ cache[i].ttl > 0
                         THEN [cache[i] EXCEPT !.ttl = @ - 1] ELSE cache[i]
          /\ cache'[j] = IF cache[j] # NoEntry /\ cache[j].ttl > 0
                         THEN [cache[j] EXCEPT !.ttl = @ - 1] ELSE cache[j]
      BY <2>8 DEF Tick
    <3>3. cache[i] \in Entry /\ cache[j] \in Entry
      BY <3>1, <3>2
    <3>4. cache[i].ttl <= cache[j].ttl
      BY <2>2, <2>8, <3>3, SentinelAssumption DEF Tick, OldestEvictedFirst
    <3>5. /\ cache[i].ttl \in Nat /\ cache[j].ttl \in Nat
          /\ cache'[i].ttl = IF cache[i].ttl > 0 THEN cache[i].ttl - 1
                             ELSE cache[i].ttl
          /\ cache'[j].ttl = IF cache[j].ttl > 0 THEN cache[j].ttl - 1
                             ELSE cache[j].ttl
      BY <3>2, <3>3, SizeAssumption, SentinelAssumption DEF Entry
    <3>6. QED
      BY <3>4, <3>5
  <2>9. CASE Reboot
    BY <2>9 DEF Reboot
  <2>10. CASE \/ Publish \/ PollTimeout \/ TryBeginIdleWork \/ EndIdleWork
              \/ UNCHANGED vars
              \/ \E src \in Source, m \in Message :
                   ReceiveWhileReserved(src, m)
    BY <2>3, <2>4, <2>10 DEF Publish, PollTimeout, TryBeginIdleWork,
      EndIdleWork, vars, ReceiveWhileReserved
  <2>11. QED
    BY <2>5, <2>6, <2>7, <2>8, <2>9, <2>10 DEF Next, ReceiveSome, Local
<1>3. QED
  BY <1>1, <1>2, TypeCorrect, PTL DEF Spec

-----------------------------------------------------------------------------
(* What COMPLETE says *)

\* Verified(src, frame) after the step
VerifiedNext(src, frame) ==
  \/ \E d \in delivered' : d.src = src /\ d.frame = frame
  \/ publication' # NoPublication /\ publication'.src = src
                                  /\ publication'.frame = frame

\* Only a restart between verification and callback loses a verified frame.
LEMMA VerifiedKept ==
  ASSUME TypeOK, [Next]_vars, ~Reboot, NEW src, NEW frame,
         Verified(src, frame)
  PROVE  VerifiedNext(src, frame)
<1>0. UNCHANGED <<delivered, publication>> => VerifiedNext(src, frame)
  BY DEF Verified, VerifiedNext
<1>1. ASSUME NEW s \in Source, NEW m \in Message, Receive(s, m)
      PROVE  VerifiedNext(src, frame)
  <2>1. publication = NoPublication
    BY <1>1 DEF Receive, CallbackTaskIdle
  <2>2. delivered' = delivered
    BY <1>1 DEF Receive, MalformedMessage, ReceiveOpen, OpenBadSize,
      OpenCompleted, OpenBusy, OpenAgain, OpenConflict, OpenSession,
      FreshOpen, ReceiveData, DataStray, DataBadIndex, DataBadLength,
      DataConflict, DataStore, Data, ReceiveEnd, EndStray, EndIncomplete,
      EndBadImage, EndComplete, NotCompleted, Untouched
  <2>3. QED
    BY <2>1, <2>2 DEF Verified, VerifiedNext
<1>2. CASE Publish
  <2>1. CASE \E d \in delivered : d.src = src /\ d.frame = frame
    BY <1>2, <2>1 DEF Publish, VerifiedNext
  <2>2. CASE publication.src = src /\ publication.frame = frame
    <3> DEFINE image == [src |-> publication.src, frame |-> publication.frame,
                         desc |-> publication.desc,
                         eventTime |-> EventTime(publication),
                         timeSource |-> TimeSourceOf(publication)]
    <3>1. image \in delivered'
      BY <1>2 DEF Publish
    <3>2. image.src = src /\ image.frame = frame
      BY <2>2
    <3>3. QED
      BY <3>1, <3>2 DEF VerifiedNext
  <2>3. QED
    BY <2>1, <2>2 DEF Verified
<1>3. CASE PollTimeout \/ TryBeginIdleWork \/ EndIdleWork \/ Tick
  BY <1>0, <1>3 DEF PollTimeout, TryBeginIdleWork, EndIdleWork, Tick
<1>4. ASSUME NEW s \in Source, NEW m \in Message, ReceiveWhileReserved(s, m)
      PROVE  VerifiedNext(src, frame)
  BY <1>0, <1>4 DEF ReceiveWhileReserved
<1>5. CASE UNCHANGED vars
  BY <1>0, <1>5 DEF vars
<1>6. QED
  BY <1>1, <1>2, <1>3, <1>4, <1>5 DEF Next, ReceiveSome, Local

\* A completing END makes the session's frame a verified one.
LEMMA CompletionVerified ==
  ASSUME TypeOK, NEW src \in Source, NEW m \in Message, EndComplete(src, m)
  PROVE  /\ VerifiedNext(session.src, session.frame)
         /\ src = session.src /\ m.frame = session.frame
<1>1. session \in Session
  BY CompletionStored
<1>2. publication' \in Publication
  BY <1>1 DEF EndComplete, Publication, Session
<1>3. publication' # NoPublication
  BY <1>2, SentinelAssumption
<1>4. publication'.src = session.src /\ publication'.frame = session.frame
  BY DEF EndComplete
<1>5. QED
  BY <1>3, <1>4 DEF EndComplete, Holds, VerifiedNext

\* COMPLETE, and the memory of it, is always about a frame of the node's own
\* that this gateway verified, whatever is cached, repeated or expired.
THEOREM CompleteAlwaysMeansVerified == Spec => []CompleteMeansVerified
<1>1. Init => CompleteMeansVerified
  BY DEF Init, CompleteMeansVerified
<1>2. TypeOK /\ CompleteMeansVerified /\ [Next]_vars => CompleteMeansVerified'
  <2> SUFFICES ASSUME TypeOK, CompleteMeansVerified, [Next]_vars
               PROVE  CompleteMeansVerified'
    OBVIOUS
  <2>1. CASE Reboot
    BY <2>1 DEF Reboot, CompleteMeansVerified
  <2>2. CASE ~Reboot
    <3>1. ASSUME NEW i \in Slot, cache'[i] # NoEntry
          PROVE  VerifiedNext(cache'[i].src, cache'[i].frame)
      <4>1. CASE Kept(i)
        BY <2>2, <3>1, <4>1, VerifiedKept DEF Kept, CompleteMeansVerified
      <4>2. CASE \E s \in Source, m \in Message : EndComplete(s, m)
        <5>1. CASE i = nextCache
          BY <4>2, <5>1, CompletionStored, CompletionVerified
        <5>2. CASE i # nextCache
          BY <3>1, <4>1, <4>2, <5>2, CompletionStored, ExpireCacheKeeps
             DEF Kept
        <5>3. QED
          BY <5>1, <5>2
      <4>3. QED
        BY <4>1, <4>2, RingStep
    <3>2. ASSUME NEW r \in reply', r.op = "COMPLETE"
          PROVE  VerifiedNext(r.dst, r.frame)
      <4>1. ASSUME NEW s \in Source, NEW m \in Message,
                   CacheHits(ExpireCache, s, m.frame) # {}
            PROVE  VerifiedNext(s, m.frame)
        <5>1. PICK k \in Slot : /\ ExpireCache[k] # NoEntry
                                /\ ExpireCache[k].src = s
                                /\ ExpireCache[k].frame = m.frame
          BY <4>1 DEF CacheHits
        <5>2. Verified(s, m.frame)
          BY <5>1, ExpireCacheKeeps DEF CompleteMeansVerified
        <5>3. QED
          BY <2>2, <5>2, VerifiedKept
      <4>2. ASSUME NEW s \in Source, NEW m \in Message, Receive(s, m)
            PROVE  VerifiedNext(r.dst, r.frame)
        <5>1. CASE OpenCompleted(s, m) \/ EndStray(s, m)
          BY <3>2, <4>1, <5>1 DEF OpenCompleted, KnownComplete, EndStray,
            FrameReply
        <5>2. CASE EndComplete(s, m)
          <6>1. r = FrameReply("COMPLETE", s, m.frame)
            BY <3>2, <5>2 DEF EndComplete
          <6>2. QED
            BY <5>2, <6>1, CompletionVerified DEF FrameReply
        <5>3. CASE ~(OpenCompleted(s, m) \/ EndStray(s, m)
                       \/ EndComplete(s, m))
          BY <3>2, <4>2, <5>3 DEF Receive, MalformedMessage, ReceiveOpen,
            OpenBadSize, OpenBusy, OpenAgain, OpenConflict, OpenSession,
            ReceiveData, DataStray, DataBadIndex, DataBadLength,
            DataConflict, DataStore, DropSession, ReceiveEnd,
            EndIncomplete, EndBadImage, Nacks, FrameReply, Reject
        <5>4. QED
          BY <5>1, <5>2, <5>3
      <4>3. ASSUME NEW s \in Source, NEW m \in Message,
                   ReceiveWhileReserved(s, m)
            PROVE  FALSE
        BY <3>2, <4>3 DEF ReceiveWhileReserved, FrameReply
      <4>4. CASE Local
        BY <3>2, <4>4 DEF Local, Publish, PollTimeout, TryBeginIdleWork,
          EndIdleWork, Tick, Reject
      <4>5. CASE UNCHANGED vars
        <5>1. Verified(r.dst, r.frame)
          BY <3>2, <4>5 DEF vars, CompleteMeansVerified
        <5>2. QED
          BY <2>2, <5>1, VerifiedKept
      <4>6. QED
        BY <2>2, <4>2, <4>3, <4>4, <4>5 DEF Next, ReceiveSome
    <3>3. QED
      BY <3>1, <3>2 DEF CompleteMeansVerified, Verified, VerifiedNext
  <2>3. QED
    BY <2>1, <2>2
<1>3. QED
  BY <1>1, <1>2, TypeCorrect, PTL DEF Spec

-----------------------------------------------------------------------------
(* Replies and the life of a session *)

\* Whatever is still missing when an END arrives is asked for, and nothing
\* else, for every image length the buffer can hold.
THEOREM NacksNameMissing == Spec => []NackNamesMissing
<1>1. Init => NackNamesMissing
  BY DEF Init, NackNamesMissing
<1>2. TypeOK /\ NackNamesMissing /\ [Next]_vars => NackNamesMissing'
  <2> SUFFICES ASSUME TypeOK, NackNamesMissing, [Next]_vars
               PROVE  NackNamesMissing'
    OBVIOUS
  <2>1. CASE \E src \in Source, m \in Message : EndIncomplete(src, m)
    <3>1. session \in Session /\ session' = Heard /\ reply' = Nacks(Missing)
      BY <2>1 DEF EndIncomplete, Holds, Active, TypeOK
    <3>2. Missing' = Missing
      BY <3>1, HeardType DEF Missing
    <3>3. Missing \in SUBSET ChunkIndex
      BY <3>1, ChunksFit DEF Missing, Session, Descriptor
    <3>4. UNION {Asked(r) : r \in Nacks(Missing)} = Missing
      BY <3>3, NacksCoverMissing
    <3>5. session' # NoSession
      BY <3>1, HeardType, SentinelAssumption
    <3>6. QED
      BY <3>1, <3>2, <3>4, <3>5 DEF NackNamesMissing, Active, Asked
  <2>2. CASE UNCHANGED vars
    BY <2>2 DEF vars, NackNamesMissing, Active, Missing
  <2>3. CASE Next /\ ~ \E src \in Source, m \in Message :
                         EndIncomplete(src, m)
    <3>1. ASSUME NEW r \in reply', r.op = "NACK" PROVE FALSE
      <4>1. ASSUME NEW src \in Source, NEW m \in Message,
                   ReceiveWhileReserved(src, m)
            PROVE  FALSE
        BY <3>1, <4>1 DEF ReceiveWhileReserved, FrameReply
      <4>2. ASSUME NEW src \in Source, NEW m \in Message, Receive(src, m)
            PROVE  FALSE
        BY <2>3, <3>1, <4>2 DEF Receive, MalformedMessage, ReceiveOpen,
          OpenBadSize, OpenCompleted, OpenBusy, OpenAgain, OpenConflict,
          OpenSession, ReceiveData, DataStray, DataBadIndex, DataBadLength,
          DataConflict, DataStore, DropSession, ReceiveEnd, EndStray,
          EndBadImage, EndComplete, FrameReply, Reject
      <4>3. ~Local /\ ~Reboot
        BY <3>1 DEF Local, Publish, PollTimeout, TryBeginIdleWork,
          EndIdleWork, Tick, Reboot, Reject
      <4>4. QED
        BY <2>3, <4>1, <4>2, <4>3 DEF Next, ReceiveSome
    <3>2. QED
      BY <3>1 DEF NackNamesMissing
  <2>4. QED
    BY <2>1, <2>2, <2>3
<1>3. QED
  BY <1>1, <1>2, TypeCorrect, PTL DEF Spec

\* Neither the descriptor nor a received chunk of a live session ever
\* changes, and its first receive-time estimate is kept.
THEOREM SessionsOnlyGrow == Spec => SessionOnlyGrows
<1> DEFINE Grows == /\ session'.desc = session.desc
                    /\ session.have \subseteq session'.have
                    /\ \A i \in session.have : jpeg'[i] = jpeg[i]
                    /\ session.rxEstimate # 0 =>
                         session'.rxEstimate = session.rxEstimate
<1>1. TypeOK /\ [Next]_vars /\ SameSession => Grows
  <2> SUFFICES ASSUME TypeOK, [Next]_vars, SameSession PROVE Grows
    OBVIOUS
  <2>0. session \in Session /\ session' # NoSession
    BY DEF SameSession, Active, TypeOK
  <2>1. UNCHANGED jpeg /\ (session' = session \/ session' = Heard) => Grows
    BY <2>0, HeardType
  <2>2. ASSUME NEW src \in Source, NEW m \in Message, Receive(src, m)
        PROVE  Grows
    <3>1. CASE OpenAgain(src, m)
      <4>1. PICK sample \in Estimate :
              session' = [Heard EXCEPT !.rxEstimate =
                            FirstEstimate(@, m, sample)]
        BY <3>1 DEF OpenAgain
      <4>2. UNCHANGED jpeg
        BY <3>1 DEF OpenAgain, FreshOpen
      <4>3. QED
        BY <2>0, <4>1, <4>2, HeardType DEF Session, FirstEstimate
    <3>2. CASE DataStore(src, m)
      <4>1. session' = [Heard EXCEPT !.have = @ \cup {m.index}]
        BY <3>2 DEF DataStore
      <4>2. \A i \in session.have : jpeg'[i] = jpeg[i]
        <5>1. session.have \subseteq ChunkIndex
          BY <2>0 DEF Session
        <5>2. QED
          BY <3>2, <5>1 DEF DataStore, TypeOK
      <4>3. QED
        BY <2>0, <4>1, <4>2, HeardType DEF Session
    <3>3. CASE EndIncomplete(src, m)
      BY <2>1, <3>3 DEF EndIncomplete
    <3>4. CASE ~(OpenAgain(src, m) \/ DataStore(src, m)
                   \/ EndIncomplete(src, m))
      BY <2>0, <2>1, <2>2, <3>4 DEF Receive, MalformedMessage, ReceiveOpen,
        OpenBadSize, OpenCompleted, OpenBusy, OpenConflict, OpenSession,
        FreshOpen, ReceiveData, DataStray, DataBadIndex, DataBadLength,
        DataConflict, DropSession, ReceiveEnd, EndStray, EndBadImage,
        EndComplete, SameSession
    <3>5. QED
      BY <3>1, <3>2, <3>3, <3>4
  <2>3. CASE Tick
    <3>1. PICK x : session' = [session EXCEPT !.silence = x]
      BY <2>3 DEF Tick, SameSession
    <3>2. UNCHANGED jpeg
      BY <2>3 DEF Tick
    <3>3. QED
      BY <2>0, <3>1, <3>2 DEF Session
  <2>4. QED
    BY <2>0, <2>1, <2>2, <2>3 DEF Next, ReceiveSome, Local, Publish,
      PollTimeout, TryBeginIdleWork, EndIdleWork, Reboot, vars,
      ReceiveWhileReserved
<1>2. TypeOK /\ [Next]_vars => [SameSession => Grows]_vars
  BY <1>1
<1>3. QED
  BY <1>2, TypeCorrect, PTL DEF Spec, SessionOnlyGrows

\* The traffic of other nodes, and of its own other frames, does not touch a
\* session: only its own messages, the timeout and a restart do.
THEOREM SessionsAreIsolated == Spec => SessionIsolated
<1> DEFINE Own == \/ \E m \in Message : m.frame = session.frame
                                          /\ Receive(session.src, m)
                  \/ PollTimeout /\ session.silence = FrameTimeout
                  \/ Tick
                  \/ Reboot
<1>1. TypeOK /\ [Next]_vars /\ Active /\ session' # session => Own
  <2> SUFFICES ASSUME TypeOK, [Next]_vars, Active, session' # session
               PROVE  Own
    OBVIOUS
  <2>1. ASSUME NEW src \in Source, NEW m \in Message, Receive(src, m)
        PROVE  Own
    <3>1. Holds(src, m.frame)
      BY <2>1 DEF Receive, MalformedMessage, ReceiveOpen, OpenBadSize,
        OpenCompleted, OpenBusy, OpenAgain, OpenConflict, OpenSession,
        ReceiveData, DataStray, DataBadIndex, DataBadLength, DataConflict,
        DataStore, ReceiveEnd, EndStray, EndIncomplete, EndBadImage,
        EndComplete
    <3>2. QED
      BY <2>1, <3>1 DEF Holds
  <2>2. CASE PollTimeout
    <3>1. TimedOut
      BY <2>2 DEF PollTimeout
    <3>2. session.silence \in 0 .. FrameTimeout
      BY DEF Active, TypeOK, Session
    <3>3. session.silence = FrameTimeout
      BY <3>1, <3>2, SizeAssumption DEF TimedOut
    <3>4. QED
      BY <2>2, <3>3
  <2>3. QED
    BY <2>1, <2>2 DEF Next, ReceiveSome, Local, Publish, TryBeginIdleWork,
      EndIdleWork, ReceiveWhileReserved, vars
<1>2. TypeOK /\ [Next]_vars => [Active /\ session' # session => Own]_vars
  BY <1>1
<1>3. QED
  BY <1>2, TypeCorrect, PTL DEF Spec, SessionIsolated
=============================================================================
