--------------------------- MODULE ImageReassembly ---------------------------
(***************************************************************************)
(* The Mesh gateway's single JPEG reassembly slot: image_reassembly.c, the *)
(* vendor-model callback of mesh_image_gateway.c that drives it, the       *)
(* timeout task and the reservation of an idle radio window.               *)
(*                                                                         *)
(* Three tasks share the state under s_reassembly_mutex:                   *)
(*   - the Mesh callback task: Receive, then Publish once the mutex has    *)
(*     been released and the replies have been handed to the stack;        *)
(*   - timeout_task: PollTimeout, once a second;                           *)
(*   - the Wi-Fi/HTTP adapters: TryBeginIdleWork and EndIdleWork.          *)
(*                                                                         *)
(* Time is relative.  now_ms - last_activity_ms is the session's silence,  *)
(* expires_at_ms - now_ms an entry's ttl; Tick advances both and both stop *)
(* at the threshold the code compares them with, so that time needs no     *)
(* bound.  Image bytes are opaque: Bytes[c][i] is chunk i of the image     *)
(* whose CRC32 is c (two images may share chunks, never a CRC), and        *)
(* JpegOk holds the images that jpeg_is_224x224 accepts.                   *)
(*                                                                         *)
(* A definition named Bug... is a plausible mistake in the one below it;   *)
(* nothing uses it but the checks that some property would notice it.      *)
(***************************************************************************)
EXTENDS Integers, FiniteSets

CONSTANTS
  Source,        \* unicast addresses of the provisioned C6 nodes
  FrameId,       \* BLE frame IDs
  Detected,      \* detected_at_ms values; 0 is "no timestamp"
  RxTime,        \* nonzero receive-time estimates of the time provider
  Crc,           \* CRC32 values, one per image
  Payload,       \* chunk contents
  Bytes,         \* Bytes[c][i]: content of chunk i of the image with CRC c
  ImageLen,      \* ImageLen[c]: its length in bytes
  JpegOk,        \* CRCs of the images that are 224x224 JPEGs
  WireLen,       \* image lengths an OPEN may declare
  WireIndex,     \* chunk indexes a DATA may carry
  WireBytes,     \* chunk lengths a DATA may have
  DataBytes,     \* BLE_MESH_IMAGE_DATA_BYTES
  MaxBytes,      \* BLE_MESH_IMAGE_MAX_BYTES
  NackBits,      \* BLE_MESH_IMAGE_NACK_BITS_MAX: chunks one NACK covers
  ReplyMax,      \* IMAGE_REASSEMBLY_REPLY_MAX: replies to one message
  CacheEntries,  \* IMAGE_REASSEMBLY_CACHE_ENTRIES
  FrameTimeout,  \* IMAGE_REASSEMBLY_TIMEOUT_MS, in ticks
  CacheTime,     \* IMAGE_REASSEMBLY_CACHE_MS, in ticks
  NoSession, NoEntry, NoPublication, Unwritten

Slot == 0 .. CacheEntries - 1

\* total_chunks: how many DATA messages carry len bytes.
TotalChunks(len) == (len + DataBytes - 1) \div DataBytes
Chunks(len) == 0 .. TotalChunks(len) - 1

\* The chunks the buffer and received_bitmap have room for.
ChunkIndex == Chunks(MaxBytes)

\* expected: how many bytes chunk i of a len-byte image holds.
ChunkBytes(len, i) ==
  IF len - i * DataBytes > DataBytes THEN DataBytes ELSE len - i * DataBytes

Estimate == RxTime \cup {0}

Descriptor == [detected : Detected, len : 1 .. MaxBytes, crc : Crc]

Session == [src : Source, frame : FrameId, desc : Descriptor,
            rxEstimate : Estimate, have : SUBSET ChunkIndex,
            silence : 0 .. FrameTimeout]

Entry == [src : Source, frame : FrameId, desc : Descriptor,
          ttl : 0 .. CacheTime]

Publication == [src : Source, frame : FrameId, desc : Descriptor,
                rxEstimate : Estimate]

TimeSource == {"P4_DETECTED", "RX_ESTIMATE", "UNKNOWN"}

Delivery == [src : Source, frame : FrameId, desc : Descriptor,
             eventTime : Nat, timeSource : TimeSource]

Reason == {"MALFORMED", "SIZE", "STATE", "CRC", "JPEG", "TIMEOUT"}

Reply == [op : {"ACCEPT", "BUSY", "COMPLETE", "RESTART"},
          dst : Source, frame : FrameId]
           \cup [op : {"REJECT"}, dst : Source, frame : FrameId,
                 reason : Reason]
           \cup [op : {"NACK"}, dst : Source, frame : FrameId,
                 base : ChunkIndex, bits : SUBSET (0 .. NackBits - 1)]

\* The messages of a node: a DATA carries bytes of some image of its own.
Message == [op : {"OPEN"}, frame : FrameId, detected : Detected,
            len : WireLen, crc : Crc]
             \cup {[op |-> "DATA", frame |-> f, index |-> i, len |-> n,
                    data |-> Bytes[c][i]] :
                      f \in FrameId, i \in WireIndex, n \in WireBytes, c \in Crc}
             \cup [op : {"END"}, frame : FrameId]
             \cup [op : {"MALFORMED"}, as : {"OPEN", "DATA", "END"},
                   frame : FrameId]

ASSUME SizeAssumption ==
  /\ DataBytes \in Nat \ {0}
  /\ MaxBytes \in Nat \ {0}
  /\ MaxBytes <= 255 * DataBytes
  /\ NackBits \in Nat \ {0} /\ ReplyMax \in Nat \ {0}
  /\ MaxBytes <= ReplyMax * NackBits * DataBytes
  /\ CacheEntries \in Nat \ {0}
  /\ FrameTimeout \in Nat \ {0}
  /\ CacheTime \in Nat \ {0}

ASSUME WireAssumption ==
  /\ WireLen \subseteq Nat
  /\ ChunkIndex \subseteq WireIndex
  /\ WireIndex \subseteq 0 .. 255
  /\ WireBytes \subseteq 1 .. DataBytes
  /\ Detected \subseteq Nat
  /\ RxTime \subseteq Nat \ {0}

ASSUME ImageAssumption ==
  /\ Bytes \in [Crc -> [WireIndex -> Payload]]
  /\ ImageLen \in [Crc -> 1 .. MaxBytes]
  /\ JpegOk \subseteq Crc

ASSUME SentinelAssumption ==
  /\ NoSession \notin Session
  /\ NoEntry \notin Entry
  /\ NoPublication \notin Publication
  /\ Unwritten \notin Payload

VARIABLES
  session,      \* the one slot: s_reassembly's active session, or NoSession
  jpeg,         \* s_reassembly.jpeg: content last copied to each chunk
  cache,        \* the completion ring: an Entry, or NoEntry where invalid
  nextCache,    \* next_cache
  idleReserved, \* s_idle_work_reserved
  publication,  \* the completion the callback task still has to publish
  delivered,    \* history: images handed to the image callback
  reply         \* replies sent by the last step

vars == <<session, jpeg, cache, nextCache, idleReserved, publication,
          delivered, reply>>

-----------------------------------------------------------------------------
(* Replies *)

FrameReply(op, dst, frame) == [op |-> op, dst |-> dst, frame |-> frame]

Reject(dst, frame, reason) ==
  [op |-> "REJECT", dst |-> dst, frame |-> frame, reason |-> reason]

\* The chunks the bitmap of a NACK can name.
Window(base) == base .. base + NackBits - 1

BugNackBases(missing) ==
  {k * NackBits : k \in {j \in 0 .. ReplyMax - 2 :
                           missing \cap Window(j * NackBits) # {}}}

\* build_nacks: the windows in which a chunk is missing, ReplyMax at most.
NackBases(missing) ==
  {k * NackBits : k \in {j \in 0 .. ReplyMax - 1 :
                           missing \cap Window(j * NackBits) # {}}}

\* One NACK per window; bit r of its bitmap is chunk base + r.
Nacks(missing) ==
  {[op |-> "NACK", dst |-> session.src, frame |-> session.frame, base |-> b,
    bits |-> {r \in 0 .. NackBits - 1 : b + r \in missing}] :
      b \in NackBases(missing)}

\* The chunks a NACK asks for.
Asked(r) == {r.base + bit : bit \in r.bits}

-----------------------------------------------------------------------------
(* The completion cache *)

ExpireCache ==
  [i \in Slot |-> IF cache[i] # NoEntry /\ cache[i].ttl = 0
                  THEN NoEntry ELSE cache[i]]

BugCacheHits(ring, src, frame) ==
  {i \in Slot : ring[i] # NoEntry /\ ring[i].frame = frame}

CacheHits(ring, src, frame) ==
  {i \in Slot : ring[i] # NoEntry /\ ring[i].src = src
                                  /\ ring[i].frame = frame}

\* find_cache: the first valid entry of the key.
FirstHit(ring, src, frame) ==
  CHOOSE i \in CacheHits(ring, src, frame) :
    \A j \in CacheHits(ring, src, frame) : i <= j

BugNextSlot == nextCache + 1

\* The ring wraps.
NextSlot == (nextCache + 1) % CacheEntries

BugStoreCache(ring) ==
  [ring EXCEPT ![NextSlot] =
     [src |-> session.src, frame |-> session.frame, desc |-> session.desc,
      ttl |-> CacheTime]]

StoreCache(ring) ==
  [ring EXCEPT ![nextCache] =
     [src |-> session.src, frame |-> session.frame, desc |-> session.desc,
      ttl |-> CacheTime]]

-----------------------------------------------------------------------------
(* The slot *)

Active == session # NoSession
BugHolds(src, frame) == Active /\ session.frame = frame

Holds(src, frame) == Active /\ session.src = src /\ session.frame = frame

\* last_activity_ms = now_ms: its source was heard.
Heard == [session EXCEPT !.silence = 0]

Init ==
  /\ session = NoSession
  /\ jpeg = [i \in ChunkIndex |-> Unwritten]
  /\ cache = [i \in Slot |-> NoEntry]
  /\ nextCache = 0
  /\ idleReserved = FALSE
  /\ publication = NoPublication
  /\ delivered = {}
  /\ reply = {}

Untouched == UNCHANGED <<idleReserved, delivered>>

\* Every message but a completing END leaves these alone as well.
NotCompleted == Untouched /\ UNCHANGED <<nextCache, publication>>

MalformedMessage(src, m) ==
  /\ m.op = "MALFORMED"
  /\ reply' = {Reject(src, m.frame, "MALFORMED")}
  /\ cache' = ExpireCache
  /\ UNCHANGED <<session, jpeg>>
  /\ NotCompleted

(* OPEN: handle_open, then image_reassembly_set_rx_estimate on ACCEPT *)

OpenDescriptor(m) == [detected |-> m.detected, len |-> m.len, crc |-> m.crc]

BugFirstEstimate(old, m, sample) == IF m.detected = 0 THEN sample ELSE old

\* The estimate sampled for a timestamp-less OPEN; the first nonzero one wins.
FirstEstimate(old, m, sample) ==
  IF m.detected = 0 /\ old = 0 THEN sample ELSE old

OpenBadSize(src, m) ==
  /\ m.op = "OPEN"
  /\ m.len \notin 1 .. MaxBytes
  /\ reply' = {Reject(src, m.frame, "SIZE")}
  /\ cache' = ExpireCache
  /\ UNCHANGED <<session, jpeg>>
  /\ NotCompleted

\* The key's completion is remembered with this very descriptor.
KnownComplete(src, m) ==
  LET hits == CacheHits(ExpireCache, src, m.frame)
  IN  /\ hits # {}
      /\ ExpireCache[FirstHit(ExpireCache, src, m.frame)].desc
           = OpenDescriptor(m)

BugCacheAfterOpen(src, m) == ExpireCache

\* The cache a valid OPEN that is not KnownComplete leaves: the key's first
\* entry describes another image and is invalidated.
CacheAfterOpen(src, m) ==
  IF CacheHits(ExpireCache, src, m.frame) = {} THEN ExpireCache
  ELSE [ExpireCache EXCEPT ![FirstHit(ExpireCache, src, m.frame)] = NoEntry]

OpenCompleted(src, m) ==
  /\ m.op = "OPEN"
  /\ m.len \in 1 .. MaxBytes
  /\ KnownComplete(src, m)
  /\ reply' = {FrameReply("COMPLETE", src, m.frame)}
  /\ cache' = ExpireCache
  /\ UNCHANGED <<session, jpeg>>
  /\ NotCompleted

\* A valid OPEN that the completion cache does not answer.
FreshOpen(src, m) ==
  /\ m.op = "OPEN"
  /\ m.len \in 1 .. MaxBytes
  /\ ~KnownComplete(src, m)
  /\ cache' = CacheAfterOpen(src, m)
  /\ UNCHANGED jpeg
  /\ NotCompleted

OpenBusy(src, m) ==
  /\ FreshOpen(src, m)
  /\ Active /\ ~Holds(src, m.frame)
  /\ reply' = {FrameReply("BUSY", src, m.frame)}
  /\ UNCHANGED session

BugOpenAgain(src, m) ==
  /\ FreshOpen(src, m)
  /\ Holds(src, m.frame)
  /\ session.desc = OpenDescriptor(m)
  /\ reply' = {FrameReply("BUSY", src, m.frame)}
  /\ session' = Heard

OpenAgain(src, m) ==
  /\ FreshOpen(src, m)
  /\ Holds(src, m.frame)
  /\ session.desc = OpenDescriptor(m)
  /\ reply' = {FrameReply("ACCEPT", src, m.frame)}
  /\ \E sample \in Estimate :
       session' = [Heard EXCEPT !.rxEstimate = FirstEstimate(@, m, sample)]

OpenConflict(src, m) ==
  /\ FreshOpen(src, m)
  /\ Holds(src, m.frame)
  /\ session.desc # OpenDescriptor(m)
  /\ reply' = {Reject(src, m.frame, "STATE")}
  /\ session' = NoSession

OpenSession(src, m) ==
  /\ FreshOpen(src, m)
  /\ ~Active
  /\ reply' = {FrameReply("ACCEPT", src, m.frame)}
  /\ \E sample \in Estimate :
       session' = [src |-> src, frame |-> m.frame, desc |-> OpenDescriptor(m),
                   rxEstimate |-> FirstEstimate(0, m, sample),
                   have |-> {}, silence |-> 0]

ReceiveOpen(src, m) ==
  \/ OpenBadSize(src, m)
  \/ OpenCompleted(src, m)
  \/ OpenBusy(src, m)
  \/ OpenAgain(src, m)
  \/ OpenConflict(src, m)
  \/ OpenSession(src, m)

(* DATA: handle_data *)

\* A well-formed DATA; it never completes a frame.
Data(m) ==
  /\ m.op = "DATA"
  /\ cache' = ExpireCache
  /\ NotCompleted

DataStray(src, m) ==
  /\ Data(m)
  /\ ~Holds(src, m.frame)
  /\ reply' = {FrameReply("RESTART", src, m.frame)}
  /\ UNCHANGED <<session, jpeg>>

\* The session is dropped and its source told why.
DropSession(src, m, reason) ==
  /\ session' = NoSession
  /\ reply' = {Reject(src, m.frame, reason)}
  /\ UNCHANGED jpeg

InRange(m) == m.index < TotalChunks(session.desc.len)
Fits(m) == m.len = ChunkBytes(session.desc.len, m.index)

DataBadIndex(src, m) ==
  /\ Data(m)
  /\ Holds(src, m.frame)
  /\ ~InRange(m)
  /\ DropSession(src, m, "STATE")

DataBadLength(src, m) ==
  /\ Data(m)
  /\ Holds(src, m.frame)
  /\ InRange(m) /\ ~Fits(m)
  /\ DropSession(src, m, "MALFORMED")

DataConflict(src, m) ==
  /\ Data(m)
  /\ Holds(src, m.frame)
  /\ InRange(m) /\ Fits(m)
  /\ m.index \in session.have
  /\ jpeg[m.index] # m.data
  /\ DropSession(src, m, "STATE")

\* The chunk is stored, or is a duplicate that changes nothing.
DataStore(src, m) ==
  /\ Data(m)
  /\ Holds(src, m.frame)
  /\ InRange(m) /\ Fits(m)
  /\ m.index \in session.have => jpeg[m.index] = m.data
  /\ session' = [Heard EXCEPT !.have = @ \cup {m.index}]
  /\ jpeg' = [jpeg EXCEPT ![m.index] = m.data]
  /\ reply' = {}

ReceiveData(src, m) ==
  \/ DataStray(src, m)
  \/ DataBadIndex(src, m)
  \/ DataBadLength(src, m)
  \/ DataConflict(src, m)
  \/ DataStore(src, m)

(* END: handle_end *)

\* esp_crc32_le over the first image_len bytes of the buffer.
CrcMatches ==
  /\ session.desc.len = ImageLen[session.desc.crc]
  /\ \A i \in Chunks(session.desc.len) :
       jpeg[i] = Bytes[session.desc.crc][i]

Missing == Chunks(session.desc.len) \ session.have

EndStray(src, m) ==
  /\ m.op = "END"
  /\ ~Holds(src, m.frame)
  /\ cache' = ExpireCache
  /\ reply' = {FrameReply(IF CacheHits(ExpireCache, src, m.frame) # {}
                          THEN "COMPLETE" ELSE "RESTART", src, m.frame)}
  /\ UNCHANGED <<session, jpeg>>
  /\ NotCompleted

EndIncomplete(src, m) ==
  /\ m.op = "END"
  /\ Holds(src, m.frame)
  /\ Missing # {}
  /\ cache' = ExpireCache
  /\ session' = Heard
  /\ reply' = Nacks(Missing)
  /\ UNCHANGED jpeg
  /\ NotCompleted

EndBadImage(src, m) ==
  /\ m.op = "END"
  /\ Holds(src, m.frame)
  /\ Missing = {}
  /\ \/ ~CrcMatches /\ DropSession(src, m, "CRC")
     \/ /\ CrcMatches
        /\ session.desc.crc \notin JpegOk
        /\ DropSession(src, m, "JPEG")
  /\ cache' = ExpireCache
  /\ NotCompleted

EndComplete(src, m) ==
  /\ m.op = "END"
  /\ Holds(src, m.frame)
  /\ Missing = {}
  /\ CrcMatches
  /\ session.desc.crc \in JpegOk
  /\ publication' = [src |-> session.src, frame |-> session.frame,
                     desc |-> session.desc, rxEstimate |-> session.rxEstimate]
  /\ cache' = StoreCache(ExpireCache)
  /\ nextCache' = NextSlot
  /\ session' = NoSession
  /\ reply' = {FrameReply("COMPLETE", src, m.frame)}
  /\ UNCHANGED jpeg
  /\ Untouched

ReceiveEnd(src, m) ==
  \/ EndStray(src, m)
  \/ EndIncomplete(src, m)
  \/ EndBadImage(src, m)
  \/ EndComplete(src, m)

-----------------------------------------------------------------------------
(* The callback task: one message at a time, and none while a completion   *)
(* of the previous one still waits for publish_complete.                   *)

BugCallbackTaskIdle == TRUE

CallbackTaskIdle == publication = NoPublication

Receive(src, m) ==
  /\ CallbackTaskIdle
  /\ ~idleReserved
  /\ \/ MalformedMessage(src, m)
     \/ ReceiveOpen(src, m)
     \/ ReceiveData(src, m)
     \/ ReceiveEnd(src, m)

\* The opcode of the message, whatever its length.
Kind(m) == IF m.op = "MALFORMED" THEN m.as ELSE m.op

\* While a local adapter holds the radio window nothing is reassembled.
ReceiveWhileReserved(src, m) ==
  /\ CallbackTaskIdle
  /\ idleReserved
  /\ reply' = {FrameReply(IF Kind(m) = "OPEN" THEN "BUSY" ELSE "RESTART",
                          src, m.frame)}
  /\ UNCHANGED <<session, jpeg, cache, nextCache, idleReserved, publication,
                 delivered>>

EventTime(p) ==
  IF p.desc.detected # 0 THEN p.desc.detected ELSE p.rxEstimate

TimeSourceOf(p) ==
  IF p.desc.detected # 0 THEN "P4_DETECTED"
  ELSE IF p.rxEstimate # 0 THEN "RX_ESTIMATE" ELSE "UNKNOWN"

\* publish_complete: the JPEG is read from s_reassembly outside the mutex.
Publish ==
  /\ publication # NoPublication
  /\ delivered' = delivered \cup
       {[src |-> publication.src, frame |-> publication.frame,
         desc |-> publication.desc, eventTime |-> EventTime(publication),
         timeSource |-> TimeSourceOf(publication)]}
  /\ publication' = NoPublication
  /\ reply' = {}
  /\ UNCHANGED <<session, jpeg, cache, nextCache, idleReserved>>

-----------------------------------------------------------------------------
(* The other tasks and the environment *)

BugTimedOut ==
  Active /\ session.have = {} /\ session.silence >= FrameTimeout

\* The holder has been silent for IMAGE_REASSEMBLY_TIMEOUT_MS.
TimedOut == Active /\ session.silence >= FrameTimeout

\* timeout_task: one image_reassembly_poll_timeout.
PollTimeout ==
  /\ cache' = ExpireCache
  /\ IF TimedOut
     THEN /\ session' = NoSession
          /\ reply' = {Reject(session.src, session.frame, "TIMEOUT")}
     ELSE /\ UNCHANGED session
          /\ reply' = {}
  /\ UNCHANGED <<jpeg, nextCache, idleReserved, publication, delivered>>

BugTryBeginIdleWork ==
  /\ ~idleReserved
  /\ idleReserved' = TRUE
  /\ reply' = {}
  /\ UNCHANGED <<session, jpeg, cache, nextCache, publication, delivered>>

TryBeginIdleWork ==
  /\ ~Active /\ ~idleReserved
  /\ idleReserved' = TRUE
  /\ reply' = {}
  /\ UNCHANGED <<session, jpeg, cache, nextCache, publication, delivered>>

EndIdleWork ==
  /\ idleReserved
  /\ idleReserved' = FALSE
  /\ reply' = {}
  /\ UNCHANGED <<session, jpeg, cache, nextCache, publication, delivered>>

Older(n, limit) == IF n < limit THEN n + 1 ELSE limit

\* A tick of the monotonic clock.
Tick ==
  /\ session' = IF Active
                THEN [session EXCEPT !.silence = Older(@, FrameTimeout)]
                ELSE NoSession
  /\ cache' = [i \in Slot |->
                 IF cache[i] # NoEntry /\ cache[i].ttl > 0
                 THEN [cache[i] EXCEPT !.ttl = @ - 1] ELSE cache[i]]
  /\ reply' = {}
  /\ UNCHANGED <<jpeg, nextCache, idleReserved, publication, delivered>>

\* The gateway restarts: everything it had was in RAM.
Reboot ==
  /\ session' = NoSession
  /\ jpeg' = [i \in ChunkIndex |-> Unwritten]
  /\ cache' = [i \in Slot |-> NoEntry]
  /\ nextCache' = 0
  /\ idleReserved' = FALSE
  /\ publication' = NoPublication
  /\ reply' = {}
  /\ UNCHANGED delivered

ReceiveSome ==
  \E src \in Source, m \in Message :
    Receive(src, m) \/ ReceiveWhileReserved(src, m)

Local == Publish \/ PollTimeout \/ TryBeginIdleWork \/ EndIdleWork \/ Tick

Next == ReceiveSome \/ Local \/ Reboot

Spec == Init /\ [][Next]_vars

\* The clock runs, timeout_task polls once a second and the callback task
\* finishes the callback it is in; nothing is assumed of the senders.
Fairness == WF_vars(Tick) /\ WF_vars(PollTimeout) /\ WF_vars(Publish)

FairSpec == Spec /\ Fairness

-----------------------------------------------------------------------------
(* Properties *)

\* Type invariant of the gateway's reassembly state.
TypeOK ==
  /\ session \in Session \cup {NoSession}
  /\ jpeg \in [ChunkIndex -> Payload \cup {Unwritten}]
  /\ cache \in [Slot -> Entry \cup {NoEntry}]
  /\ nextCache \in Slot
  /\ idleReserved \in BOOLEAN
  /\ publication \in Publication \cup {NoPublication}
  /\ delivered \subseteq Delivery
  /\ reply \subseteq Reply

\* The JPEG pointer publish_complete hands on, outside the mutex, still
\* points at exactly the image whose descriptor was completed: no task
\* rewrites the buffer between the verification and the callback.
PendingImageIntact ==
  publication # NoPublication =>
    /\ publication.desc.crc \in JpegOk
    /\ publication.desc.len = ImageLen[publication.desc.crc]
    /\ \A i \in Chunks(publication.desc.len) :
         jpeg[i] = Bytes[publication.desc.crc][i]

\* The NACKs that answer an END ask for every chunk the slot still misses and
\* for no other, however the missing chunks spread over the bitmaps.
NackNamesMissing ==
  (\E r \in reply : r.op = "NACK") =>
    /\ Active
    /\ UNION {Asked(r) : r \in reply} = Missing

\* A key has at most one valid completion, and none while it is being
\* reassembled: find_cache's first match is the only one, and no frame is
\* published a second time while its completion is remembered.
KeyRememberedOnce ==
  \A i \in Slot : cache[i] # NoEntry =>
    /\ ~Holds(cache[i].src, cache[i].frame)
    /\ \A j \in Slot \ {i} : cache[j] # NoEntry =>
         \/ cache[j].src # cache[i].src
         \/ cache[j].frame # cache[i].frame

\* Distance of a ring slot from the slot store_cache will overwrite next.
RingAge(i) == (i - nextCache + CacheEntries) % CacheEntries

\* The ring forgets the oldest completion first: from the slot the next
\* completion overwrites, valid entries have ever longer to live.
OldestEvictedFirst ==
  \A i, j \in Slot :
    cache[i] # NoEntry /\ cache[j] # NoEntry /\ RingAge(i) < RingAge(j)
      => cache[i].ttl <= cache[j].ttl

\* This gateway verified an image of the key: it was published, or the
\* callback task is about to publish it.
Verified(src, frame) ==
  \/ \E d \in delivered : d.src = src /\ d.frame = frame
  \/ publication # NoPublication /\ publication.src = src
                                 /\ publication.frame = frame

\* A node is told COMPLETE, and a completion is remembered for its next
\* COMPLETE, only about a frame of its own that this gateway verified.
CompleteMeansVerified ==
  /\ \A r \in reply : r.op = "COMPLETE" => Verified(r.dst, r.frame)
  /\ \A i \in Slot : cache[i] # NoEntry =>
       Verified(cache[i].src, cache[i].frame)

\* An idle radio window and an image session exclude each other.
IdleWindowExclusive == ~(idleReserved /\ Active)

\* Only its own source, the timeout after FrameTimeout of silence or a
\* restart changes a session; a foreign node's traffic cannot even keep it
\* alive.
SessionIsolated ==
  [][Active /\ session' # session =>
       \/ Tick \/ Reboot
       \/ PollTimeout /\ session.silence = FrameTimeout
       \/ \E m \in Message : m.frame = session.frame
                               /\ Receive(session.src, m)]_vars

SameSession ==
  /\ Active /\ session' # NoSession
  /\ session'.src = session.src
  /\ session'.frame = session.frame

\* While a session lives its descriptor is fixed, no received chunk is
\* forgotten or overwritten, and a receive-time estimate never moves.
SessionOnlyGrows ==
  [][SameSession =>
       /\ session'.desc = session.desc
       /\ session.have \subseteq session'.have
       /\ \A i \in session.have : jpeg'[i] = jpeg[i]
       /\ session.rxEstimate # 0 => session'.rxEstimate = session.rxEstimate
    ]_vars

\* The slot cannot be held by a silent node for ever: it is free again and
\* again, or its holder is heard again and again.
SlotReclaimed == []<>(~Active \/ session.silence = 0)
=============================================================================
