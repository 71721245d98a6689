# TLA+ verification of the ESP32-P4 AI camera

This directory models the path a picture takes from the camera's ESP32-P4 to the
server, and checks and proves what that path promises. The reference is the
firmware's C code; every definition that models code is listed in `PROJECT.json`
under `map` with the lines it stands for.

## The system

```
 ESP32-P4                 ESP32-C6                          ESP32 server gateway          PC
 p4_inference             c6_sdio_ble                       server                        server/tools
 camera, classifier
   | submit JPEG
 sdio_frame_tx --SDIO--> sdio_frame_receiver
   (ESP-Hosted RPC)        | ble_mesh_image_source_submit
          <--events--    ble_mesh_image_source --BLE Mesh--> mesh_image_gateway
                                                (esp32_ble     image_reassembly
                                                 may relay)      | image callback
                                                               serial adapter --UART--> receive_images.py
                                                               Wi-Fi/HTTP adapters
```

An image crosses two protocols. Over SDIO the P4 *reserves* the one JPEG buffer
of the C6, sends the frame in chunks and keeps the reservation until the C6
reports SERVER_ACKED or FAILED. Over the Mesh the C6 sends OPEN, the DATA
chunks and END, the gateway answers ACCEPT, NACK, COMPLETE, RESTART, BUSY or
REJECT, and COMPLETE is what becomes SERVER_ACKED. Clock queries of the P4 take
the same way and share the source's one job, and the one completion mailbox,
with the images.

Around that path lie three others. Before it, the gateway provisions and
configures each C6, which is READY only then. After it, the gateway writes the
image to the console UART and a Python script on the laptop reads it. Against it
runs the clock: the laptop sends its time over the same UART, the gateway
answers TIME_REQUESTs of the C6, and the P4 maps its own clock to the answers to
stamp its captures.

### Inventory

| Component (`src/`) | State it keeps | Operations | Talks to |
|---|---|---|---|
| Image reassembly, `firmware/server/main/image_reassembly.c` | one session (source, frame ID, descriptor, chunk bitmap, last activity, receive-time estimate), the JPEG buffer, a ring of 16 completions of 300 s | OPEN, DATA, END, poll_timeout | called by the gateway under `s_reassembly_mutex` |
| Mesh gateway, `firmware/server/main/mesh_image_gateway.c` | idle-work reservation, pending publication, AppKey, registry of nodes, the one provisioning attempt | vendor-model callback, `publish_complete`, `timeout_task`, `try_begin`/`end_idle_work`, `provisioning_callback`, `config_client_callback`, `handle_time_request` | Mesh stack, adapters, NVS |
| Image source, `firmware/c6_sdio_ble/main/ble_mesh_image_source.c` | one-slot job queue, `s_outstanding`, the active transfer and its response mailbox, semaphores, readiness, binding, frame counter, fault flag | submit, request_time, worker, response callbacks, provisioning callbacks, restart | receiver (callbacks), Mesh stack, NVS |
| SDIO receiver, `firmware/c6_sdio_ble/main/sdio_frame_receiver.c` | receiver state, active metadata, `s_jpeg_buffer`, terminal cache, event queue, lifecycle mailbox, ready edge | RX callback, completion callbacks, `status_worker`, assembly timeout | ESP-Hosted, source |
| SDIO sender, `firmware/p4_inference/main/sdio_frame_tx.c` | transport up, remote state, reserved frame, outstanding clock query, job queue | submit_event, worker, control and time handlers, transport events | ESP-Hosted, application |
| SDIO protocol, `shared/sdio_frame_protocol` | none | CRC, initialisation and checks of the messages | both SDIO ends |
| Clock mapping, `firmware/p4_inference/main/sdio_time_clock.c` | two anchors, their age, the measured delay | apply a sample, convert, invalidate | sender |
| P4 application | frames, classifier results | capture, infer, submit | sender |
| Serial adapter, `firmware/server/main/server_serial_adapter.c` | one image slot (`SERIAL_SLOT_COUNT`), two queues of it, transmitting flag, drop count, sequence | image callback, writer task | gateway, PC |
| Serial clock, `firmware/server/main/server_serial_time_adapter.c` | the laptop's time and when it came | packet parser, `laptop_clock_now` | gateway, serial adapter, PC |
| Wi-Fi/HTTP adapters | sockets | poll, upload in an idle window | gateway |
| Host receiver, `firmware/server/tools/receive_images.py` | parser buffer, partial-record deadline, last sequence number, time of the next sync | feed, expire, save, send the time | serial line |
| Relay `esp32_ble`, vendored ESP-Hosted firmware `c6_hosted`, data collection `p4_data`, `model/` | no protocol state of this system | | |

What is hard about each, and what makes it correct:

- **Reassembly.** Any node may send any message at any time to the one slot. A
  session must belong to one node, only grow, end in a timeout at the latest,
  and COMPLETE may be said only of an image that was verified; NACKs must cover
  exactly what is missing; the published buffer is read without the mutex.
- **Source.** The worker and the Bluetooth task meet in a mailbox and a
  semaphore (lost wakeups, late answers of an earlier phase, a transmission whose
  completion never comes); attempts, rounds and restarts must end.
- **Transfer, both ends together.** Losses, reordering, gateway restarts,
  repeated OPENs and ENDs, a cache that answers for an earlier image.
- **Receiver.** The RX task, `status_worker` and the source's callbacks
  interleave around one buffer, one mailbox and one terminal cache.
- **SDIO link, both ends together.** Control messages are events nobody
  acknowledges, queues drop, either chip restarts; still the reservation has to
  end, and only an acknowledged frame may be taken for acknowledged.
- **Set-up.** Six configuration steps, each with a timeout and retries, one
  provisioning link whose events come in an order the gateway must respect, NVS
  on both sides that outlives a restart in the middle, and in the C6 a readiness
  that is decided in one critical section and stored in another. READY must mean
  wholly configured, keys and owners must agree.
- **Clock.** Two clocks, three hops, samples that are late, refused or about an
  earlier query; the time stamped on a capture must be right or absent.
- **Console line.** One slot for images that may complete faster than they are
  written, logs between records, bytes lost or damaged; what came over whole must
  be saved, what did not must be counted, and nothing may hold the parser up.

`PROJECT.json` lists the hazards one by one, each at the line where it bites,
with the properties that would notice it going wrong.

## The modules

| Module | Models | State and actions |
|---|---|---|
| `ImageReassembly` | the reassembly, the image part of the Mesh callback, `publish_complete`, `timeout_task`, the idle window | `session`, `jpeg`, `cache`, `nextCache` are `s_reassembly`'s fields, `idleReserved` the reservation, `publication` the completion between the unlocked mutex and `publish_complete`. `Receive` is the callback for one message: one disjunct per outcome of `handle_open`, `handle_data`, `handle_end`. `Publish`, `PollTimeout`, `TryBeginIdleWork`, `EndIdleWork`, `Tick`, `Reboot` |
| `..._proofs` | theorems about a module and their proofs | |
| `ImageSource` | the source's queue, worker and response callbacks | `pc` is the worker's place, one action per critical section or call; `Submit`, `RequestTime`, `RespondImage`, `RespondTime`, `Give` are the callers and the Bluetooth task, `RouteChange` the provisioning callbacks, `Expire` the deadline, `Restart` the `esp_restart` after a transport fault |
| `ImageDelivery` | the abstract promise of a transfer | images accepted, owed, verified, acknowledged |
| `MeshTransfer` | source + gateway + network | `INSTANCE`s of both, messages in flight both ways; shown to implement `ImageDelivery` |
| `SdioReceiver` | the C6's end of SDIO | `rx` is where the RX task is in its callback, `work` where `status_worker` is, `finished` a completion of the source that is not reported yet; `events`, `lifecycle`, `readyEdge` are the queues |
| `SdioSender` | the P4's end of SDIO | `tx` is the worker's place, `app` a submission between reservation and queueing; `HearControl` and `HearSample` are the message handlers, `TransportUp`, `TransportDown`, `C6Initialized` the events |
| `SdioLink` | both ends + ESP-Hosted | `Deliver` and `Fault` of a remote procedure call from the P4, `Hear` and `LoseAnswer` of the C6's events, restarts, the Mesh binding |
| `GatewayProvisioner` | the gateway as Provisioner | `setup` is the completion event its AppKey set-up waits for, `nodes` the registry with `pending_opcode` and `retries`, `attempt` the pending UUID, `asked` the Mesh client's outstanding step; `table`, `storedKey`, `stackKey`, `modelBound` are in NVS. One action per event of `provisioning_callback` and `config_client_callback` |
| `SourceBinding` | a C6's way to READY | `kept` is what its NVS holds, `bound`, `healthy`, `ready` the flags, `task` where init or the faulty worker is and `held` what it decided and has not stored. `Decide`, `SetBinding`, `Compute`, `Store` are its steps, `Provisioned` and `Applies` the callbacks that may come between them |
| `MeshSetup` | both + the Mesh stacks | one link, its events, one configuration request and status per node, losses, restarts, faults |
| `TimeClock` | `sdio_time_clock.c` and the clock part of the sender | `mapping` is `s_time_clock`, `asked` the outstanding query; `PrepareTimeQuery`, `HearSample`, `Capture` and the events that invalidate the mapping |
| `LaptopClock` | the gateway's wall clock | `anchor` is the laptop's time and when it came, `serving` a TIME_REQUEST between its two samples |
| `TimeSync` | laptop, gateway and P4 | packets, queries and answers on their way as sets, real time in `now` |
| `SerialOutput` | `server_serial_adapter.c` | `callback` and `writer` are the places of the two tasks; `TakeSlot`, `RaiseFlag`, `QueueSlot` and `TakeJob`, `WriteUnit`, `FinishWrite`, `ReportDrops`, `ReturnSlot` interleave |
| `SerialHost` | the receive loop of `receive_images.py` | `buffer` is the parser's, `host` the place in the loop; `Read`, `ReadNothing`, `Feed`, `Observe`, `FeedRest`, `ObserveAgain` |
| `SerialLine` | both + the UART | bytes damaged or lost, writes that fail, other output, time |
| `MC...` | constants and views for TLC | |

`MeshTransfer` composes `ImageSource` and `ImageReassembly`; `SdioLink` composes
`SdioReceiver` and `SdioSender`, `MeshSetup` `GatewayProvisioner` and
`SourceBinding`, `TimeSync` `LaptopClock` and `TimeClock`, `SerialLine`
`SerialOutput` and `SerialHost`. `SdioReceiver` sees the image source through its
interface only: the job it took, `s_outstanding`, and the two steps in which it
ends a job (release of the ownership, then the callback), which are the steps
`Release` and `Report` of `ImageSource`.

### Abstractions

- Bytes are opaque. In the reassembly an image is named by its CRC32, and its
  chunks are values that images may share; `jpeg_is_224x224` is the set `JpegOk`.
  In the SDIO modules a chunk holds its image, or `Noise`.
- Time is relative. The gateway compares `now - last_activity` and
  `expires_at - now` with constants: the model keeps those differences and stops
  them at the threshold, so time needs no bound. Elsewhere a timeout is a step
  that may happen whenever the code waits.
- Reasons inside control messages, logs and statistics are left out.
- `send_mesh_message` with its inner retries is one step with three outcomes:
  sent, refused, or no completion (which is the transport fault). An ESP-Hosted
  call is `Deliver` or `Fault`; a fault may have delivered the message.
- The network loses and reorders messages and does not duplicate them: Mesh
  replay protection drops copies.
- Frame IDs are fresh within a run of the composed models: the C6's random seed
  does not meet an ID of the run and the P4's IDs, seeded from the uptime, count
  up. `ImageReassembly` alone does not assume that.
- In `ImageSource` a change of readiness is one step (`RouteChange`). Its two
  critical sections are in `SourceBinding`: the C6 has one core, so a callback of
  the Bluetooth task runs whole between two steps of the lower-priority main task
  or worker.
- `MeshSetup` has one subnet and one AppKey index, as this gateway hands out, so
  the searches of `restore_binding_from_mesh` and of the AppKey cache have one
  possible result. The address of a node stands for its device ID.
- In `TimeSync` the clocks run at the same rate, a constant apart. A microsecond
  and a millisecond are scaled: `UsPerMs` = 2.
- On the console line a byte is a unit: the magic, the rest of a header, or one
  of the JPEG's. A header's CRC tells a header from anything else, an image's CRC
  the image.
- Configuration: `CONFIG_SERVER_TEST_DROP_CHUNK_INDEX` is off.
- `delivered`, `reply`, `accepted`, `verified`, `acked` and `harm` are history
  variables or budgets; no code has them.

## What is checked

Run any of them here with `tlc -workers 2 -config X.cfg M`.

| Run (module, cfg) | Question | Properties |
|---|---|---|
| `slot` (MCImageReassembly, `ImageReassembly_slot`) | Can nodes that send anything in any order break or block the one slot, make it ask for the wrong chunks, or confuse its memory of completions? | `TypeOK`, `PendingImageIntact`, `IdleWindowExclusive`, `CompleteMeansVerified`, `NackNamesMissing`, `KeyRememberedOnce`, `OldestEvictedFirst`, `SessionIsolated`, `SlotReclaimed`, `SessionOnlyGrows` |
| `source` (MCImageSource, `ImageSource`) | Can a gateway that answers anything at any moment make the worker lose a wakeup or a verdict, mix two jobs, or run for ever? | `TypeOK`, `OneJobAtATime`, `NoLostWakeup`, `QuietAfterFault`, `ResponsePriority`, `EveryJobEnds` |
| `transfer` (MCMeshTransfer, `MeshTransfer`) | Whatever is late, lost, refused, aborted or restarted between the two ends: is an image acknowledged only if that image was verified? | `DeliveryKept` |
| `loss` (MCMeshTransfer, `MeshTransfer_loss`) | Is one lost message or one gateway restart always repaired? | `HarmRepaired` |
| `link` (MCSdioLink, `SdioLink`) | Is the lent buffer left alone, and is only the acknowledged frame taken for acknowledged? | `BufferIntact`, `AckedMeansAcked` |
| `clock` (MCSdioLink, `SdioLink_clock`) | Does a clock query disturb the lifecycle of a frame? | `TypeOK`, `LifecycleLossless` |
| `live` (MCSdioLink, `SdioLink_live`) | Does the P4's reservation end after a lost control, a C6 restart or a lost binding? | `ReservationEnds` |
| `time` (TimeSync, `TimeSync`) | Is a capture time right whatever is late, lost or refused, and is the mapping renewed before it expires? | `TypeOK`, `CaptureTimeAccurate`, `ClockKeptFresh` |
| `serial` (MCSerialLine, `SerialLine`) | Does a damaged console line cost only the damaged records, whatever came before the others, and does the laptop notice exactly those? | `FlagCoversRecord`, `ImagesAccounted`, `GapsAreLostRecords`, `IntactSaved`, `CandidateResolved` |
| `setup` (MCMeshSetup, `MeshSetup`) | Does every C6 become READY, only when wholly configured, whatever fails once in between? | `ReadyMeansConfigured`, `KeysAgree`, `OneOwnerEach`, `CompletionsKept`, `FaultStaysNotReady`, `SetupCompletes` |
| `mailbox` (MCSdioLink, `SdioLink_mailbox`) | the first finding below | `LifecycleLossless` violated |
| `pause` (MCSerialLine, `SerialLine_pause`) | the second finding below | `IntactSaved` violated |

Each definition's comment states the property in words. Each property of a
passing run has a mutant in `PROJECT.json`: an operator `Bug...` next to the
definition it replaces (a dropped guard, a missing reset, an off-by-one), under
which TLC finds the property violated with the same configuration.

### Bounds, and why they are enough

- **Gateway.** Images of 3 bytes in DATA messages of 2: one full and one short
  chunk, the two cases of `expected`, in a buffer of 4. Two images that share
  their first chunk, one of which is no 224x224 JPEG, so a mixture of two uploads
  fails the CRC and a valid CRC may still be rejected. Declared lengths 0 and 3 give
  an empty and a right descriptor; index 2 is out of range.
  There are two nodes, because isolation needs a foreign one, and one frame ID,
  which both use. Bitmaps hold one chunk, so that an END takes `ReplyMax` = 2 of
  them. The ring has two entries that live two ticks, so that it wraps within one
  life and entries of different age coexist; with two keys in all, a third key
  that evicts a live one is left to the theorem `OldestIsEvictedFirst`.
- **Source.** Two attempts, rounds and restarts (5 each in the code) give a first,
  a repeated and an exhausted one; two frame IDs let the counter wrap; the number
  of jobs is not bounded.
- **Transfer.** `LastFrame` = 3 allows two submissions, the second of which may
  meet what the first left behind. `transfer` has one OPEN, two repair rounds and one
  session (`OpenAttempts`, `RepairRounds`, `SessionRestarts`), so that the source is
  soon at its limits and gives up with messages under way. It has every trouble and one loss or
  gateway restart, with one message in flight in each direction: a message may be
  late by any number of retries, deadlines or restarts. That two messages in one
  direction overtake each other is left to the theorem `DeliveryIsKept`, which
  holds for any `MaxInFlight`. `loss` uses the code's own limits of five.
- **SDIO.** A queue and a channel of one place each, so that they overflow. `link`
  has two frames of one chunk and one harm: a loss, a damaged chunk or a fault at
  an arbitrary moment. `clock` and `live` have one frame of two chunks (a first and
  a later chunk differ in the code). In `clock` the picture may be no JPEG, and
  nothing goes wrong on the link; in `live` one control is lost, the C6 restarts
  once or the binding is lost once. Frames, images, times and harm run out in every
  run but those of the gateway and the source, which never stop; so the other runs
  switch the deadlock check off.
- **Clock.** Times are small numbers in the proportions that matter: a sample
  interval, a query timeout and a maximal age within a horizon of 11, of which one
  mapping is made, aged and renewed. One harm: a lost link, a restart, a refusal, a
  reservation, a late packet. Delays are bounded by `MaxDelay`, which exceeds the
  query timeout, so that answers come too late and to a later query.
- **Console line.** Three images: one being written while one is dropped because
  the slot is taken, and one after. The first JPEG has a magic inside. Two harms
  (a unit damaged or lost, or a write cut short), so that a second one meets what
  the first left in the parser, and one piece of other output. In `serial` an image
  comes during a record, right after it or after a pause of two deadlines (`Gaps`, 0
  and 8 ticks for a deadline of 4): by then the laptop is over both harms. Three
  records back to back take three ticks, less than a deadline. With pauses between
  these, `IntactSaved` is false, as `pause` shows with a single harm and a gap of 3
  ticks.
- **Set-up.** Three devices, two with the same ID, for a registry of two; one retry;
  one harm at any moment: a loss, a late answer, a refused or broken link, a
  refusal by the C6, a restart of either end, a fault. Giving up after the last
  retry takes two losses and is not reached, a refusal, which ends the chain the
  same way, is.
- **Views** leave out what no guard and no property of the run reads: replies of
  the last step, bytes of the buffer past the next chunk, histories.

### Fairness

- *Gateway:* the clock ticks, `timeout_task` polls (a loop with a one-second
  delay) and the callback task finishes. Nothing is assumed of the nodes.
- *Source:* the worker runs, its semaphore waits time out, the transfer deadline
  passes, a callback of the Bluetooth task returns, an announced restart happens.
  Nothing is assumed of the gateway, so `EveryJobEnds` holds against one that
  answers nonsense for ever.
- *Transfer:* both ends run and what the network does not lose arrives.
- *SDIO link:* every task that can run does; the transport and the Mesh binding
  come back (the reconnection loop and the stack retry for ever); the QUERY
  interval ends again and again, which is strong fairness of `ShouldQuery`
  because the worker is at the place that asks only now and then. Lost controls
  are bounded by `MaxHarm`, not by fairness.
- *Console line:* both tasks of the gateway run, the bytes of a record follow each
  other, the laptop's loop runs and its read times out. Nothing is assumed of the
  images or of the damage.
- *Set-up:* both ends run, an advertising device is heard again while it
  advertises, an opened link ends, a message that is not lost arrives, and the
  Mesh client's timeout expires when nothing is left of a request.
- `time` has no fairness: `ClockKeptFresh` bounds the age of the mapping, since
  time cannot pass while a query is due and the worker, which polls, may ask.

### Findings

`mailbox` violates `LifecycleLossless`. The comments at
`sdio_frame_receiver.c:120-125` and `:645-646` say that the one-slot mailbox
loses no lifecycle transition, since no BLE completion competes while a clock
request is outstanding. But `publish_time_done` clears `s_outstanding`
(`ble_mesh_image_source.c:453-457`) before `mesh_time_done_callback` writes
the mailbox (`sdio_frame_receiver.c:647`). In between the RX task, of higher
priority, may complete a one-chunk frame and put FRAME_COMPLETE there. The
clock's event overwrites it and the frame stays PENDING_BLE, which no timeout
looks at. `clock` is the passing counterpart: there the RX task does not run
inside a completion report.

`pause` violates `IntactSaved`. The comment at `receive_images.py:1061-1062` says of
the deadline of an incomplete record that "only resolving/replacing the candidate
resets it", the one at `:1041-1042` that it "avoids false expiry". But
`PartialRecordDeadline.observe` (`:851-863`) is called once per read (`:1063`) and
sees only whether some record is incomplete. One `feed` may resolve a truncated
record with the bytes of the next and leave that one incomplete: `observe` sees an
incomplete record as before and does not start anew. If most of the deadline had
passed, an intact record that is still arriving is expired and never saved. It takes a
record cut short, a pause a little shorter than the deadline and then an image.
The theorem `IntactAreSaved` is the passing counterpart: when the images come a
deadline apart, no harm to one record costs another; `serial` adds records that come
back to back.

### Known limits

Behaviours TLC showed while the models were written. The properties hold
without them, and each says where a run stops short.

- **A BUSY is not remembered.** A one-chunk frame that arrives during a clock
  query is refused with BUSY, which `cache_terminal_control` does not keep. If that
  BUSY is lost, the C6 answers the P4's QUERY with READY, which the P4 ignores
  while it holds a reservation (`sdio_frame_tx.c:233-246`), although the comment
  there counts on a replayed terminal result. So `ReservationEnds` does not hold
  with `ChunkCount` = 1, `LastRequest` = 1 and a loss. With two chunks the second
  one meets a cached FAILED, which is why `live` has two and no query. (A one-chunk
  frame too damaged to be read ends the same way: FAILED then names no frame and is
  not cached.)
- **A capture may discard a fresh mapping.** `sdio_frame_tx_capture_time_ms` reads
  the clock before it takes the lock; if a sample is accepted in between, the
  reading is older than the mapping and counts as expired. The capture has no time
  and a new query is due at once; no wrong time is handed out.
- **Init may store over a newer decision.** `restore_binding_from_mesh` decides
  first and stores later. A bind by the gateway in between is overwritten and the C6
  stays not READY until its next restart, unless the gateway configures it again.
  `SetupCompletes` excuses a C6 whose init was overtaken.

## What is proved

Every safety property that a passing run checks is a theorem as well: the run shows
it on a small instance, the theorem for all values of the constants that satisfy
the named assumptions. That includes the bounds: `MaxHarm`, `MaxInFlight`,
`LastFrame`, `Horizon` and their like are arbitrary, so the theorems speak of any
number of losses, messages, frames and of any time. `tlapm M_proofs.tla` checks the
proofs of a module; there are 32 theorems and 316 lemmas in eight modules.

| Module | Theorems (and the property each states) |
|---|---|
| `ImageReassembly_proofs` | `TypeCorrect` (`TypeOK`), `IdleWindowIsExclusive`, `PendingImageStaysIntact`, `KeyIsRememberedOnce`, `NacksCoverMissing`, `NacksNameMissing`, `SessionsOnlyGrow`, `SessionsAreIsolated`, `CompleteAlwaysMeansVerified`, `OldestIsEvictedFirst` |
| `ImageSource_proofs` | `TypeCorrect` (`TypeOK`), `OneJobIsHeld` (`OneJobAtATime`), `WakeupIsNotLost` (`NoLostWakeup`), `FaultKeepsQuiet` (`QuietAfterFault`), `TerminalResponsesKept` (`ResponsePriority`) |
| `MeshTransfer_proofs` | `DeliveryIsKept` (`DeliveryKept`: the refinement of `ImageDelivery`) |
| `SdioLink_proofs` | `TypeCorrect` (`TypeOK`), `BufferIsIntact` (`BufferIntact`), `MailboxLossless` (`LifecycleLossless`), `AckedIsAcked` (`AckedMeansAcked`) |
| `MeshSetup_proofs` | `IdentitiesUnique` (`OneOwnerEach`), `CompletionsRegistered` (`CompletionsKept`), `KeysMatch` (`KeysAgree`), `ReadyIsConfigured` (`ReadyMeansConfigured`), `FaultNeverReady` (`FaultStaysNotReady`) |
| `TimeSync_proofs` | `TypeCorrect` (`TypeOK`), `CaptureTimes` (`CaptureTimeAccurate`), `ClockRenewed` (`ClockKeptFresh`) |
| `SerialLine_proofs` | `NoImageLost` (`ImagesAccounted`), `FlagCovers` (`FlagCoversRecord`), `GapsAreLosses` (`GapsAreLostRecords`) |
| `SerialRecovery_proofs` | `IntactAreSaved` (`IntactSaved`) |

### Assumptions

They are named `ASSUME`s of the modules, and TLC evaluates them in the runs.

- `ImageReassembly`: sizes are positive, an image fits the buffer, chunk indexes
  fit a byte and `ReplyMax` bitmaps the whole buffer (`SizeAssumption`); what the
  callback's parser lets through (`WireAssumption`); a CRC names one image
  (`ImageAssumption`).
- `ImageSource`: limits of retries are positive and an image has a length.
- `MeshTransfer`: the images the source takes are ones the gateway has room for
  (`submit` refuses larger ones).
- `SdioLink`: frame IDs and chunk counts are positive, and BLE ID 0 is no frame's.
- `TimeSync`: intervals are numbers, the query timeout is positive.
- `SerialLine`: no image contains a valid header. Its bytes can, of course, but the
  header's CRC32 would have to match; that they contain the magic is allowed, and
  the run has such an image.
- Everywhere: the null values (`NoSession`, `None`, `NoJob`, `NoQuery`...), which
  stand for an invalid flag or a null pointer, are no values.

Three theorems have a hypothesis of their own. `FlagCovers` needs `SlotCount` = 1, as
`SERIAL_SLOT_COUNT` is: with two slots the end of one record would clear the flag
of the next. `MailboxLossless` needs `"race" \notin Trouble`: with that race the
property is false, which is the first finding, and the theorem says that the race
is the *only* way to lose an event. `IntactAreSaved` needs `ApartEnough`: one slot, a
deadline of two ticks or more, where a tick is the longest a record takes (the
code's deadline is three wire times), and images a deadline apart. TLC
violates `IntactSaved` when the deadline is one tick, and when a gap is shorter than
the deadline, which is the second finding; the theorem says that with one slot those
are the only ways to lose an intact record, however many others are harmed.

### Arguments

Few of the properties are inductive. What had to be added says why the code is
right, so it is worth reading.

- **Reassembly.** `TypeOK`, `IdleWindowExclusive` and `PendingImageIntact` are
  inductive: test and set are under one mutex, and no action that writes the buffer
  is enabled while a publication is pending. `NacksCoverMissing` is arithmetic: a
  chunk lies in exactly one of the windows (`ChunkHasWindow`). The properties of the
  ring rest on `RingStep` and `RingAgeStep`: only END stores, in the slot that is
  next, which makes it the youngest; expiry and invalidation only remove.
  `SessionIsolated` and `SessionOnlyGrows` go through each handler under the type
  invariant.
- **Source.** `SourceInv` adds to the types where the worker is with which job
  (`JobFitsStep`: `active` is set exactly between `begin_active_...` and the section
  that ends it) and extends `NoLostWakeup` back to the drain of the semaphore
  (`WakeupKept`). That is the reason for the order in `clear_gateway_response`:
  once the mailbox has been emptied, *after* the semaphore, a response has its
  wakeup.
- **Transfer.** `TransferInv` holds of the two ends and the messages between them. A
  frame ID stands for one accepted image (`UsedOnce`); the source's two places hold
  different accepted images (`JobsAccepted`, `Places`); an OPEN under way describes
  an accepted image, so the slot assembles one (`MessagesRight`, `GatewayRight`); the
  ring remembers verified frames only, so every COMPLETE under way names one; and
  one that passes `FitsFrame` is therefore about the worker's image
  (`FrameNamesItem`, `VerdictRight`). With it each step is a step of the promise or
  none of its business: a submission is `Accept`, a completing END `Verify`, a report
  `Acknowledge` or `GiveUp`, the restart `Restart`. `UsedOnce` is where the
  abstraction of fresh frame IDs enters; without it a COMPLETE of an earlier image
  could pass for a later one's.
- **SDIO link.** `OneToken` is the heart of `BufferIntact`: between its verification
  and the end of its job a frame is at exactly one place (RX task, mailbox, worker,
  source, completion), and the buffer is its buffer. `TimeApart` keeps the clock
  query out of the mailbox meanwhile, which gives `LifecycleLossless`. For
  `AckedMeansAcked`, `OnePlace` says that the first chunk of a frame is in one place
  on its way to the C6, so a frame that was handled once cannot start again;
  then every SERVER_ACKED said or cached anywhere (`AckInv`: completion, mailbox,
  terminal cache, the worker's hands, the channel) stays true until the P4 hears it.
- **Set-up.** `OneAttempt` lists the five phases of a provisioning link with the
  events still to come in each; the check of `RECV_UNPROV_ADV_PKT` holds through
  the first three. From it follow `OneOwnerEach` and `CompletionsKept`. `KeyInv`
  says which key is fixed at which step of the gateway's set-up; `ChainInv` that a
  request, a status and what NVS holds imply all earlier steps; `ReadyInv` and
  `FaultInv` carry a readiness that was computed but not yet stored.
- **Clock.** `AccuracyInv` follows the time along its way: a packet is behind by its
  way at most, so is the anchor; each reading in an answer was right at some time
  between query and now, and the mapping, made of the midpoints, is off by half the
  measured delay at most (`Quotients` and the lemmas after it are the arithmetic of
  the code's divisions). `RenewalInv` bounds the next query by the queries missed so
  far.
- **Console line.** `GatewayInv` counts slots and images and orders the sequence
  numbers. `LineInv` says that the headers in the parser's buffer and on the line
  together (`Wire`) have rising numbers between the last one saved and the last one
  sent, whatever is cut out, damaged or discarded; so a saved number is new, and
  what was skipped is a record that has ended. The position the parser finds next
  is a minimum of a set of numbers; that it exists is proved by `LeastNat`.
- **An intact record.** `RecoveryInv` has two phases. From a tick after a record until
  the next (`LineStill`), the laptop gets over whatever was cut short: its timer, if it runs,
  has run at least as long as the line has been still, so it expires before the
  next image may come. While a record comes, and just
  after (`RecordComing`), either what was
  before it is forgotten (no header in the buffer, or one whose record is being
  given up or has met its deadline) and the record arrives whole behind it, or the timer
  is fresh and the record, what is in the buffer and what is on the line, is the
  only one with a header. A turn of the parser that looks at all of it saves it
  (`RecordFed`); until then no turn gives up a byte of it (`ComingLaptop`).

### What only TLC checks

- Liveness: `SlotReclaimed`, `EveryJobEnds`, `HarmRepaired`, `ReservationEnds`,
  `CandidateResolved`, `SetupCompletes`. The prover does not handle fairness.
- The proofs use no induction over data: chunk and ring arithmetic is done with
  division and remainder, sequences with the library's facts about `Append`, `\o` and
  `SubSeq`, and least elements with the well-foundedness of the numbers.

## What is not modelled

- At the C6: unbinding, key deletion and node reset (this gateway never sends
  them), the search of the AppKey cache and the two formats of the stored binding.
  At both ends, a Mesh or NVS call that fails at once.
- The gateway's parser of time packets (`process_parser`), the Wi-Fi and HTTP
  adapters' sockets, the start-up order.
- The camera, the classifier, the viewer, file output, drivers and training
  scripts: I/O or arithmetic of another kind.
- A crash between the two ends of a provisioning. `LinkCompletes` provisions the C6
  and enters it in the gateway's table in one step. The two do it at different times
  inside the Mesh stacks; a crash of either in between is left out of
  `SetupCompletes`.
- A C6 that crashes during a transfer. `ImageSource` restarts only after a
  transport fault, when its worker has reported the job, so `transfer` and
  `DeliveryIsKept` do not speak of a C6 that loses power in the middle of one.
  `live` has a restart at any moment for what the P4 sees of it.
- The clock's worker polls without delay. `ClockKeptFresh` takes the worker's poll
  interval (`SDIO_FRAME_TX_POLL_MS`, 250 ms) to be nothing against the intervals of
  seconds it bounds.
- The console line without restarts. A restart of the gateway, which begins again
  with sequence number 1, the wrap of the 32-bit number and a file that the laptop
  cannot write are not in `SerialLine`.
- Most of the repository's lines: the vendored ESP-Hosted coprocessor
  (`c6_hosted`, and its copy in `c6_sdio_ble`) with its generated protobuf code, and
  the camera example of `p4_data`. They carry no protocol of this system; what the
  two ends of SDIO see of ESP-Hosted is in `SdioLink`. Of the programs' own code
  the map covers the protocol paths named above.
- The link-level transport of ESP-Hosted and the Mesh stack are outside the
  repository's own code and modelled from how it uses them.
- `HarmRepaired` assumes that no message overtakes another. An END (one segment)
  that overtakes a DATA is answered with NACKs of chunks that are still on
  their way, which costs repair rounds without any loss.

## Plan

The model is built: reassembly, source, transfer, SDIO link, set-up, clock and
console line, and the safety of each is proved. What is left, most important first:

1. An abstract specification of the SDIO link (a frame reserved is reported
   acknowledged, failed or lost with the C6), refined by `SdioLink`; `AckInv` is most
   of what the refinement needs.
2. That what `SdioReceiver` assumes of the source is what `ImageSource` does, as a
   refinement between their interfaces.
