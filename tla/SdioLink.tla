------------------------------- MODULE SdioLink -------------------------------
(***************************************************************************)
(* The P4's sender and the C6's receiver joined by ESP-Hosted: what        *)
(* SdioSender sends, SdioReceiver's RX task handles one message at a time, *)
(* and the C6's controls and clock samples come back in order.  The link   *)
(* itself, ESP-Hosted's transport over SDIO, is outside the repository's   *)
(* own code and modelled from how both ends use it.                        *)
(***************************************************************************)
EXTENDS Integers, Sequences

CONSTANTS
  LastFrame, Image, JpegOk, ChunkCount, BleFrame, LastRequest, EventQueue,
  ChannelMax, Noise, None,
  Trouble,  \* what may happen: "damage", "loss", "fault", "restart",
            \* "mesh", "race"
  MaxHarm   \* and how often, together, the races apart

ASSUME LinkAssumption ==
  /\ LastFrame \in Nat \ {0} /\ LastRequest \in Nat
  /\ 0 \notin BleFrame
  /\ ChunkCount \in Nat \ {0}
  /\ EventQueue \in Nat \ {0} /\ ChannelMax \in Nat
  /\ JpegOk \subseteq Image /\ Noise \notin Image
  /\ None \notin [frame : 1 .. LastFrame, image : Image]
  /\ MaxHarm \in Nat

VARIABLES
  state, first, next, ble, silent, buffer, terminal, events, lifecycle,
  readyEdge, rx, work, ready, outstanding, job, finished, toP4, acked

VARIABLES
  up, remote, reserved, txComplete, queryDue, nextFrame, nextRequest, asked, clockValid,
  txQueue, app, tx

VARIABLES
  started,  \* the C6 has started and the P4 has not been told
  harm      \* what MaxHarm bounds, so far

C6 == INSTANCE SdioReceiver
        WITH P4Frame <- 1 .. LastFrame, Request <- 1 .. LastRequest
P4 == INSTANCE SdioSender

c6Vars == <<state, first, next, ble, silent, buffer, terminal, events,
            lifecycle, readyEdge, rx, work, ready, outstanding, job, finished,
            acked>>
p4Vars == <<up, remote, reserved, txComplete, queryDue, nextFrame, nextRequest, asked,
            clockValid, txQueue, app, tx>>
vars == <<c6Vars, p4Vars, toP4, started, harm>>

Init ==
  /\ C6!Init
  /\ P4!Init
  /\ started = TRUE /\ harm = 0

Unharmed == UNCHANGED <<started, harm>>

Happens(trouble) ==
  /\ trouble \in Trouble
  /\ harm < MaxHarm
  /\ harm' = harm + 1

-----------------------------------------------------------------------------
(* From the P4 to the C6 *)

\* What the worker is about to send, as the C6's RX task gets it
Arrives(good) ==
  CASE tx.pc = "sendQuery" -> C6!QueryArrives(tx.frame)
    [] tx.pc = "sendTime" -> C6!TimeQueryArrives(tx.id)
    [] tx.pc = "sendChunk" ->
         C6!ChunkArrives([frame |-> tx.job.frame, image |-> tx.job.image,
                          index |-> tx.index, good |-> good])

\* A send is a remote procedure call: ESP_OK says that the C6 has the message.
Deliver ==
  /\ P4!Sending
  /\ P4!Sent
  /\ Arrives(TRUE)
  /\ Unharmed

\* A chunk arrives with its payload damaged, or so that it is no chunk.
DeliverDamaged ==
  /\ tx.pc = "sendChunk"
  /\ P4!Sent
  /\ Arrives(FALSE) \/ C6!BadChunk(0) \/ C6!BadChunk(tx.job.frame)
  /\ Happens("damage") /\ UNCHANGED started

\* The send returns an error, whether the message has arrived or not.
Fault ==
  /\ P4!Sending
  /\ P4!SendFails
  /\ Arrives(TRUE) \/ UNCHANGED <<c6Vars, toP4>>
  /\ Happens("fault") /\ UNCHANGED started

-----------------------------------------------------------------------------
(* From the C6 to the P4: events that nobody acknowledges *)

IsSample(m) == "id" \in DOMAIN m

Hear ==
  /\ toP4 # <<>>
  /\ LET m == Head(toP4)
     IN  IF IsSample(m) THEN P4!HearSample(m) ELSE P4!HearControl(m)
  /\ toP4' = Tail(toP4)
  /\ Unharmed
  /\ UNCHANGED c6Vars

LoseAnswer ==
  /\ toP4 # <<>>
  /\ toP4' = Tail(toP4)
  /\ Happens("loss") /\ UNCHANGED started
  /\ UNCHANGED <<c6Vars, p4Vars>>

-----------------------------------------------------------------------------
(* Starts, faults and the Mesh *)

TransportUp ==
  /\ P4!TransportUp
  /\ Unharmed
  /\ UNCHANGED <<c6Vars, toP4>>

TransportDown ==
  /\ P4!TransportDown
  /\ Happens("fault") /\ UNCHANGED started
  /\ UNCHANGED <<c6Vars, toP4>>

\* The P4 hears that the C6 has started.
HearStart ==
  /\ started /\ up
  /\ P4!C6Initialized
  /\ started' = FALSE
  /\ UNCHANGED <<c6Vars, toP4, harm>>

\* The C6 forgets everything, and what was on its way to the P4 is lost.
C6Restarts ==
  /\ Happens("restart")
  /\ state' = "IDLE" /\ first' = None /\ next' = 0 /\ ble' = 0
  /\ silent' = FALSE
  /\ buffer' = [i \in C6!Index |-> Noise]
  /\ terminal' = None
  /\ events' = <<>> /\ lifecycle' = None /\ readyEdge' = FALSE
  /\ rx' = C6!At("idle") /\ work' = C6!At("idle")
  /\ ready' = FALSE /\ outstanding' = FALSE /\ job' = None /\ finished' = None
  /\ toP4' = <<>>
  /\ started' = TRUE
  /\ UNCHANGED <<acked, p4Vars>>

\* The source binds to the gateway, and loses it in the middle of a job; what
\* else can unbind it is ImageSource's.
MeshComes == ~ready /\ C6!ReadyChanges /\ Unharmed /\ UNCHANGED p4Vars

MeshGoes ==
  /\ ready /\ job # None
  /\ C6!ReadyChanges
  /\ Happens("mesh")
  /\ UNCHANGED <<p4Vars, started>>

-----------------------------------------------------------------------------
(* The two chips *)

Submits ==
  /\ \E image \in Image : P4!SubmitEvent(image)
  /\ Unharmed
  /\ UNCHANGED <<c6Vars, toP4>>

AppQueues == P4!QueueJob /\ Unharmed /\ UNCHANGED <<c6Vars, toP4>>
P4Works == P4!TxStep /\ Unharmed /\ UNCHANGED <<c6Vars, toP4>>
\* Unless "race" is among the troubles, the RX task does not run between the
\* two halves of a completion report.
RxWorks ==
  /\ "race" \in Trouble \/ finished = None
  /\ C6!RxStep
  /\ Unharmed
  /\ UNCHANGED p4Vars

StatusWorks == C6!WorkStep /\ Unharmed /\ UNCHANGED p4Vars
SourceFinishes == C6!SourceFinishes /\ Unharmed /\ UNCHANGED p4Vars
SourceReports == C6!SourceReports /\ Unharmed /\ UNCHANGED p4Vars

\* The P4 sends a frame's chunks without a pause, an assembly that times out
\* is one that it has stopped feeding.
Feeding ==
  /\ tx.pc \in {"check", "sendChunk"}
  /\ tx.job.frame = C6!ActiveFrame
  /\ P4!JobActive(tx.job.frame)

Silence == ~Feeding /\ C6!Tick /\ Unharmed /\ UNCHANGED p4Vars

Next ==
  \/ Deliver \/ DeliverDamaged \/ Fault
  \/ Hear \/ LoseAnswer
  \/ TransportUp \/ TransportDown \/ HearStart \/ C6Restarts
  \/ MeshComes \/ MeshGoes
  \/ Submits \/ AppQueues \/ P4Works
  \/ RxWorks \/ StatusWorks \/ SourceFinishes \/ SourceReports \/ Silence

Spec == Init /\ [][Next]_vars

\* Every task that can run does, the transport comes back, and the Mesh too;
\* the interval after which an unready C6 is asked again ends again and again.
Fairness ==
  /\ WF_vars(Deliver) /\ WF_vars(Hear)
  /\ WF_vars(TransportUp) /\ WF_vars(HearStart) /\ WF_vars(MeshComes)
  /\ WF_vars(AppQueues) /\ WF_vars(P4Works)
  /\ SF_vars(P4!ShouldQuery /\ Unharmed /\ UNCHANGED <<c6Vars, toP4>>)
  /\ WF_vars(RxWorks) /\ WF_vars(StatusWorks)
  /\ WF_vars(SourceFinishes) /\ WF_vars(SourceReports) /\ WF_vars(Silence)

FairSpec == Spec /\ Fairness

-----------------------------------------------------------------------------
(* Properties *)

\* Type invariant of the receiver, under the P4's own messages.
TypeOK == C6!TypeOK

BufferIntact == C6!BufferIntact

\* The comment at sdio_frame_receiver.c:120 says that the one-slot mailbox
\* loses neither transition of a frame.
LifecycleLossless == [][C6!MailboxKept]_vars

\* Only SERVER_ACKED means that the server has the frame: the P4 takes a
\* frame for delivered only if the source has reported that very frame
\* acknowledged, whatever is lost, cached, repeated, late or restarted.
AckedMeansAcked ==
  [][reserved # 0 /\ reserved' = 0 /\ remote' = "SERVER_ACKED"
       => reserved \in acked]_vars

\* A reserved READY window is always given back: the P4 ends up hearing what
\* became of its frame, or that the C6 has restarted.
ReservationEnds == reserved # 0 ~> reserved = 0
=============================================================================
