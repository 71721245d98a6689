---------------------------- MODULE MeshTransfer ----------------------------
(***************************************************************************)
(* One C6 image source and the Mesh gateway, joined by the network: what   *)
(* ImageSource sends, ImageReassembly receives, and its replies come back. *)
(*                                                                         *)
(* The network loses and reorders messages (an END is one segment and can  *)
(* overtake a segmented DATA) and does not duplicate them (Mesh replay     *)
(* protection); equal messages in flight together count as one.            *)
(***************************************************************************)
EXTENDS Integers, FiniteSets

CONSTANTS
  \* of the gateway
  Node, Detected, RxTime, Crc, Payload, Bytes, ImageLen, JpegOk, WireLen,
  WireIndex, WireBytes, DataBytes, MaxBytes, NackBits, ReplyMax, CacheEntries,
  FrameTimeout, CacheTime, NoSession, NoEntry, NoPublication, Unwritten,
  \* of the source
  LastFrame, Image, OpenAttempts, RepairRounds, SessionRestarts, NoJob,
  \* of this instance
  MaxInFlight,  \* messages in flight in each direction
  MaxHarm,      \* messages lost and gateway restarts, together
  Trouble       \* what else may happen: "time", "idle", "fault", "route",
                \* "timeout", "race"

VARIABLES
  session, jpeg, cache, nextCache, idleReserved, publication, delivered, reply

VARIABLES
  ready, faulty, outstanding, nextFrame, queue, pc, job, phase, restarts,
  round, chunk, status, expired, route, active, response, nacks, timeAnswer,
  sem, giving

VARIABLES
  toGateway, toSource,  \* messages in flight
  harm,                 \* messages lost and gateway restarts so far
  accepted, verified, acked  \* history: items submitted, completed by the
                             \* gateway, reported as acknowledged

Gateway == INSTANCE ImageReassembly
             WITH Source <- {Node}, FrameId <- 1 .. LastFrame

C6 == INSTANCE ImageSource
        WITH SourceDataBytes <- DataBytes, TimeId <- {}, NackBase <- {},
             NackBit <- {}

\* Submit takes images that the gateway's buffer has room for; the null values
\* are no jobs and no completions.
ASSUME TransferAssumption ==
  /\ LastFrame \in Nat \ {0}
  /\ Image \subseteq Gateway!Descriptor
  /\ NoJob \notin C6!ImageJob
  /\ NoPublication \notin Gateway!Publication

gatewayVars == <<session, jpeg, cache, nextCache, idleReserved, publication,
                 delivered, reply>>

sourceVars == <<ready, faulty, outstanding, nextFrame, queue, pc, job, phase,
                restarts, round, chunk, status, expired, route, active,
                response, nacks, timeAnswer, sem, giving>>

network == <<toGateway, toSource, harm>>
history == <<accepted, verified, acked>>
vars == <<gatewayVars, sourceVars, network, history>>

ItemOf(frame, desc) == [frame |-> frame, desc |-> desc]

Init ==
  /\ Gateway!Init
  /\ C6!Init /\ ready /\ nextFrame = 1
  /\ toGateway = {} /\ toSource = {} /\ harm = 0
  /\ accepted = {} /\ verified = {} /\ acked = {}

-----------------------------------------------------------------------------
(* The source *)

\* Frame IDs are used once: a run is shorter than 65535 frames.
Submit(d) ==
  /\ nextFrame < LastFrame
  /\ C6!Submit(d)
  /\ accepted' = accepted \cup {ItemOf(nextFrame, d)}
  /\ UNCHANGED <<gatewayVars, network, verified, acked>>

\* Unless "race" is among the troubles, the worker (of lower priority than the
\* Bluetooth task) does not run inside a callback, and no response arrives in
\* the instant in which clear_gateway_response is half done.
Uninterrupted == "race" \in Trouble \/ ~giving
MayInterrupt == "race" \in Trouble \/ pc \notin {"drain", "reset"}

SourceSends ==
  /\ Uninterrupted
  /\ Cardinality(toGateway) < MaxInFlight
  /\ C6!SendDone
  /\ toGateway' = toGateway \cup {C6!Outgoing}
  /\ UNCHANGED <<gatewayVars, toSource, harm, history>>

\* The message of a failed send may have been transmitted all the same.
SourceFaults ==
  /\ "fault" \in Trouble
  /\ \/ C6!SendFault /\ toGateway' \in {toGateway, toGateway \cup {C6!Outgoing}}
     \/ C6!SendRefused /\ UNCHANGED toGateway
  /\ Cardinality(toGateway') <= MaxInFlight
  /\ UNCHANGED <<gatewayVars, toSource, harm, history>>

\* Nothing under way could still answer the worker.
Silence ==
  /\ toGateway = {} /\ toSource = {}
  /\ ~giving /\ publication = NoPublication

\* Five seconds without an answer; unless "timeout" is among the troubles
\* that is longer than any message takes.
SourceTimesOut ==
  /\ "timeout" \in Trouble \/ Silence
  /\ C6!WaitTimeout
  /\ UNCHANGED <<gatewayVars, network, history>>

SourceReports ==
  /\ C6!Report
  /\ acked' = IF status = "ok" THEN acked \cup {ItemOf(job.frame, job.desc)}
              ELSE acked
  /\ UNCHANGED <<gatewayVars, network, accepted, verified>>

SourceWorks ==
  /\ \/ C6!Take \/ C6!Begin \/ C6!Clear \/ C6!Woken \/ C6!Read
     \/ C6!Accepted \/ C6!Poll \/ C6!Repaired \/ C6!Finish \/ C6!Flush
     \/ C6!Release
  /\ Uninterrupted
  /\ UNCHANGED <<gatewayVars, network, history>>

CallbackReturns ==
  /\ C6!Give
  /\ UNCHANGED <<gatewayVars, network, history>>

SourceTroubled ==
  /\ \/ "route" \in Trouble /\ C6!RouteChange
     \/ "time" \in Trouble /\ C6!Expire
  /\ UNCHANGED <<gatewayVars, network, history>>

\* The random seed does not meet a frame ID of this run.
SourceRestarts ==
  /\ \E seed \in nextFrame .. LastFrame : C6!Restart(seed)
  /\ UNCHANGED <<gatewayVars, network, history>>

SourceHears(r) ==
  /\ MayInterrupt
  /\ C6!RespondImage(r)
  /\ toSource' = toSource \ {r}
  /\ UNCHANGED <<gatewayVars, toGateway, harm, history>>

-----------------------------------------------------------------------------
(* The gateway and the network *)

Answers ==
  /\ toSource' = toSource \cup reply'
  /\ Cardinality(toSource') <= MaxInFlight

GatewayHears(m) ==
  /\ \/ Gateway!Receive(Node, m)
     \/ Gateway!ReceiveWhileReserved(Node, m)
  /\ toGateway' = toGateway \ {m}
  /\ Answers
  /\ verified' = IF publication' # NoPublication
                 THEN verified \cup {ItemOf(publication'.frame, publication'.desc)}
                 ELSE verified
  /\ UNCHANGED <<sourceVars, harm, accepted, acked>>

GatewayWorks ==
  /\ \/ Gateway!Publish
     \/ "time" \in Trouble /\ (Gateway!PollTimeout \/ Gateway!Tick)
     \/ "idle" \in Trouble /\ (Gateway!TryBeginIdleWork \/ Gateway!EndIdleWork)
  /\ Answers
  /\ UNCHANGED <<sourceVars, toGateway, harm, history>>

Lose ==
  /\ \/ \E m \in toGateway : toGateway' = toGateway \ {m} /\ UNCHANGED toSource
     \/ \E r \in toSource : toSource' = toSource \ {r} /\ UNCHANGED toGateway
  /\ UNCHANGED gatewayVars

GatewayRestarts ==
  /\ Gateway!Reboot
  /\ UNCHANGED <<toGateway, toSource>>

Harm ==
  /\ harm < MaxHarm
  /\ harm' = harm + 1
  /\ Lose \/ GatewayRestarts
  /\ UNCHANGED <<sourceVars, history>>

SourceSteps ==
  \/ SourceSends \/ SourceFaults \/ SourceTimesOut \/ SourceReports
  \/ SourceWorks \/ CallbackReturns \/ SourceTroubled \/ SourceRestarts
  \/ \E r \in toSource : SourceHears(r)

Next ==
  \/ \E d \in Image : Submit(d)
  \/ SourceSteps
  \/ \E m \in toGateway : GatewayHears(m)
  \/ GatewayWorks
  \/ Harm

Spec == Init /\ [][Next]_vars

\* Both ends run and the network delivers what it does not lose.
Fairness ==
  /\ WF_vars(SourceSends) /\ WF_vars(SourceTimesOut) /\ WF_vars(SourceReports)
  /\ WF_vars(SourceWorks) /\ WF_vars(CallbackReturns)
  /\ WF_vars(\E r \in toSource : SourceHears(r))
  /\ WF_vars(\E m \in toGateway : GatewayHears(m))
  /\ WF_vars(Gateway!Publish /\ GatewayWorks)

FairSpec == Spec /\ Fairness

-----------------------------------------------------------------------------
(* Properties *)

\* The images the source has taken over and not yet reported.
Owed == {ItemOf(j.frame, j.desc) : j \in {queue, job} \ {NoJob}}

Promise == INSTANCE ImageDelivery
             WITH Item <- [frame : 1 .. LastFrame, desc : Image], owed <- Owed

\* The protocol implements ImageDelivery: an image is acknowledged to the
\* application only if the gateway verified the same image under the same
\* frame ID, and the gateway verifies nothing the source did not submit.
DeliveryKept == Promise!Spec

\* Whatever single message is lost, or whenever the gateway restarts once, a
\* valid image is acknowledged, if no message overtakes another, no answer is
\* slower than the timeout and there is no other trouble.
HarmRepaired ==
  \A d \in Image :
    (queue # NoJob /\ queue.desc = d /\ d.crc \in JpegOk)
      ~> (pc = "report" /\ status = "ok" /\ job.desc = d)
=============================================================================
