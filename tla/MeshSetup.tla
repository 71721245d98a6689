------------------------------ MODULE MeshSetup ------------------------------
(***************************************************************************)
(* From an advertising C6 to a READY one: GatewayProvisioner and           *)
(* SourceBinding joined by the Mesh stacks, of which one provisioning link *)
(* and one configuration request per node are modelled.  Requests and      *)
(* statuses may be lost or late, a link may fail, and both ends restart.   *)
(***************************************************************************)
EXTENDS Integers, Sequences, FiniteSets

CONSTANTS
  Uuid, MaxNodes, Retries, NoUuid, NoKey,
  NoMessage,
  MaxHarm  \* bound: losses, late answers, failed links, restarts and faults

ASSUME MeshSetupAssumption ==
  /\ MaxNodes \in Nat \ {0} /\ MaxHarm \in Nat
  /\ Retries \in Nat
  /\ NoUuid \notin Uuid /\ NoKey \notin Nat

VARIABLES
  table, storedKey, stackKey, modelBound, setup, appKey, gatewayReady, nodes,
  attempt, asked,
  kept, applied, task, bound, healthy, ready, held

VARIABLES
  start,     \* the device whose link the stack is asked to open
  link,      \* the device of the open link
  linkDone,  \* that link is about to close
  events,    \* the stack's events that the gateway has not yet handled
  request,   \* by C6: the configuration request on its way
  status,    \* by C6: the answer on its way
  overtaken, \* C6s whose init a callback interrupted since they started
  harm       \* what MaxHarm bounds, so far

Gateway == INSTANCE GatewayProvisioner
C6 == INSTANCE SourceBinding

gatewayVars == <<table, storedKey, stackKey, modelBound, setup, appKey,
                 gatewayReady, nodes, attempt, asked>>
sourceVars == <<kept, applied, task, bound, healthy, ready, held>>
linkVars == <<start, link, linkDone, events>>
airVars == <<request, status>>
vars == <<gatewayVars, sourceVars, linkVars, airVars, overtaken, harm>>

Init ==
  /\ Gateway!GatewayInit
  /\ C6!SourceInit
  /\ start = NoUuid /\ link = NoUuid /\ linkDone = FALSE /\ events = <<>>
  /\ request = [u \in Uuid |-> NoMessage] /\ status = [u \in Uuid |-> NoMessage]
  /\ overtaken = {} /\ harm = 0

Harmed == harm < MaxHarm /\ harm' = harm + 1

\* What the gateway asks anew is on its way.
Sends ==
  request' = [u \in Uuid |->
    IF asked'[u] \notin {0, asked[u]} THEN [step |-> asked'[u], key |-> appKey']
    ELSE request[u]]

-----------------------------------------------------------------------------
(* The gateway *)

\* A key made up now is unlike those of earlier boots, which harm numbers.
SetUp ==
  /\ \/ Gateway!EnabledBound \/ Gateway!EnabledUnbound(harm + 1)
     \/ Gateway!KeyAdded \/ Gateway!ModelBound
  /\ Sends
  /\ UNCHANGED <<sourceVars, linkVars, status, overtaken, harm>>

\* A device that is not provisioned advertises.
Advertises(u) ==
  /\ ~kept[u].provisioned
  /\ Gateway!StartAttempt(u)
  /\ start' = u
  /\ UNCHANGED <<sourceVars, link, linkDone, events, airVars, overtaken, harm>>

\* The gateway handles the next event of its stack.
EventHandled ==
  /\ events # <<>>
  /\ IF Head(events).kind = "complete"
     THEN Gateway!Complete(Head(events).uuid)
     ELSE Gateway!EndAttempt
  /\ events' = Tail(events)
  /\ Sends
  /\ UNCHANGED <<sourceVars, start, link, linkDone, status, overtaken, harm>>

\* The answer to the request outstanding, or one that comes too late
StatusArrives(u) ==
  /\ status[u] # NoMessage
  /\ IF asked[u] # status[u].step THEN UNCHANGED gatewayVars
     ELSE IF status[u].ok THEN Gateway!StepSucceeds(u, status[u].step)
     ELSE Gateway!StepRefused(u, status[u].step)
  /\ Sends
  /\ status' = [status EXCEPT ![u] = NoMessage]
  /\ UNCHANGED <<sourceVars, linkVars, overtaken, harm>>

\* No answer in time: nothing is left of the request, or it is late.
TimesOut(u) ==
  /\ Gateway!StepTimesOut(u)
  /\ IF request[u] = NoMessage /\ status[u] = NoMessage
     THEN UNCHANGED harm ELSE Harmed
  /\ request' = IF asked'[u] = 0 THEN request
                ELSE [request EXCEPT ![u] = [step |-> asked[u], key |-> appKey]]
  /\ UNCHANGED <<sourceVars, linkVars, status, overtaken>>

GatewayRestarts ==
  /\ Harmed
  /\ Gateway!GatewayReboot
  /\ start' = NoUuid /\ link' = NoUuid /\ linkDone' = FALSE /\ events' = <<>>
  /\ UNCHANGED <<sourceVars, airVars, overtaken>>

-----------------------------------------------------------------------------
(* The link and the air *)

Event(kind, u) == Append(events, [kind |-> kind, uuid |-> u])

LinkOpens ==
  /\ start # NoUuid /\ link = NoUuid
  /\ link' = start /\ start' = NoUuid
  /\ UNCHANGED <<gatewayVars, sourceVars, linkDone, events, airVars, overtaken, harm>>

\* PROV_DEV_WITH_ADDR_COMP with an error
LinkRefused ==
  /\ start # NoUuid
  /\ IF link # NoUuid THEN UNCHANGED harm ELSE Harmed
  /\ events' = Event("refused", start) /\ start' = NoUuid
  /\ UNCHANGED <<gatewayVars, sourceVars, link, linkDone, airVars, overtaken>>

\* The device is provisioned; COMPLETE comes before the link closes.
LinkCompletes ==
  /\ link # NoUuid /\ ~linkDone
  /\ Gateway!StackProvisions(link)
  /\ C6!Provisioned(link)
  /\ overtaken' = IF C6!Undecided(link) THEN overtaken \cup {link} ELSE overtaken
  /\ events' = Event("complete", link)
  /\ linkDone' = TRUE
  /\ UNCHANGED <<start, link, airVars, harm>>

LinkFails ==
  /\ link # NoUuid /\ ~linkDone
  /\ Harmed
  /\ linkDone' = TRUE
  /\ UNCHANGED <<gatewayVars, sourceVars, start, link, events, airVars, overtaken>>

LinkCloses ==
  /\ link # NoUuid /\ linkDone
  /\ events' = Event("close", link)
  /\ link' = NoUuid /\ linkDone' = FALSE
  /\ UNCHANGED <<gatewayVars, sourceVars, start, airVars, overtaken, harm>>

MessageLost(u) ==
  /\ Harmed
  /\ \/ /\ request[u] # NoMessage
        /\ request' = [request EXCEPT ![u] = NoMessage]
        /\ UNCHANGED status
     \/ /\ status[u] # NoMessage
        /\ status' = [status EXCEPT ![u] = NoMessage]
        /\ UNCHANGED request
  /\ UNCHANGED <<gatewayVars, sourceVars, linkVars, overtaken>>

-----------------------------------------------------------------------------
(* The C6 *)

\* The C6 applies the step, or its stack refuses it, also for want of room.
RequestArrives(u) ==
  /\ request[u] # NoMessage
  /\ \E ok \in BOOLEAN :
       LET n == request[u].step
           refused == C6!Refuses(u, Gateway!Chain[n], request[u].key)
       IN  /\ refused => ~ok
           /\ ~ok => Gateway!Chain[n] \in Gateway!Reported
           /\ IF ok THEN C6!Applies(u, Gateway!Chain[n], request[u].key)
              ELSE UNCHANGED sourceVars
           /\ IF ok \/ refused THEN UNCHANGED harm ELSE Harmed
           /\ status' = [status EXCEPT ![u] = [step |-> n, ok |-> ok]]
  /\ overtaken' = IF C6!Undecided(u) THEN overtaken \cup {u} ELSE overtaken
  /\ request' = [request EXCEPT ![u] = NoMessage]
  /\ UNCHANGED <<gatewayVars, linkVars>>

TaskWorks(u) ==
  /\ C6!TaskSteps(u)
  /\ UNCHANGED <<gatewayVars, linkVars, airVars, overtaken, harm>>

TransportFails(u) ==
  /\ Harmed
  /\ C6!Fault(u)
  /\ UNCHANGED <<gatewayVars, linkVars, airVars, overtaken>>

\* A restart after a fault, or any other, which a link does not survive; a
\* request on its way may still arrive.
SourceRestarts(u) ==
  /\ IF task[u] = "down" THEN UNCHANGED harm ELSE Harmed
  /\ link # u \/ linkDone
  /\ C6!SourceReboot(u)
  /\ overtaken' = overtaken \ {u}
  /\ UNCHANGED <<gatewayVars, linkVars, airVars>>

-----------------------------------------------------------------------------
Next ==
  \/ SetUp \/ EventHandled \/ GatewayRestarts
  \/ LinkOpens \/ LinkRefused \/ LinkCompletes \/ LinkFails \/ LinkCloses
  \/ \E u \in Uuid :
       \/ Advertises(u) \/ StatusArrives(u) \/ TimesOut(u) \/ MessageLost(u)
       \/ RequestArrives(u) \/ TaskWorks(u) \/ TransportFails(u) \/ SourceRestarts(u)

Spec == Init /\ [][Next]_vars

\* Both ends run, the link ends, a message that is not lost arrives, and the
\* Mesh client's timeout expires.
FairSpec ==
  /\ Spec
  /\ WF_vars(SetUp) /\ WF_vars(EventHandled)
  /\ WF_vars(LinkOpens) /\ WF_vars(LinkRefused /\ UNCHANGED harm) /\ WF_vars(LinkCompletes) /\ WF_vars(LinkCloses)
  /\ \A u \in Uuid :
       /\ WF_vars(Advertises(u)) /\ WF_vars(StatusArrives(u))
       /\ WF_vars(TimesOut(u) /\ UNCHANGED harm)
       /\ WF_vars(RequestArrives(u) /\ UNCHANGED harm) /\ WF_vars(TaskWorks(u))
       /\ WF_vars(SourceRestarts(u) /\ UNCHANGED harm)

-----------------------------------------------------------------------------
\* A C6 that says READY has been through the whole chain and is known to the
\* gateway, with the gateway's key: publication is the last step because an
\* image must not start during the configuration (server/README.md:51).
ReadyMeansConfigured ==
  \A u \in Uuid : ready[u] =>
    /\ u \in table
    /\ kept[u].key = stackKey
    /\ applied[u] = {Gateway!Chain[n] : n \in DOMAIN Gateway!Chain}

\* Whatever the gateway was doing when it restarted, no C6 is given a key that
\* is not the one of the gateway's own model (provisioning_callback).
KeysAgree ==
  \A u \in Uuid : "AppKeyAdd" \in applied[u] => kept[u].key = stackKey

\* No two registered devices share an ID, an address or a Bluetooth address,
\* also across restarts (RECV_UNPROV_ADV_PKT, store_node).
OneOwnerEach ==
  \A u, v \in table \cup DOMAIN nodes : Gateway!SameIdentity(u, v) => u = v

\* A device that the stack has provisioned is registered when its COMPLETE is
\* handled: the end of one attempt never cancels the next (PROV_COMPLETE,
\* PROV_LINK_CLOSE).
CompletionsKept ==
  \A u \in table :
    \/ u \in DOMAIN nodes
    \/ \E n \in DOMAIN events : events[n] = [kind |-> "complete", uuid |-> u]

\* After a fault the C6 is not READY until it has restarted, whatever the
\* gateway configures in between (mark_transport_fault, refresh_ready_state).
FaultStaysNotReady == \A u \in Uuid : task[u] = "down" => ~ready[u]

\* Of the devices that share an identity one becomes READY and stays so, unless
\* the gateway gives its chain up after a refusal or all retries, or a callback
\* overtakes its init: there a binding or a readiness decided before may be
\* stored over a newer one, and stays until the next restart.
SetupCompletes ==
  \A u \in Uuid :
    <>[](\E v \in Uuid :
           /\ Gateway!SameIdentity(u, v)
           /\ ready[v] \/ v \in overtaken \/ Gateway!GivenUp(v))
================================================================================
