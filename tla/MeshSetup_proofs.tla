--------------------------- MODULE MeshSetup_proofs ---------------------------
(***************************************************************************)
(* Proofs about the set-up of the C6 nodes, for every set of devices,      *)
(* every size of the registry and any number of losses, failed links,      *)
(* faults and restarts of either end.                                      *)
(***************************************************************************)
EXTENDS MeshSetup, TLAPS, SequenceTheorems

Chain == Gateway!Chain
LastStep == 6

\* The first n steps of the configuration chain
Steps(n) == {Chain[m] : m \in 1 .. n}

Key == Nat \cup {NoKey}
Nvs == [provisioned : BOOLEAN, key : Key, model : BOOLEAN, pub : BOOLEAN]
Request == [step : 1 .. LastStep, key : Key]
Status == [step : 1 .. LastStep, ok : BOOLEAN]

TaskPc == {"up", "decide", "bind", "compute", "store", "compute2", "store2",
           "computeFault", "storeFault", "down"}

-----------------------------------------------------------------------------
(* The invariants *)

KeyType == {storedKey, stackKey, appKey} \subseteq Key

SourceType ==
  /\ kept \in [Uuid -> Nvs]
  /\ applied \in [Uuid -> SUBSET Steps(LastStep)]
  /\ task \in [Uuid -> TaskPc]
  /\ bound \in [Uuid -> BOOLEAN] /\ healthy \in [Uuid -> BOOLEAN]
  /\ ready \in [Uuid -> BOOLEAN] /\ held \in [Uuid -> BOOLEAN]

AirType ==
  /\ asked \in [Uuid -> 0 .. LastStep]
  /\ request \in [Uuid -> Request \cup {NoMessage}]
  /\ status \in [Uuid -> Status \cup {NoMessage}]
  /\ harm \in Nat

\* One provisioning attempt at a time: its device is at one place between the
\* stack's queue of links and the event that ends the attempt, and its
\* COMPLETE is handled before that event.
CompleteEvent(u) == [kind |-> "complete", uuid |-> u]

Idle == attempt = NoUuid /\ start = NoUuid /\ link = NoUuid /\ ~linkDone /\ events = <<>>
Starting == attempt \in Uuid /\ start = attempt /\ link = NoUuid /\ ~linkDone /\ events = <<>>
Linked == attempt \in Uuid /\ start = NoUuid /\ link = attempt /\ ~linkDone /\ events = <<>>
Closing ==
  /\ attempt \in Uuid /\ start = NoUuid /\ link = attempt /\ linkDone
  /\ events = <<>> \/ (events = <<CompleteEvent(attempt)>> /\ attempt \in table)
Ended ==
  /\ attempt \in Uuid /\ start = NoUuid /\ link = NoUuid /\ ~linkDone
  /\ \E e \in [kind : {"close", "refused"}, uuid : Uuid] :
       \/ events = <<e>>
       \/ events = <<CompleteEvent(attempt), e>> /\ attempt \in table

OneAttempt ==
  /\ Idle \/ Starting \/ Linked \/ Closing \/ Ended
  /\ Starting \/ Linked => \A v \in table : ~Gateway!SameIdentity(attempt, v)

\* The stack's table holds every registered node, and no two of one identity.
TableOwners ==
  /\ DOMAIN nodes \subseteq table
  /\ table \subseteq Uuid
  /\ \A u, v \in table : Gateway!SameIdentity(u, v) => u = v

AttemptInv == OneAttempt /\ TableOwners /\ CompletionsKept

\* The stack's key is given out only when it is fixed, and never changes.
KeyInv ==
  /\ setup \in {"enable", "add", "bind"} => ~gatewayReady
  /\ setup = "add" => appKey # NoKey
  /\ setup = "bind" \/ gatewayReady => appKey = stackKey /\ stackKey # NoKey
  /\ modelBound => stackKey # NoKey
  /\ attempt # NoUuid => gatewayReady
  /\ \A u \in Uuid :
       /\ asked[u] # 0 => gatewayReady
       /\ request[u] # NoMessage => request[u].key = stackKey /\ stackKey # NoKey
       /\ "AppKeyAdd" \in applied[u] => kept[u].key = stackKey /\ stackKey # NoKey

\* A step of the chain is asked for only after the ones before it.
ChainInv ==
  \A u \in Uuid :
    /\ asked[u] # 0 => Steps(asked[u] - 1) \subseteq applied[u]
    /\ request[u] # NoMessage => Steps(request[u].step - 1) \subseteq applied[u]
    /\ status[u] # NoMessage /\ status[u].ok =>
         Steps(status[u].step) \subseteq applied[u]
    /\ kept[u].pub => Steps(LastStep) \subseteq applied[u]

\* READY, or the decision for it, rests on a publication that is set.
ReadyInv ==
  \A u \in Uuid :
    /\ ready[u] => kept[u].provisioned /\ kept[u].pub
    /\ task[u] \in {"store", "store2", "storeFault"} /\ held[u] =>
         kept[u].provisioned /\ kept[u].pub
    /\ kept[u].provisioned => u \in table

FaultInv ==
  \A u \in Uuid :
    /\ task[u] \in {"computeFault", "storeFault", "down"} => ~healthy[u]
    /\ task[u] = "storeFault" => ~held[u]
    /\ task[u] = "down" => ~ready[u]
-----------------------------------------------------------------------------
(* One attempt at a time *)

LEMMA ShortQueues ==
  ASSUME NEW x, NEW y
  PROVE  /\ Append(<<>>, x) = <<x>>
         /\ Append(<<x>>, y) = <<x, y>>
         /\ Head(<<x>>) = x /\ Tail(<<x>>) = <<>>
         /\ Head(<<x, y>>) = x /\ Tail(<<x, y>>) = <<y>>
         /\ DOMAIN <<x>> = {1} /\ DOMAIN <<x, y>> = {1, 2} /\ DOMAIN <<>> = {}
<1> DEFINE two == Append(<<x>>, y)
<1>1. <<x>> \in Seq({x, y}) /\ <<x, y>> \in Seq({x, y})
  OBVIOUS
<1>2. two \in Seq({x, y}) /\ Len(two) = 2 /\ Len(<<x, y>>) = 2
  BY <1>1
<1>3. \A i \in 1 .. 2 : two[i] = <<x, y>>[i]
  <2>1. two[1] = x
    BY <1>1
  <2>2. two[2] = y
    BY <1>1
  <2>3. QED
    BY <2>1, <2>2
<1>4. two = <<x, y>>
  BY <1>1, <1>2, <1>3, SeqEqual
<1>5. QED
  BY <1>4

AttemptVars == <<attempt, start, link, linkDone, events, table, DOMAIN nodes>>

LEMMA AttemptInit == Init => AttemptInv
BY DEF Init, Gateway!GatewayInit, AttemptInv, OneAttempt, TableOwners, CompletionsKept,
  Idle, Starting, Linked

LEMMA AttemptUnchanged ==
  AttemptInv /\ UNCHANGED AttemptVars => AttemptInv'
BY DEF AttemptVars, AttemptInv, OneAttempt, TableOwners, CompletionsKept,
  Idle, Starting, Linked, Closing, Ended

\* A configuration step changes what is known of the nodes, not which they are.
LEMMA SetUpKeepsNodes ==
  ASSUME SetUp
  PROVE  UNCHANGED AttemptVars
<1>1. DOMAIN nodes' = DOMAIN nodes
  BY DEF SetUp, Gateway!EnabledBound, Gateway!EnabledUnbound,
    Gateway!KeyAdded, Gateway!ModelBound, Gateway!MarkReady, Gateway!Resume,
    Gateway!registry
<1>2. QED
  BY <1>1 DEF SetUp, Gateway!EnabledBound, Gateway!EnabledUnbound,
    Gateway!KeyAdded, Gateway!ModelBound, Gateway!stored, linkVars, AttemptVars

LEMMA StatusKeepsNodes ==
  ASSUME NEW u \in Uuid, StatusArrives(u) \/ TimesOut(u)
  PROVE  UNCHANGED AttemptVars
<1>1. DOMAIN nodes' = DOMAIN nodes
  BY DEF StatusArrives, TimesOut, Gateway!StepSucceeds, Gateway!StepRefused,
    Gateway!StepTimesOut, gatewayVars
<1>2. QED
  BY <1>1 DEF StatusArrives, TimesOut, Gateway!StepSucceeds, Gateway!StepRefused,
    Gateway!StepTimesOut, Gateway!stored, gatewayVars, linkVars, AttemptVars

LEMMA SourceKeepsNodes ==
  ASSUME NEW u \in Uuid,
         \/ MessageLost(u) \/ RequestArrives(u) \/ TaskWorks(u)
         \/ TransportFails(u) \/ SourceRestarts(u)
  PROVE  UNCHANGED AttemptVars
BY DEF MessageLost, RequestArrives, TaskWorks, TransportFails, SourceRestarts,
  gatewayVars, linkVars, AttemptVars

LEMMA AdvertisesAttempt ==
  ASSUME AttemptInv, NEW u \in Uuid, Advertises(u)
  PROVE  AttemptInv'
<1>1. Idle /\ Starting'
  BY MeshSetupAssumption DEF AttemptInv, OneAttempt, Idle, Starting, Linked,
    Closing, Ended, Advertises, Gateway!StartAttempt
<1>2. \A v \in table' : ~Gateway!SameIdentity(attempt', v)
  BY DEF Advertises, Gateway!StartAttempt, Gateway!Unowned, Gateway!stored
<1>3. TableOwners' /\ CompletionsKept'
  BY DEF AttemptInv, TableOwners, CompletionsKept, Advertises,
    Gateway!StartAttempt, Gateway!stored, Gateway!registry
<1>4. QED
  BY <1>1, <1>2, <1>3 DEF AttemptInv, OneAttempt, Gateway!SameIdentity

LEMMA LinkAttempt ==
  ASSUME AttemptInv, LinkOpens \/ LinkFails \/ LinkRefused \/ LinkCloses
  PROVE  AttemptInv'
<1> USE MeshSetupAssumption DEF AttemptInv, OneAttempt
<1>1. TableOwners'
  BY DEF TableOwners, LinkOpens, LinkFails, LinkRefused, LinkCloses,
    gatewayVars
<1>2. UNCHANGED <<attempt, table, nodes>>
  BY DEF LinkOpens, LinkFails, LinkRefused, LinkCloses, gatewayVars
<1>3. CASE LinkOpens
  <2>1. Starting /\ Linked'
    BY <1>3, <1>2 DEF LinkOpens, Idle, Starting, Linked, Closing, Ended
  <2>2. CompletionsKept'
    BY <1>3, <1>2 DEF LinkOpens, CompletionsKept
  <2>3. QED
    BY <1>1, <1>2, <2>1, <2>2 DEF Gateway!SameIdentity
<1>4. CASE LinkFails
  <2>1. Linked /\ Closing' /\ ~Starting' /\ ~Linked'
    BY <1>4, <1>2 DEF LinkFails, Idle, Starting, Linked, Closing, Ended
  <2>2. CompletionsKept'
    BY <1>4, <1>2 DEF LinkFails, CompletionsKept
  <2>3. QED
    BY <1>1, <2>1, <2>2
<1>5. CASE LinkRefused
  <2>1. Starting /\ events' = <<[kind |-> "refused", uuid |-> attempt]>>
    BY <1>5, ShortQueues DEF LinkRefused, Event, Idle, Starting, Linked, Closing, Ended
  <2>2. Ended' /\ ~Starting' /\ ~Linked'
    BY <1>5, <1>2, <2>1 DEF LinkRefused, Starting, Linked, Ended
  <2>3. CompletionsKept'
    BY <1>2, <2>1 DEF Starting, CompletionsKept
  <2>4. QED
    BY <1>1, <2>2, <2>3
<1>6. CASE LinkCloses
  <2> DEFINE e == [kind |-> "close", uuid |-> attempt]
  <2>1. Closing /\ events' = Append(events, e)
    BY <1>6 DEF LinkCloses, Event, Idle, Starting, Linked, Closing, Ended
  <2>2. \/ events' = <<e>>
        \/ events' = <<CompleteEvent(attempt), e>> /\ attempt \in table
    BY <2>1, ShortQueues DEF Closing
  <2>3. Ended' /\ ~Starting' /\ ~Linked'
    BY <1>6, <1>2, <2>1, <2>2 DEF LinkCloses, Closing, Starting, Linked, Ended,
      CompleteEvent
  <2>4. CompletionsKept'
    BY <1>2, <2>1, <2>2 DEF Closing, CompletionsKept, CompleteEvent
  <2>5. QED
    BY <1>1, <2>3, <2>4
<1>7. QED
  BY <1>3, <1>4, <1>5, <1>6

\* The stack provisions the device of the attempt: it has no twin.
LEMMA LinkCompletesAttempt ==
  ASSUME AttemptInv, LinkCompletes
  PROVE  AttemptInv'
<1> USE MeshSetupAssumption DEF AttemptInv, OneAttempt
<1>1. /\ Linked
      /\ table' = table \cup {attempt}
      /\ UNCHANGED <<attempt, nodes, start, link>>
      /\ linkDone'
      /\ events' = <<CompleteEvent(attempt)>>
  BY ShortQueues DEF LinkCompletes, Event, CompleteEvent, Gateway!StackProvisions, Gateway!registry, Idle,
    Starting, Linked, Closing, Ended
<1>2. Closing' /\ ~Starting' /\ ~Linked'
  BY <1>1 DEF Starting, Linked, Closing, CompleteEvent
<1>3. TableOwners'
  BY <1>1 DEF TableOwners, Linked, Gateway!SameIdentity
<1>4. CompletionsKept'
  BY <1>1 DEF CompletionsKept, CompleteEvent, Linked
<1>5. QED
  BY <1>2, <1>3, <1>4

LEMMA EventAttempt ==
  ASSUME AttemptInv, EventHandled
  PROVE  AttemptInv'
<1> USE MeshSetupAssumption DEF AttemptInv, OneAttempt
<1>1. /\ events # <<>> /\ events' = Tail(events)
      /\ UNCHANGED <<table, start, link, linkDone>>
  BY DEF EventHandled, Gateway!Complete, Gateway!EndAttempt, Gateway!stored
<1>2. CASE Head(events).kind = "complete"
  <2>1. /\ Head(events) = CompleteEvent(attempt) /\ attempt \in table
        /\ attempt \in Uuid /\ attempt # NoUuid
        /\ Closing \/ Ended
    BY <1>1, <1>2 DEF Idle, Starting, Linked, Closing, Ended, CompleteEvent
  <2>2. attempt' = attempt /\ DOMAIN nodes' = DOMAIN nodes \cup {attempt}
    <3>1. Gateway!Complete(attempt)
      BY <1>2, <2>1 DEF EventHandled, CompleteEvent
    <3>2. QED
      BY <3>1 DEF Gateway!Complete, Gateway!AttemptAfter
  <2>3. CASE Closing
    <3>1. events' = <<>>
      BY <1>1, <2>3 DEF Closing
    <3>2. Closing' /\ ~Starting' /\ ~Linked'
      BY <1>1, <2>2, <2>3, <3>1 DEF Starting, Linked, Closing
    <3>3. QED
      BY <1>1, <2>1, <2>2, <2>3, <3>1, <3>2 DEF TableOwners, CompletionsKept,
        Closing, CompleteEvent
  <2>4. CASE Ended
    <3>1. PICK e \in [kind : {"close", "refused"}, uuid : Uuid] :
            events = <<CompleteEvent(attempt), e>>
      BY <1>2, <2>4 DEF Ended
    <3>2. events' = <<e>>
      BY <1>1, <3>1
    <3>3. Ended' /\ ~Starting' /\ ~Linked'
      BY <1>1, <2>2, <2>4, <3>2 DEF Starting, Linked, Ended
    <3>4. QED
      BY <1>1, <2>1, <2>2, <3>1, <3>3 DEF TableOwners, CompletionsKept,
        CompleteEvent
  <2>5. QED
    BY <2>1, <2>3, <2>4
<1>3. CASE Head(events).kind # "complete"
  <2>1. attempt' = NoUuid /\ UNCHANGED nodes
    BY <1>3 DEF EventHandled, Gateway!EndAttempt, Gateway!registry
  <2>2. PICK e \in [kind : {"close", "refused"}, uuid : Uuid] : events = <<e>> /\ Ended
    BY <1>1, <1>3 DEF Idle, Starting, Linked, Closing, Ended, CompleteEvent
  <2>3. events' = <<>>
    BY <1>1, <2>2
  <2>4. Idle' /\ ~Starting' /\ ~Linked'
    BY <1>1, <2>1, <2>2, <2>3 DEF Idle, Starting, Linked, Ended
  <2>5. QED
    <3>1. \A n \in DOMAIN events : events[n].kind # "complete"
      BY <2>2, ShortQueues
    <3>2. \A u \in table : u \in DOMAIN nodes
      BY <3>1 DEF CompletionsKept
    <3>3. QED
      BY <1>1, <2>1, <2>4, <3>2 DEF TableOwners, CompletionsKept
<1>4. QED
  BY <1>2, <1>3

LEMMA RestartAttempt ==
  ASSUME AttemptInv, GatewayRestarts
  PROVE  AttemptInv'
<1>1. /\ Idle' /\ ~Starting' /\ ~Linked'
      /\ DOMAIN nodes' = table /\ table' = table
  BY MeshSetupAssumption DEF GatewayRestarts, Gateway!GatewayReboot,
    Gateway!Restored, Gateway!stored, Idle, Starting, Linked
<1>2. QED
  BY <1>1 DEF AttemptInv, OneAttempt, TableOwners, CompletionsKept

LEMMA AttemptNext == AttemptInv /\ [Next]_vars => AttemptInv'
<1>1. UNCHANGED vars => UNCHANGED AttemptVars
  BY DEF vars, gatewayVars, linkVars, AttemptVars
<1>2. QED
  BY <1>1, AttemptUnchanged, SetUpKeepsNodes, StatusKeepsNodes,
    SourceKeepsNodes, AdvertisesAttempt, LinkAttempt, LinkCompletesAttempt,
    EventAttempt, RestartAttempt DEF Next

LEMMA AttemptInvariant == Spec => []AttemptInv
BY AttemptInit, AttemptNext, PTL DEF Spec
-----------------------------------------------------------------------------
(* Types *)

LEMMA ChainFacts ==
  /\ Len(Chain) = LastStep
  /\ DOMAIN Chain = 1 .. LastStep
  /\ \A n \in 1 .. LastStep : Chain[n] \in Steps(LastStep)
  /\ Chain[1] = "AppKeyAdd"
  /\ \A n \in 1 .. LastStep : Chain[n] = "ModelPubSet" => n = LastStep
  /\ Steps(LastStep) = {Chain[n] : n \in DOMAIN Chain}
BY DEF Chain, Gateway!Chain, Steps, LastStep

LEMMA AppliesSourceType ==
  ASSUME SourceType, NEW u \in Uuid, NEW step \in Steps(LastStep),
         NEW key \in Key, C6!Applies(u, step, key)
  PROVE  SourceType'
<1> DEFINE model == kept[u].model \/ step = "ModelAppBind"
           pub == kept[u].pub \/ step = "ModelPubSet"
           isBound == bound[u] \/ step = "ModelAppBind"
           nvs == [kept[u] EXCEPT
                     !.key = IF step = "AppKeyAdd" THEN key ELSE @,
                     !.model = model, !.pub = pub]
<1>1. model \in BOOLEAN /\ pub \in BOOLEAN /\ isBound \in BOOLEAN
  OBVIOUS
<1>2. C6!Readiness(nvs, isBound, healthy[u]) \in BOOLEAN
  BY DEF C6!Readiness
<1>3. /\ kept' = [kept EXCEPT ![u] = nvs]
      /\ bound' = [bound EXCEPT ![u] = isBound]
      /\ \/ ready' = [ready EXCEPT ![u] = C6!Readiness(nvs, isBound, healthy[u])]
         \/ UNCHANGED ready
      /\ applied' = [applied EXCEPT ![u] = @ \cup {step}]
      /\ UNCHANGED <<task, healthy, held>>
  BY DEF C6!Applies, C6!Refreshed
<1>4. nvs \in Nvs
  <2> HIDE DEF model, pub
  <2>1. kept[u] \in Nvs
    BY DEF SourceType
  <2>2. QED
    BY <1>1, <2>1 DEF Nvs
<1> HIDE DEF isBound, nvs
<1>5. kept' \in [Uuid -> Nvs] /\ applied' \in [Uuid -> SUBSET Steps(LastStep)]
  BY <1>3, <1>4 DEF SourceType
<1>6. /\ bound' \in [Uuid -> BOOLEAN]
      /\ ready' \in [Uuid -> BOOLEAN]
  BY <1>1, <1>2, <1>3 DEF SourceType
<1>7. QED
  BY <1>3, <1>5, <1>6 DEF SourceType

LEMMA ProvisionedSourceType ==
  ASSUME SourceType, NEW u \in Uuid, C6!Provisioned(u)
  PROVE  SourceType'
<1> DEFINE nvs == [kept[u] EXCEPT !.provisioned = TRUE]
<1>1. C6!Readiness(nvs, bound[u], healthy[u]) \in BOOLEAN
  BY DEF C6!Readiness
<1>2. /\ kept' = [kept EXCEPT ![u] = nvs]
      /\ ready' = [ready EXCEPT ![u] = C6!Readiness(nvs, bound[u], healthy[u])]
      /\ UNCHANGED <<applied, task, bound, healthy, held>>
  BY DEF C6!Provisioned, C6!Refreshed
<1>3. nvs \in Nvs
  BY DEF SourceType, Nvs
<1> HIDE DEF nvs
<1>4. kept' \in [Uuid -> Nvs] /\ ready' \in [Uuid -> BOOLEAN]
  BY <1>1, <1>2, <1>3 DEF SourceType
<1>5. QED
  BY <1>2, <1>4 DEF SourceType

LEMMA TaskSourceType ==
  ASSUME SourceType, NEW u \in Uuid,
         C6!TaskSteps(u) \/ C6!Fault(u) \/ C6!SourceReboot(u)
  PROVE  SourceType'
<1> USE DEF SourceType
<1>1. task[u] # "up" /\ task[u] # "down" => C6!After[task[u]] \in TaskPc
  BY DEF C6!After, TaskPc
<1>2. CASE C6!Decide(u)
  BY <1>1, <1>2 DEF C6!Decide, C6!Goes, C6!Restorable
<1>3. CASE C6!SetBinding(u)
  BY <1>1, <1>3 DEF C6!SetBinding, C6!Goes
<1>4. CASE C6!Compute(u)
  BY <1>1, <1>4 DEF C6!Compute, C6!Goes, C6!Readiness
<1>5. CASE C6!Store(u)
  BY <1>1, <1>5 DEF C6!Store, C6!Goes
<1>6. CASE C6!Fault(u) \/ C6!SourceReboot(u)
  BY <1>6 DEF C6!Fault, C6!SourceReboot, TaskPc
<1>7. QED
  BY <1>2, <1>3, <1>4, <1>5, <1>6 DEF C6!TaskSteps

Types == KeyType /\ SourceType /\ AirType

LEMMA TypesInit == Init => Types
<1> SUFFICES ASSUME Init PROVE Types
  OBVIOUS
<1> USE DEF Init
<1>1. KeyType
  BY DEF KeyType, Key, Gateway!GatewayInit
<1>2. SourceType
  BY DEF SourceType, C6!SourceInit, Nvs, Key, TaskPc
<1>3. AirType
  BY MeshSetupAssumption DEF AirType, Gateway!GatewayInit, LastStep
<1>4. QED
  BY <1>1, <1>2, <1>3 DEF Types

LEMMA SendsType ==
  ASSUME AirType, Sends, asked' \in [Uuid -> 0 .. LastStep], appKey' \in Key
  PROVE  request' \in [Uuid -> Request \cup {NoMessage}]
BY DEF AirType, Sends, Request, LastStep

\* How a handler of the gateway moves on in the chain: it stays, ends it,
\* starts it anew, or goes to the next step after a success.
MovesOn(v) ==
  \/ asked'[v] \in {asked[v], 0, 1}
  \/ /\ status[v] # NoMessage /\ status[v].ok
     /\ asked[v] = status[v].step
     /\ asked'[v] = asked[v] + 1

LEMMA SetUpMoves ==
  ASSUME Types, SetUp
  PROVE  /\ KeyType'
         /\ asked' \in [Uuid -> 0 .. LastStep]
         /\ \A v \in Uuid : asked'[v] \in {asked[v], 1}
<1>1. KeyType'
  <2>1. CASE Gateway!EnabledBound
    BY <2>1 DEF Types, KeyType, Gateway!EnabledBound, Gateway!BoundKey, Gateway!stored
  <2>2. CASE Gateway!EnabledUnbound(harm + 1)
    <3>1. harm + 1 \in Key /\ Gateway!KeyToUse(harm + 1) \in Key
      BY DEF Types, AirType, KeyType, Key, Gateway!KeyToUse
    <3>2. QED
      BY <2>2, <3>1 DEF Types, KeyType, Gateway!EnabledUnbound
  <2>3. CASE Gateway!KeyAdded \/ Gateway!ModelBound
    BY <2>3 DEF Types, KeyType, Gateway!KeyAdded, Gateway!ModelBound
  <2>4. QED
    BY <2>1, <2>2, <2>3 DEF SetUp
<1> DEFINE Moved == /\ asked' \in [Uuid -> 0 .. LastStep]
                    /\ \A v \in Uuid : asked'[v] \in {asked[v], 1}
<1>2. Moved
  <2>1. CASE UNCHANGED asked
    BY <2>1 DEF Types, AirType
  <2>2. ASSUME NEW chosen, Gateway!Resume(chosen)
        PROVE  Moved
    BY <2>2 DEF Gateway!Resume, Types, AirType, LastStep
  <2>3. CASE Gateway!MarkReady
    BY <2>1, <2>2, <2>3 DEF Gateway!MarkReady, Gateway!registry
  <2>4. QED
    BY <2>1, <2>3 DEF SetUp, Gateway!EnabledBound, Gateway!EnabledUnbound,
      Gateway!KeyAdded, Gateway!ModelBound, Gateway!registry
<1>3. QED
  BY <1>1, <1>2

LEMMA EventMoves ==
  ASSUME Types, AttemptInv, EventHandled
  PROVE  /\ UNCHANGED <<storedKey, stackKey, modelBound, setup, appKey, gatewayReady>>
         /\ asked' \in [Uuid -> 0 .. LastStep]
         /\ \A v \in Uuid : asked'[v] \in {asked[v], 1}
         /\ \A v \in Uuid : asked'[v] # asked[v] => attempt # NoUuid
<1>1. CASE Gateway!EndAttempt
  BY <1>1 DEF Gateway!EndAttempt, Gateway!stored, Gateway!registry, Types, AirType
<1>2. ASSUME NEW u, Gateway!Complete(u)
      PROVE  /\ UNCHANGED <<storedKey, stackKey, modelBound, setup, appKey, gatewayReady>>
             /\ \/ attempt = u /\ asked' = [asked EXCEPT ![u] = 1]
                \/ UNCHANGED asked
  BY <1>2 DEF Gateway!Complete, Gateway!stored, Gateway!registry
<1>3. attempt = NoUuid \/ attempt \in Uuid
  BY DEF AttemptInv, OneAttempt, Idle, Starting, Linked, Closing, Ended
<1>4. QED
  BY <1>1, <1>2, <1>3, MeshSetupAssumption
  DEF EventHandled, Types, AirType, LastStep

LEMMA StatusMoves ==
  ASSUME Types, NEW u \in Uuid, StatusArrives(u) \/ TimesOut(u)
  PROVE  /\ UNCHANGED <<storedKey, stackKey, modelBound, setup, appKey,
                        gatewayReady, attempt>>
         /\ asked' \in [Uuid -> 0 .. LastStep]
         /\ \A v \in Uuid : MovesOn(v)
         /\ \A v \in Uuid : asked'[v] # 0 => asked[v] # 0
<1> USE ChainFacts DEF Types, AirType, MovesOn, Chain, LastStep
<1>1. CASE TimesOut(u)
  BY <1>1 DEF TimesOut, Gateway!StepTimesOut, Gateway!stored
<1>2. CASE StatusArrives(u)
  <2>1. status[u] \in Status
    BY <1>2 DEF StatusArrives
  <2>2. CASE asked[u] # status[u].step
    BY <1>2, <2>2 DEF StatusArrives, gatewayVars
  <2>3. CASE asked[u] = status[u].step /\ status[u].ok
    BY <1>2, <2>1, <2>3 DEF StatusArrives, Gateway!StepSucceeds, Gateway!stored
  <2>4. CASE asked[u] = status[u].step /\ ~status[u].ok
    BY <1>2, <2>4 DEF StatusArrives, Gateway!StepRefused, Gateway!stored
  <2>5. QED
    BY <2>2, <2>3, <2>4
<1>3. QED
  BY <1>1, <1>2

\* The C6 applies the step it was asked for, or refuses it.
LEMMA RequestEffect ==
  ASSUME Types, NEW u \in Uuid, RequestArrives(u)
  PROVE  /\ request[u] \in Request
         /\ UNCHANGED gatewayVars
         /\ request' = [request EXCEPT ![u] = NoMessage]
         /\ \/ /\ C6!Applies(u, Chain[request[u].step], request[u].key)
               /\ status' = [status EXCEPT ![u] =
                               [step |-> request[u].step, ok |-> TRUE]]
            \/ /\ UNCHANGED sourceVars
               /\ status' = [status EXCEPT ![u] =
                               [step |-> request[u].step, ok |-> FALSE]]
         /\ harm' \in Nat
<1>1. request[u] \in Request /\ request[u] # NoMessage
  BY DEF RequestArrives, Types, AirType
<1>2. PICK ok \in BOOLEAN :
        /\ IF ok THEN C6!Applies(u, Chain[request[u].step], request[u].key)
           ELSE UNCHANGED sourceVars
        /\ status' = [status EXCEPT ![u] = [step |-> request[u].step, ok |-> ok]]
        /\ UNCHANGED harm \/ Harmed
  BY Zenon DEF RequestArrives, Chain
<1>3. harm' \in Nat
  BY <1>2 DEF Types, AirType, Harmed
<1>4. CASE ok = TRUE
  BY <1>1, <1>2, <1>3, <1>4 DEF RequestArrives
<1>5. CASE ok = FALSE
  BY <1>1, <1>2, <1>3, <1>5 DEF RequestArrives
<1>6. QED
  BY <1>4, <1>5

LEMMA RequestTypes ==
  ASSUME Types, NEW u \in Uuid, RequestArrives(u)
  PROVE  Types'
<1>1. KeyType'
  BY RequestEffect DEF Types, KeyType, gatewayVars
<1>2. SourceType'
  <2>1. request[u].key \in Key /\ Chain[request[u].step] \in Steps(LastStep)
    BY RequestEffect, ChainFacts DEF Request
  <2>2. C6!Applies(u, Chain[request[u].step], request[u].key) => SourceType'
    BY <2>1, AppliesSourceType DEF Types
  <2>3. UNCHANGED sourceVars => SourceType'
    BY DEF Types, SourceType, sourceVars
  <2>4. QED
    BY <2>2, <2>3, RequestEffect
<1>3. AirType'
  <2>1. asked' = asked
    BY RequestEffect DEF gatewayVars
  <2>2. request' \in [Uuid -> Request \cup {NoMessage}]
    BY RequestEffect DEF Types, AirType
  <2>3. /\ [step |-> request[u].step, ok |-> TRUE] \in Status
        /\ [step |-> request[u].step, ok |-> FALSE] \in Status
    BY RequestEffect DEF Request, Status
  <2>4. status' \in [Uuid -> Status \cup {NoMessage}]
    BY <2>3, RequestEffect DEF Types, AirType
  <2>5. QED
    BY <2>1, <2>2, <2>4, RequestEffect DEF Types, AirType
<1>4. QED
  BY <1>1, <1>2, <1>3 DEF Types

LEMMA TypesNext == Types /\ AttemptInv /\ [Next]_vars => Types'
<1> SUFFICES ASSUME Types, AttemptInv, [Next]_vars PROVE Types'
  OBVIOUS
<1>1. CASE SetUp
  BY <1>1, SetUpMoves, SendsType DEF Types, SetUp, KeyType, SourceType, AirType, sourceVars
<1>2. CASE EventHandled
  BY <1>2, EventMoves, SendsType DEF Types, EventHandled, KeyType, SourceType,
    AirType, sourceVars
<1>3. CASE GatewayRestarts
  BY <1>3 DEF GatewayRestarts, Gateway!GatewayReboot, Gateway!stored, Types,
    KeyType, Key, SourceType, AirType, sourceVars, airVars, Harmed, LastStep
<1>4. CASE LinkOpens \/ LinkRefused \/ LinkFails \/ LinkCloses
  BY <1>4 DEF LinkOpens, LinkRefused, LinkFails, LinkCloses, gatewayVars,
    airVars, sourceVars, Harmed, Types, KeyType, SourceType, AirType
<1>5. CASE LinkCompletes
  <2>1. link \in Uuid
    BY <1>5 DEF LinkCompletes, AttemptInv, OneAttempt, Idle, Starting, Linked,
      Closing, Ended
  <2>2. SourceType'
    BY <1>5, <2>1, ProvisionedSourceType DEF LinkCompletes, Types
  <2>3. QED
    BY <1>5, <2>2 DEF LinkCompletes, Gateway!StackProvisions, Gateway!registry,
      airVars, Types, KeyType, AirType
<1>6. ASSUME NEW u \in Uuid, Advertises(u) \/ MessageLost(u) PROVE Types'
  BY <1>6 DEF Advertises, MessageLost, Gateway!StartAttempt, Gateway!stored,
    Gateway!registry, gatewayVars, sourceVars, airVars, Harmed, Types, KeyType,
    SourceType, AirType
<1>7. ASSUME NEW u \in Uuid, StatusArrives(u) PROVE Types'
  <2>1. request' \in [Uuid -> Request \cup {NoMessage}]
    BY <1>7, StatusMoves, SendsType DEF StatusArrives, Types, KeyType
  <2>2. QED
    BY <1>7, <2>1, StatusMoves DEF StatusArrives, sourceVars, Types, KeyType,
      SourceType, AirType
<1>8. ASSUME NEW u \in Uuid, TimesOut(u) PROVE Types'
  <2>1. asked[u] # 0 /\ appKey \in Key
    BY <1>8 DEF TimesOut, Gateway!StepTimesOut, Types, KeyType
  <2>2. [step |-> asked[u], key |-> appKey] \in Request
    BY <2>1 DEF Types, AirType, Request, LastStep
  <2>3. request' \in [Uuid -> Request \cup {NoMessage}]
    BY <1>8, <2>2 DEF TimesOut, Types, AirType
  <2>4. harm' \in Nat
    BY <1>8 DEF TimesOut, Harmed, Types, AirType
  <2>5. QED
    BY <1>8, <2>3, <2>4, StatusMoves DEF TimesOut, sourceVars, Types, KeyType,
      SourceType, AirType
<1>9. ASSUME NEW u \in Uuid, TaskWorks(u) \/ TransportFails(u) \/ SourceRestarts(u)
      PROVE  Types'
  <2>1. SourceType'
    BY <1>9, TaskSourceType DEF TaskWorks, TransportFails, SourceRestarts, Types
  <2>2. QED
    BY <1>9, <2>1 DEF TaskWorks, TransportFails, SourceRestarts, gatewayVars,
      airVars, Harmed, Types, KeyType, AirType
<1>10. CASE UNCHANGED vars
  BY <1>10 DEF vars, gatewayVars, sourceVars, airVars, Types, KeyType,
    SourceType, AirType
<1>11. QED
  BY <1>1, <1>2, <1>3, <1>4, <1>5, <1>6, <1>7, <1>8, <1>9, <1>10, RequestTypes
  DEF Next

LEMMA TypesInvariant == Spec => []Types
BY TypesInit, TypesNext, AttemptInvariant, PTL DEF Spec
-----------------------------------------------------------------------------
(* Keys *)

LEMMA KeyInit == Init => KeyInv
BY DEF Init, Gateway!GatewayInit, C6!SourceInit, KeyInv

\* The gateway's own key: once the stack has one, it keeps it.
GatewayKeys ==
  /\ setup \in {"enable", "add", "bind"} => ~gatewayReady
  /\ setup = "add" => appKey # NoKey
  /\ setup = "bind" \/ gatewayReady => appKey = stackKey /\ stackKey # NoKey
  /\ modelBound => stackKey # NoKey

LEMMA SetUpKeys ==
  ASSUME Types, KeyInv, SetUp
  PROVE  /\ GatewayKeys'
         /\ stackKey # NoKey => stackKey' = stackKey
         /\ asked' # asked => gatewayReady'
         /\ gatewayReady => gatewayReady'
         /\ attempt' = attempt
<1> USE MeshSetupAssumption DEF Types, KeyType, Key, KeyInv, GatewayKeys
<1>1. CASE Gateway!EnabledBound
  BY <1>1 DEF Gateway!EnabledBound, Gateway!BoundKey, Gateway!MarkReady, Gateway!stored
<1>2. CASE Gateway!EnabledUnbound(harm + 1)
  <2>1. Gateway!KeyToUse(harm + 1) # NoKey
    BY DEF Gateway!KeyToUse, AirType
  <2>2. QED
    BY <1>2, <2>1 DEF Gateway!EnabledUnbound, Gateway!registry
<1>3. CASE Gateway!KeyAdded
  BY <1>3 DEF Gateway!KeyAdded, Gateway!registry
<1>4. CASE Gateway!ModelBound
  BY <1>4 DEF Gateway!ModelBound, Gateway!MarkReady
<1>5. QED
  BY <1>1, <1>2, <1>3, <1>4 DEF SetUp

\* What the gateway sends holds the key that it is now set up with.
LEMMA SendsKeys ==
  ASSUME KeyInv, Sends, UNCHANGED sourceVars, GatewayKeys', AirType,
         stackKey # NoKey => stackKey' = stackKey,
         attempt' # NoUuid => gatewayReady',
         \A u \in Uuid : asked'[u] # 0 => gatewayReady'
  PROVE  KeyInv'
<1>1. ASSUME NEW u \in Uuid, request'[u] # NoMessage
      PROVE  request'[u].key = stackKey' /\ stackKey' # NoKey
  <2>1. CASE asked'[u] \notin {0, asked[u]}
    <3>1. request'[u] = [step |-> asked'[u], key |-> appKey']
      BY <2>1 DEF Sends
    <3>2. QED
      BY <2>1, <3>1 DEF GatewayKeys
  <2>2. CASE asked'[u] \in {0, asked[u]}
    <3>1. request'[u] = request[u]
      BY <2>2 DEF Sends
    <3>2. QED
      BY <1>1, <3>1 DEF KeyInv
  <2>3. QED
    BY <2>1, <2>2
<1>2. QED
  BY <1>1 DEF KeyInv, GatewayKeys, sourceVars

LEMMA KeyUnchanged ==
  ASSUME KeyInv,
         UNCHANGED <<stackKey, modelBound, setup, appKey, gatewayReady>>,
         attempt' # NoUuid => gatewayReady,
         \A u \in Uuid :
           /\ asked'[u] # 0 => gatewayReady
           /\ request'[u] # NoMessage =>
                request'[u].key = stackKey /\ stackKey # NoKey
           /\ "AppKeyAdd" \in applied'[u] =>
                kept'[u].key = stackKey /\ stackKey # NoKey
  PROVE  KeyInv'
BY DEF KeyInv

LEMMA RequestKeys ==
  ASSUME Types, KeyInv, NEW u \in Uuid, RequestArrives(u)
  PROVE  KeyInv'
<1>1. /\ request[u].key = stackKey /\ stackKey # NoKey
      /\ UNCHANGED gatewayVars
      /\ \A v \in Uuid : request'[v] \in {request[v], NoMessage}
  BY RequestEffect DEF KeyInv, RequestArrives, Types, AirType
<1>2. ASSUME NEW v \in Uuid, "AppKeyAdd" \in applied'[v]
      PROVE  kept'[v].key = stackKey
  <2>1. CASE UNCHANGED sourceVars
    BY <1>2, <2>1 DEF KeyInv, sourceVars
  <2>2. CASE C6!Applies(u, Chain[request[u].step], request[u].key)
    <3> DEFINE step == Chain[request[u].step]
               nvs == [kept[u] EXCEPT
                         !.key = IF step = "AppKeyAdd" THEN request[u].key ELSE @,
                         !.model = @ \/ step = "ModelAppBind",
                         !.pub = @ \/ step = "ModelPubSet"]
    <3>1. /\ kept' = [kept EXCEPT ![u] = nvs]
          /\ applied' = [applied EXCEPT ![u] = @ \cup {step}]
      BY <2>2 DEF C6!Applies
    <3>2. kept[u] \in Nvs
      BY DEF Types, SourceType
    <3>3. nvs.key = IF step = "AppKeyAdd" THEN request[u].key ELSE kept[u].key
      BY <3>2 DEF Nvs
    <3> HIDE DEF nvs, step
    <3>4. kept'[v] = IF v = u THEN nvs ELSE kept[v]
      BY <3>1 DEF Types, SourceType
    <3>5. applied'[v] = IF v = u THEN applied[u] \cup {step} ELSE applied[v]
      BY <3>1 DEF Types, SourceType
    <3>6. QED
      BY <1>1, <1>2, <3>3, <3>4, <3>5 DEF KeyInv
  <2>3. QED
    BY <2>1, <2>2, RequestEffect
<1>3. QED
  BY <1>1, <1>2, KeyUnchanged DEF KeyInv, gatewayVars

\* A restart or a fault of a C6 leaves what its stack has stored.
LEMMA TaskKeepsKeys ==
  ASSUME NEW u \in Uuid,
         C6!TaskSteps(u) \/ C6!Fault(u) \/ C6!SourceReboot(u)
  PROVE  UNCHANGED <<kept, applied>>
BY DEF C6!TaskSteps, C6!Decide, C6!SetBinding, C6!Compute, C6!Store, C6!Fault,
  C6!SourceReboot

LEMMA ProvisionedEffect ==
  ASSUME Types, NEW u \in Uuid, C6!Provisioned(u)
  PROVE  /\ kept' = [kept EXCEPT ![u] = [@ EXCEPT !.provisioned = TRUE]]
         /\ \A v \in Uuid : kept'[v].key = kept[v].key /\ kept'[v].pub = kept[v].pub
         /\ \A v \in Uuid \ {u} : kept'[v] = kept[v]
         /\ kept'[u].provisioned
         /\ UNCHANGED applied
<1> DEFINE nvs == [kept[u] EXCEPT !.provisioned = TRUE]
<1>1. kept[u] \in Nvs /\ kept \in [Uuid -> Nvs]
  BY DEF Types, SourceType
<1>2. nvs.key = kept[u].key /\ nvs.pub = kept[u].pub /\ nvs.provisioned
  BY <1>1 DEF Nvs
<1>3. kept' = [kept EXCEPT ![u] = nvs] /\ UNCHANGED applied
  BY DEF C6!Provisioned
<1>4. kept' = [kept EXCEPT ![u] = [@ EXCEPT !.provisioned = TRUE]]
  BY <1>3
<1> HIDE DEF nvs
<1>5. \A v \in Uuid : kept'[v] = IF v = u THEN nvs ELSE kept[v]
  BY <1>1, <1>3
<1>6. QED
  BY <1>2, <1>3, <1>4, <1>5

LEMMA LinkIsDevice ==
  ASSUME AttemptInv, link # NoUuid
  PROVE  link \in Uuid
BY DEF AttemptInv, OneAttempt, Idle, Starting, Linked, Closing, Ended

LEMMA KeyNext == Types /\ AttemptInv /\ KeyInv /\ [Next]_vars => KeyInv'
<1> SUFFICES ASSUME Types, AttemptInv, KeyInv, [Next]_vars PROVE KeyInv'
  OBVIOUS
<1>1. CASE SetUp
  <2>1. \A u \in Uuid : asked'[u] # 0 => gatewayReady'
    BY <1>1, SetUpKeys DEF KeyInv
  <2>2. QED
    BY <1>1, <2>1, SetUpKeys, SendsKeys DEF SetUp, Types, KeyInv
<1>2. CASE EventHandled
  <2>1. \A u \in Uuid : asked'[u] # 0 => gatewayReady
    BY <1>2, EventMoves DEF KeyInv
  <2>2. attempt' # NoUuid => attempt # NoUuid
    BY <1>2 DEF EventHandled, Gateway!Complete, Gateway!EndAttempt,
      Gateway!AttemptAfter
  <2>3. QED
    BY <1>2, <2>1, <2>2, EventMoves, SendsKeys
    DEF EventHandled, KeyInv, GatewayKeys, Types
<1>3. CASE GatewayRestarts
  BY <1>3, MeshSetupAssumption DEF GatewayRestarts, Gateway!GatewayReboot,
    Gateway!stored, sourceVars, airVars, KeyInv
<1>4. CASE LinkOpens \/ LinkRefused \/ LinkFails \/ LinkCloses
  BY <1>4, KeyUnchanged DEF LinkOpens, LinkRefused, LinkFails, LinkCloses,
    gatewayVars, sourceVars, airVars, KeyInv
<1>5. CASE LinkCompletes
  <2>1. link \in Uuid /\ C6!Provisioned(link)
    BY <1>5, LinkIsDevice DEF LinkCompletes
  <2>2. /\ UNCHANGED applied
        /\ \A v \in Uuid : kept'[v].key = kept[v].key
    BY <2>1, ProvisionedEffect
  <2>3. QED
    BY <1>5, <2>2, KeyUnchanged DEF LinkCompletes, Gateway!StackProvisions,
      Gateway!registry, airVars, KeyInv
<1>6. ASSUME NEW u \in Uuid, Advertises(u) PROVE KeyInv'
  BY <1>6, KeyUnchanged DEF Advertises, Gateway!StartAttempt, Gateway!stored,
    Gateway!registry, sourceVars, airVars, KeyInv
<1>7. ASSUME NEW u \in Uuid, MessageLost(u) PROVE KeyInv'
  <2>1. \A v \in Uuid : request'[v] \in {request[v], NoMessage}
    BY <1>7 DEF MessageLost, Types, AirType
  <2>2. QED
    BY <1>7, <2>1, KeyUnchanged DEF MessageLost, gatewayVars, sourceVars, KeyInv
<1>8. ASSUME NEW u \in Uuid, StatusArrives(u) PROVE KeyInv'
  <2>1. \A v \in Uuid : asked'[v] # 0 => gatewayReady'
    BY <1>8, StatusMoves DEF KeyInv
  <2>2. QED
    BY <1>8, <2>1, StatusMoves, SendsKeys
    DEF StatusArrives, KeyInv, GatewayKeys, Types
<1>9. ASSUME NEW u \in Uuid, TimesOut(u) PROVE KeyInv'
  <2>1. asked[u] # 0
    BY <1>9 DEF TimesOut, Gateway!StepTimesOut
  <2>2. \A v \in Uuid : asked'[v] # 0 => gatewayReady
    BY <1>9, StatusMoves DEF KeyInv
  <2>3. \A v \in Uuid : \/ request'[v] = request[v]
                        \/ request'[v] = [step |-> asked[u], key |-> appKey]
    BY <1>9 DEF TimesOut, Types, AirType
  <2>4. ASSUME NEW v \in Uuid, request'[v] # NoMessage
        PROVE  request'[v].key = stackKey /\ stackKey # NoKey
    BY <2>1, <2>3, <2>4 DEF KeyInv
  <2>5. UNCHANGED <<kept, applied, stackKey, modelBound, setup, appKey, gatewayReady, attempt>>
    BY <1>9, StatusMoves DEF TimesOut, sourceVars
  <2>6. QED
    BY <2>2, <2>4, <2>5, KeyUnchanged DEF KeyInv
<1>10. ASSUME NEW u \in Uuid, TaskWorks(u) \/ TransportFails(u) \/ SourceRestarts(u)
       PROVE  KeyInv'
  <2>1. UNCHANGED <<kept, applied>>
    BY <1>10, TaskKeepsKeys DEF TaskWorks, TransportFails, SourceRestarts
  <2>2. QED
    BY <1>10, <2>1, KeyUnchanged DEF TaskWorks, TransportFails, SourceRestarts,
      gatewayVars, airVars, KeyInv
<1>11. CASE UNCHANGED vars
  BY <1>11, KeyUnchanged DEF vars, gatewayVars, sourceVars, airVars, KeyInv
<1>12. QED
  BY <1>1, <1>2, <1>3, <1>4, <1>5, <1>6, <1>7, <1>8, <1>9, <1>10, <1>11,
    RequestKeys DEF Next

LEMMA KeyInvariant == Spec => []KeyInv
BY KeyInit, KeyNext, TypesInvariant, AttemptInvariant, PTL DEF Spec
-----------------------------------------------------------------------------
(* The order of the configuration chain *)

LEMMA StepsGrow ==
  /\ Steps(0) = {}
  /\ \A n \in 1 .. LastStep : Steps(n) = Steps(n - 1) \cup {Chain[n]}
  /\ \A n \in 1 .. LastStep : Steps(n) \subseteq Steps(LastStep)
BY DEF Steps, LastStep

LEMMA ChainInit == Init => ChainInv
BY DEF Init, Gateway!GatewayInit, C6!SourceInit, ChainInv

\* How a step of another part leaves the chain in order
LEMMA ChainKept ==
  ASSUME Types, ChainInv,
         \A v \in Uuid :
           /\ MovesOn(v)
           /\ \/ request'[v] \in {request[v], NoMessage}
              \/ asked[v] # 0 /\ request'[v].step = asked[v]
              \/ asked'[v] \notin {0, asked[v]} /\ request'[v].step = asked'[v]
           /\ status'[v] \in {status[v], NoMessage}
           /\ applied'[v] = applied[v] /\ kept'[v].pub = kept[v].pub
  PROVE  ChainInv'
<1> SUFFICES ASSUME NEW v \in Uuid
             PROVE  /\ asked'[v] # 0 => Steps(asked'[v] - 1) \subseteq applied[v]
                    /\ request'[v] # NoMessage =>
                         Steps(request'[v].step - 1) \subseteq applied[v]
                    /\ status'[v] # NoMessage /\ status'[v].ok =>
                         Steps(status'[v].step) \subseteq applied[v]
                    /\ kept'[v].pub => Steps(LastStep) \subseteq applied[v]
  BY DEF ChainInv
<1>1. asked'[v] # 0 => Steps(asked'[v] - 1) \subseteq applied[v]
  <2>1. CASE asked'[v] \in {asked[v], 0}
    BY <2>1 DEF ChainInv
  <2>2. CASE asked'[v] = 1
    BY <2>2, StepsGrow
  <2>3. CASE /\ status[v] # NoMessage /\ status[v].ok
             /\ asked[v] = status[v].step /\ asked'[v] = asked[v] + 1
    <3>1. asked'[v] - 1 = status[v].step
      BY <2>3 DEF Types, AirType
    <3>2. QED
      BY <2>3, <3>1 DEF ChainInv
  <2>4. QED
    BY <2>1, <2>2, <2>3 DEF MovesOn
<1>2. request'[v] # NoMessage => Steps(request'[v].step - 1) \subseteq applied[v]
  BY <1>1 DEF ChainInv
<1>3. QED
  BY <1>1, <1>2 DEF ChainInv

LEMMA SendsStep ==
  ASSUME Sends, NEW v \in Uuid
  PROVE  \/ request'[v] = request[v]
         \/ asked'[v] \notin {0, asked[v]} /\ request'[v].step = asked'[v]
BY DEF Sends

LEMMA RequestChain ==
  ASSUME Types, ChainInv, NEW u \in Uuid, RequestArrives(u)
  PROVE  ChainInv'
<1> DEFINE n == request[u].step
           step == Chain[n]
<1>1. /\ n \in 1 .. LastStep /\ request[u] # NoMessage
      /\ Steps(n) = Steps(n - 1) \cup {step}
      /\ Steps(n - 1) \subseteq applied[u]
  BY RequestEffect, StepsGrow DEF Request, RequestArrives, ChainInv
<1>2. /\ asked' = asked
      /\ \A v \in Uuid : request'[v] = IF v = u THEN NoMessage ELSE request[v]
  BY RequestEffect DEF gatewayVars, Types, AirType
<1>3. CASE /\ UNCHANGED sourceVars
           /\ status' = [status EXCEPT ![u] = [step |-> n, ok |-> FALSE]]
  <2>1. \A v \in Uuid : status'[v] =
          IF v = u THEN [step |-> n, ok |-> FALSE] ELSE status[v]
    BY <1>3 DEF Types, AirType
  <2> HIDE DEF n
  <2>2. QED
    BY <1>2, <1>3, <2>1 DEF ChainInv, sourceVars
<1>4. CASE /\ C6!Applies(u, step, request[u].key)
           /\ status' = [status EXCEPT ![u] = [step |-> n, ok |-> TRUE]]
  <2> DEFINE model == kept[u].model \/ step = "ModelAppBind"
             pub == kept[u].pub \/ step = "ModelPubSet"
             nvs == [kept[u] EXCEPT
                       !.key = IF step = "AppKeyAdd" THEN request[u].key ELSE @,
                       !.model = model, !.pub = pub]
  <2>1. /\ kept' = [kept EXCEPT ![u] = nvs]
        /\ applied' = [applied EXCEPT ![u] = @ \cup {step}]
    BY <1>4 DEF C6!Applies
  <2>2. nvs.pub = pub
    <3> HIDE DEF model, pub
    <3>1. QED
      BY DEF Types, SourceType, Nvs
  <2>3. pub => kept[u].pub \/ n = LastStep
    BY <1>1, ChainFacts
  <2> HIDE DEF nvs, pub
  <2>4. /\ \A v \in Uuid : kept'[v] = IF v = u THEN nvs ELSE kept[v]
        /\ \A v \in Uuid : applied'[v] =
             IF v = u THEN applied[u] \cup {step} ELSE applied[v]
    BY <2>1 DEF Types, SourceType
  <2>5. \A v \in Uuid : status'[v] =
          IF v = u THEN [step |-> n, ok |-> TRUE] ELSE status[v]
    BY <1>4 DEF Types, AirType
  <2>6. Steps(n) \subseteq applied'[u] /\ applied[u] \subseteq applied'[u]
    BY <1>1, <2>4
  <2> HIDE DEF n, step
  <2>7. ASSUME NEW v \in Uuid, v # u
        PROVE  /\ asked'[v] = asked[v] /\ request'[v] = request[v]
               /\ status'[v] = status[v] /\ applied'[v] = applied[v]
               /\ kept'[v] = kept[v]
    BY <1>2, <2>4, <2>5, <2>7
  <2>8. /\ request'[u] = NoMessage /\ asked'[u] = asked[u]
        /\ status'[u] = [step |-> n, ok |-> TRUE]
        /\ kept'[u].pub => kept[u].pub \/ n = LastStep
    BY <1>2, <2>2, <2>3, <2>4, <2>5
  <2>9. QED
    BY <2>6, <2>7, <2>8 DEF ChainInv
<1>5. QED
  BY <1>3, <1>4, RequestEffect

LEMMA ChainNext == Types /\ AttemptInv /\ ChainInv /\ [Next]_vars => ChainInv'
<1> SUFFICES ASSUME Types, AttemptInv, ChainInv, [Next]_vars PROVE ChainInv'
  OBVIOUS
<1> DEFINE SourceKept == \A v \in Uuid :
             applied'[v] = applied[v] /\ kept'[v].pub = kept[v].pub
<1>1. CASE SetUp
  <2>1. \A v \in Uuid : MovesOn(v)
    BY <1>1, SetUpMoves DEF MovesOn
  <2>2. QED
    BY <1>1, <2>1, SendsStep, ChainKept DEF SetUp, sourceVars
<1>2. CASE EventHandled
  <2>1. \A v \in Uuid : MovesOn(v)
    BY <1>2, EventMoves DEF MovesOn
  <2>2. QED
    BY <1>2, <2>1, SendsStep, ChainKept DEF EventHandled, sourceVars
<1>3. CASE GatewayRestarts
  <2>1. \A v \in Uuid : asked'[v] = 0
    BY <1>3 DEF GatewayRestarts, Gateway!GatewayReboot
  <2>2. QED
    BY <1>3, <2>1, ChainKept DEF GatewayRestarts, sourceVars, airVars, MovesOn
<1>4. CASE LinkOpens \/ LinkRefused \/ LinkFails \/ LinkCloses
  BY <1>4, ChainKept DEF LinkOpens, LinkRefused, LinkFails, LinkCloses,
    gatewayVars, sourceVars, airVars, MovesOn
<1>5. CASE LinkCompletes
  <2>1. SourceKept
    BY <1>5, LinkIsDevice, ProvisionedEffect DEF LinkCompletes
  <2>2. QED
    BY <1>5, <2>1, ChainKept DEF LinkCompletes, Gateway!StackProvisions,
      Gateway!registry, airVars, MovesOn
<1>6. ASSUME NEW u \in Uuid, Advertises(u) PROVE ChainInv'
  BY <1>6, ChainKept DEF Advertises, Gateway!StartAttempt, Gateway!registry,
    sourceVars, airVars, MovesOn
<1>7. ASSUME NEW u \in Uuid, MessageLost(u) PROVE ChainInv'
  <2>1. \A v \in Uuid : /\ request'[v] \in {request[v], NoMessage}
                        /\ status'[v] \in {status[v], NoMessage}
    BY <1>7 DEF MessageLost, Types, AirType
  <2>2. QED
    BY <1>7, <2>1, ChainKept DEF MessageLost, gatewayVars, sourceVars, MovesOn
<1>8. ASSUME NEW u \in Uuid, StatusArrives(u) PROVE ChainInv'
  <2>1. \A v \in Uuid : status'[v] \in {status[v], NoMessage}
    BY <1>8 DEF StatusArrives, Types, AirType
  <2>2. \A v \in Uuid : MovesOn(v)
    BY <1>8, StatusMoves
  <2>3. QED
    BY <1>8, <2>1, <2>2, SendsStep, ChainKept DEF StatusArrives, sourceVars
<1>9. ASSUME NEW u \in Uuid, TimesOut(u) PROVE ChainInv'
  <2>1. asked[u] # 0
    BY <1>9 DEF TimesOut, Gateway!StepTimesOut
  <2>2. \A v \in Uuid : \/ request'[v] = request[v]
                        \/ v = u /\ request'[v] = [step |-> asked[u], key |-> appKey]
    BY <1>9 DEF TimesOut, Types, AirType
  <2>3. \A v \in Uuid : MovesOn(v)
    BY <1>9, StatusMoves
  <2>4. UNCHANGED <<applied, kept, status>>
    BY <1>9 DEF TimesOut, sourceVars
  <2>5. \A v \in Uuid : \/ request'[v] \in {request[v], NoMessage}
                        \/ asked[v] # 0 /\ request'[v].step = asked[v]
    BY <2>1, <2>2
  <2>6. QED
    BY <2>3, <2>4, <2>5, ChainKept
<1>10. ASSUME NEW u \in Uuid, TaskWorks(u) \/ TransportFails(u) \/ SourceRestarts(u)
       PROVE  ChainInv'
  <2>1. UNCHANGED <<kept, applied>>
    BY <1>10, TaskKeepsKeys DEF TaskWorks, TransportFails, SourceRestarts
  <2>2. QED
    BY <1>10, <2>1, ChainKept DEF TaskWorks, TransportFails, SourceRestarts,
      gatewayVars, airVars, MovesOn
<1>11. CASE UNCHANGED vars
  BY <1>11, ChainKept DEF vars, gatewayVars, sourceVars, airVars, MovesOn
<1>12. QED
  BY <1>1, <1>2, <1>3, <1>4, <1>5, <1>6, <1>7, <1>8, <1>9, <1>10, <1>11,
    RequestChain DEF Next

LEMMA ChainInvariant == Spec => []ChainInv
BY ChainInit, ChainNext, TypesInvariant, AttemptInvariant, PTL DEF Spec
-----------------------------------------------------------------------------
(* Readiness and faults *)

\* What a callback of the Bluetooth task does to a C6: it loses neither its
\* provisioning nor its publication, and is READY only with both and healthy.
CallbackKeeps(v) ==
  /\ kept[v].provisioned => kept'[v].provisioned
  /\ kept'[v].provisioned => kept[v].provisioned \/ v = link
  /\ kept[v].pub => kept'[v].pub
  /\ ready'[v] => \/ ready[v] /\ ~(task[v] = "down")
                  \/ kept'[v].provisioned /\ kept'[v].pub /\ healthy[v]

LEMMA AppliesKeeps ==
  ASSUME Types, FaultInv, NEW u \in Uuid, NEW step, NEW key,
         C6!Applies(u, step, key)
  PROVE  /\ UNCHANGED <<task, healthy, held>>
         /\ \A v \in Uuid : /\ CallbackKeeps(v)
                            /\ kept'[v].provisioned = kept[v].provisioned
<1> DEFINE model == kept[u].model \/ step = "ModelAppBind"
           pub == kept[u].pub \/ step = "ModelPubSet"
           isBound == bound[u] \/ step = "ModelAppBind"
           nvs == [kept[u] EXCEPT
                     !.key = IF step = "AppKeyAdd" THEN key ELSE @,
                     !.model = model, !.pub = pub]
           Now == C6!Readiness(nvs, isBound, healthy[u])
<1>1. /\ kept' = [kept EXCEPT ![u] = nvs]
      /\ \/ ready' = [ready EXCEPT ![u] = Now]
         \/ UNCHANGED ready
      /\ UNCHANGED <<task, healthy, held>>
  BY DEF C6!Applies, C6!Refreshed
<1>2. nvs.provisioned = kept[u].provisioned /\ nvs.pub = pub
  <2> HIDE DEF model, pub
  <2>1. kept[u] \in Nvs
    BY DEF Types, SourceType
  <2>2. QED
    BY <2>1 DEF Nvs
<1>3. Now => nvs.provisioned /\ nvs.pub /\ healthy[u]
  BY DEF C6!Readiness
<1>4. kept[u].pub => nvs.pub
  BY <1>2
<1> HIDE DEF nvs, pub, Now
<1>5. /\ \A v \in Uuid : kept'[v] = IF v = u THEN nvs ELSE kept[v]
      /\ \A v \in Uuid : ready'[v] = ready[v] \/ (v = u /\ ready'[v] = Now)
  BY <1>1 DEF Types, SourceType
<1>6. QED
  BY <1>1, <1>2, <1>3, <1>4, <1>5 DEF CallbackKeeps, FaultInv

LEMMA ProvisionedKeeps ==
  ASSUME Types, FaultInv, link \in Uuid, C6!Provisioned(link)
  PROVE  /\ UNCHANGED <<task, healthy, held>>
         /\ \A v \in Uuid : CallbackKeeps(v)
<1> DEFINE nvs == [kept[link] EXCEPT !.provisioned = TRUE]
           Now == C6!Readiness(nvs, bound[link], healthy[link])
<1>1. /\ kept' = [kept EXCEPT ![link] = nvs]
      /\ ready' = [ready EXCEPT ![link] = Now]
      /\ UNCHANGED <<task, healthy, held>>
  BY DEF C6!Provisioned, C6!Refreshed
<1>2. nvs.provisioned /\ nvs.pub = kept[link].pub
  BY DEF Types, SourceType, Nvs
<1>3. Now => nvs.pub /\ healthy[link]
  BY DEF C6!Readiness
<1> HIDE DEF nvs, Now
<1>4. /\ \A v \in Uuid : kept'[v] = IF v = link THEN nvs ELSE kept[v]
      /\ \A v \in Uuid : ready'[v] = IF v = link THEN Now ELSE ready[v]
  BY <1>1 DEF Types, SourceType
<1>5. QED
  BY <1>1, <1>2, <1>3, <1>4 DEF CallbackKeeps, FaultInv

LEMMA CallbackReady ==
  ASSUME ReadyInv, FaultInv, \A v \in Uuid : CallbackKeeps(v),
         UNCHANGED <<task, healthy, held>>, table \subseteq table',
         \A v \in Uuid : kept'[v].provisioned => kept[v].provisioned \/ v \in table'
  PROVE  ReadyInv' /\ FaultInv'
<1>1. ReadyInv'
  BY DEF ReadyInv, CallbackKeeps
<1>2. FaultInv'
  BY DEF FaultInv, CallbackKeeps
<1>3. QED
  BY <1>1, <1>2

\* One step of init or of the worker, a fault, a restart
LEMMA TaskReady ==
  ASSUME Types, ReadyInv, FaultInv, table' = table, NEW u \in Uuid,
         C6!TaskSteps(u) \/ C6!Fault(u) \/ C6!SourceReboot(u)
  PROVE  ReadyInv' /\ FaultInv'
<1> DEFINE Nvs1 == kept[u].provisioned /\ kept[u].pub
           OneReady == /\ ready'[u] => Nvs1
                       /\ task'[u] \in {"store", "store2", "storeFault"} /\ held'[u]
                            => Nvs1
           OneFault ==
             /\ task'[u] \in {"computeFault", "storeFault", "down"} => ~healthy'[u]
             /\ task'[u] = "storeFault" => ~held'[u]
             /\ task'[u] = "down" => ~ready'[u]
<1>1. /\ UNCHANGED kept
      /\ \A v \in Uuid \ {u} :
           /\ task'[v] = task[v] /\ held'[v] = held[v]
           /\ healthy'[v] = healthy[v] /\ ready'[v] = ready[v]
  BY DEF C6!TaskSteps, C6!Decide, C6!SetBinding, C6!Compute, C6!Store, C6!Fault,
    C6!SourceReboot, C6!Goes, Types, SourceType
<1>2. OneReady /\ OneFault
  <2> USE DEF Types, SourceType, ReadyInv, FaultInv
  <2>1. CASE C6!Decide(u)
    <3>1. /\ task'[u] = "bind" /\ ready'[u] = ready[u]
      BY <2>1 DEF C6!Decide, C6!Goes, C6!After
    <3>2. QED
      BY <3>1
  <2>2. CASE C6!SetBinding(u)
    <3>1. task'[u] = "compute" /\ ready'[u] = ready[u]
      BY <2>2 DEF C6!SetBinding, C6!Goes, C6!After
    <3>2. QED
      BY <3>1
  <2>3. CASE C6!Compute(u)
    <3> DEFINE Now == C6!Readiness(kept[u], bound[u], healthy[u])
    <3>1. Now => kept[u].provisioned /\ kept[u].pub /\ healthy[u]
      BY DEF C6!Readiness
    <3> HIDE DEF Now
    <3>2. /\ held'[u] = Now /\ ready'[u] = ready[u] /\ healthy'[u] = healthy[u]
          /\ task[u] \in {"compute", "compute2", "computeFault"}
          /\ task'[u] \in {"store", "store2", "storeFault"}
          /\ task'[u] = "storeFault" => task[u] = "computeFault"
      BY <2>3 DEF C6!Compute, C6!Goes, C6!After, Now
    <3>3. QED
      BY <3>1, <3>2
  <2>4. CASE C6!Store(u)
    <3>1. /\ ready'[u] = held[u] /\ held'[u] = held[u] /\ healthy'[u] = healthy[u]
          /\ task[u] \in {"store", "store2", "storeFault"}
          /\ task'[u] \in {"compute2", "up", "down"}
          /\ task'[u] = "down" => task[u] = "storeFault"
      BY <2>4 DEF C6!Store, C6!Goes, C6!After
    <3>2. QED
      BY <3>1
  <2>5. CASE C6!Fault(u)
    <3>1. task'[u] = "computeFault" /\ ready'[u] = ready[u] /\ ~healthy'[u]
      BY <2>5 DEF C6!Fault
    <3>2. QED
      BY <3>1
  <2>6. CASE C6!SourceReboot(u)
    <3>1. task'[u] = "decide" /\ ~ready'[u]
      BY <2>6 DEF C6!SourceReboot
    <3>2. QED
      BY <3>1
  <2>7. QED
    BY <2>1, <2>2, <2>3, <2>4, <2>5, <2>6 DEF C6!TaskSteps
<1>3. ReadyInv'
  BY <1>1, <1>2 DEF ReadyInv
<1>4. FaultInv'
  BY <1>1, <1>2 DEF FaultInv
<1>5. QED
  BY <1>3, <1>4

LEMMA ReadyInit == Init => ReadyInv /\ FaultInv
BY DEF Init, C6!SourceInit, ReadyInv, FaultInv

LEMMA ReadyNext ==
  Types /\ AttemptInv /\ ReadyInv /\ FaultInv /\ [Next]_vars => ReadyInv' /\ FaultInv'
<1> SUFFICES ASSUME Types, AttemptInv, ReadyInv, FaultInv, [Next]_vars
             PROVE  ReadyInv' /\ FaultInv'
  OBVIOUS
<1> DEFINE NodesKept == UNCHANGED sourceVars /\ table \subseteq table'
<1>1. NodesKept => ReadyInv' /\ FaultInv'
  BY DEF ReadyInv, FaultInv, sourceVars
<1>2. CASE SetUp \/ EventHandled \/ GatewayRestarts
  BY <1>1, <1>2 DEF SetUp, Gateway!EnabledBound, Gateway!EnabledUnbound,
    Gateway!KeyAdded, Gateway!ModelBound, Gateway!stored, EventHandled,
    Gateway!Complete, Gateway!EndAttempt, GatewayRestarts, Gateway!GatewayReboot
<1>3. CASE LinkOpens \/ LinkRefused \/ LinkFails \/ LinkCloses
  BY <1>1, <1>3 DEF LinkOpens, LinkRefused, LinkFails, LinkCloses, gatewayVars
<1>4. CASE LinkCompletes
  <2>1. link \in Uuid /\ C6!Provisioned(link) /\ table' = table \cup {link}
    BY <1>4, LinkIsDevice DEF LinkCompletes, Gateway!StackProvisions
  <2>2. \A v \in Uuid : CallbackKeeps(v)
    BY <2>1, ProvisionedKeeps
  <2>3. QED
    BY <2>1, <2>2, ProvisionedKeeps, CallbackReady DEF CallbackKeeps
<1>5. ASSUME NEW u \in Uuid, Advertises(u) \/ MessageLost(u)
      PROVE  ReadyInv' /\ FaultInv'
  BY <1>1, <1>5 DEF Advertises, MessageLost, Gateway!StartAttempt, Gateway!stored,
    gatewayVars
<1>6. ASSUME NEW u \in Uuid, StatusArrives(u) \/ TimesOut(u)
      PROVE  ReadyInv' /\ FaultInv'
  BY <1>1, <1>6 DEF StatusArrives, TimesOut, Gateway!StepSucceeds,
    Gateway!StepRefused, Gateway!StepTimesOut, Gateway!stored, gatewayVars
<1>7. ASSUME NEW u \in Uuid, RequestArrives(u)
      PROVE  ReadyInv' /\ FaultInv'
  <2>1. table' = table
    BY <1>7, RequestEffect DEF gatewayVars
  <2>2. CASE UNCHANGED sourceVars
    BY <1>1, <2>1, <2>2
  <2>3. CASE C6!Applies(u, Chain[request[u].step], request[u].key)
    BY <2>1, <2>3, AppliesKeeps, CallbackReady
  <2>4. QED
    BY <1>7, <2>2, <2>3, RequestEffect
<1>8. ASSUME NEW u \in Uuid, TaskWorks(u) \/ TransportFails(u) \/ SourceRestarts(u)
      PROVE  ReadyInv' /\ FaultInv'
  BY <1>8, TaskReady DEF TaskWorks, TransportFails, SourceRestarts, gatewayVars
<1>9. CASE UNCHANGED vars
  BY <1>1, <1>9 DEF vars, gatewayVars
<1>10. QED
  BY <1>2, <1>3, <1>4, <1>5, <1>6, <1>7, <1>8, <1>9 DEF Next

LEMMA ReadyInvariant == Spec => [](ReadyInv /\ FaultInv)
BY ReadyInit, ReadyNext, TypesInvariant, AttemptInvariant, PTL DEF Spec

-----------------------------------------------------------------------------
(* The properties *)

\* Whatever is lost or restarts, no two registered devices share an ID, an
\* address or a Bluetooth address: the check when a device advertises
\* (RECV_UNPROV_ADV_PKT) still holds when its link completes, because one
\* attempt runs at a time and the table grows by its device only.
THEOREM IdentitiesUnique == Spec => []OneOwnerEach
<1>1. AttemptInv => OneOwnerEach
  BY DEF AttemptInv, TableOwners, OneOwnerEach
<1>2. QED
  BY <1>1, AttemptInvariant, PTL

\* A device that the stack has provisioned is registered or its COMPLETE is
\* still to be handled: the close of a link, also of one that was refused,
\* never drops the attempt of another device (PROV_COMPLETE, PROV_LINK_CLOSE).
THEOREM CompletionsRegistered == Spec => []CompletionsKept
<1>1. AttemptInv => CompletionsKept
  BY DEF AttemptInv
<1>2. QED
  BY <1>1, AttemptInvariant, PTL

\* Every AppKey a C6 has been given is the one of the gateway's own model,
\* wherever the gateway was in its key set-up when it restarted, and however
\* late a request arrives (provisioning_callback, load_or_create_app_key).
THEOREM KeysMatch == Spec => []KeysAgree
<1>1. KeyInv => KeysAgree
  BY DEF KeyInv, KeysAgree
<1>2. QED
  BY <1>1, KeyInvariant, PTL

\* A C6 that says READY is registered, has the gateway's key and has applied
\* every step of the chain: publication is asked for last, and a readiness
\* that init computed before a callback rests on what NVS then held
\* (refresh_ready_state, send_config_step).
THEOREM ReadyIsConfigured == Spec => []ReadyMeansConfigured
<1>1. ASSUME Types, KeyInv, ChainInv, ReadyInv
      PROVE  ReadyMeansConfigured
  <2> SUFFICES ASSUME NEW u \in Uuid, ready[u]
               PROVE  /\ u \in table
                      /\ kept[u].key = stackKey
                      /\ applied[u] = {Chain[n] : n \in DOMAIN Chain}
    BY DEF ReadyMeansConfigured, Chain
  <2>1. kept[u].provisioned /\ kept[u].pub /\ u \in table
    BY <1>1 DEF ReadyInv
  <2>2. applied[u] = Steps(LastStep)
    <3>1. Steps(LastStep) \subseteq applied[u]
      BY <1>1, <2>1 DEF ChainInv
    <3>2. applied[u] \subseteq Steps(LastStep)
      BY <1>1 DEF Types, SourceType
    <3>3. QED
      BY <3>1, <3>2
  <2>3. "AppKeyAdd" \in applied[u]
    BY <2>2, ChainFacts DEF LastStep
  <2>4. kept[u].key = stackKey
    BY <1>1, <2>3 DEF KeyInv
  <2>5. QED
    BY <2>1, <2>2, <2>4, ChainFacts
<1>2. QED
  BY <1>1, TypesInvariant, KeyInvariant, ChainInvariant, ReadyInvariant, PTL

\* After a fault a C6 is not READY until it restarts: neither the worker's
\* refresh nor that of a callback between its two sections sees it healthy
\* (mark_transport_fault, refresh_ready_state).
THEOREM FaultNeverReady == Spec => []FaultStaysNotReady
<1>1. FaultInv => FaultStaysNotReady
  BY DEF FaultInv, FaultStaysNotReady
<1>2. QED
  BY <1>1, ReadyInvariant, PTL
=============================================================================
