-------------------------- MODULE GatewayProvisioner --------------------------
(***************************************************************************)
(* The gateway as the Mesh Provisioner (mesh_image_gateway.c): the AppKey, *)
(* the registry of C6 nodes, one provisioning attempt at a time and the    *)
(* chain of configuration messages that makes a node usable.  All of its   *)
(* callbacks run in the one Bluetooth task.  A Device UUID is its two      *)
(* varying fields; the address of a node stands for its ID, which it       *)
(* determines.  Definitions named Bug... are faults for the mutation of    *)
(* the definition that follows them.                                       *)
(***************************************************************************)
EXTENDS Integers, Sequences, FiniteSets

CONSTANTS
  Uuid,      \* records [id, bt]
  MaxNodes,  \* CONFIG_SERVER_MAX_NODES
  Retries,   \* CONFIG_RETRIES
  NoUuid, NoKey

VARIABLES
  table,        \* the Mesh stack's node table, in NVS
  storedKey,    \* the AppKey of KEY_NVS_NAMESPACE
  stackKey,     \* the AppKey of the Mesh stack, in NVS
  modelBound,   \* the gateway's model is bound to it, in NVS
  setup,        \* the completion event that the local set-up waits for
  appKey,       \* s_app_key
  gatewayReady, \* s_gateway_ready
  nodes,        \* s_nodes: by UUID, the pending_opcode and retries
  attempt,      \* s_pending_device_uuid while s_provisioning_active
  asked         \* the Mesh client: the step it waits for, by UUID; 0: none

stored == <<table, storedKey, stackKey, modelBound>>
registry == <<nodes, asked>>
gatewayVars == <<stored, registry, setup, appKey, gatewayReady, attempt>>

BugChain == <<"AppKeyAdd", "ModelAppBind", "ModelPubSet", "RelaySet",
              "NetworkTransmitSet", "DefaultTtlSet">>

\* The order of the configuration chain
Chain == <<"AppKeyAdd", "ModelAppBind", "RelaySet", "NetworkTransmitSet",
           "DefaultTtlSet", "ModelPubSet">>

Fresh == [pending |-> 0, retries |-> 0]

SameIdentity(u, v) == u.id = v.id \/ u.bt = v.bt

\* restore_provisioned_nodes: store_node takes every entry that collides with
\* no other, as none does (OneOwnerEach).
Restored == [u \in table |-> Fresh]

GatewayInit ==
  /\ table = {} /\ storedKey = NoKey /\ stackKey = NoKey /\ modelBound = FALSE
  /\ setup = "enable" /\ appKey = NoKey /\ gatewayReady = FALSE
  /\ nodes = <<>> /\ attempt = NoUuid
  /\ asked = [u \in Uuid |-> 0]

\* The gateway restarts with what NVS holds.
GatewayReboot ==
  /\ setup' = "enable" /\ appKey' = NoKey /\ gatewayReady' = FALSE
  /\ nodes' = Restored /\ attempt' = NoUuid
  /\ asked' = [u \in Uuid |-> 0]
  /\ UNCHANGED stored

-----------------------------------------------------------------------------
(* The AppKey: enable, create or load, add, bind *)

\* resume_node_configuration: the first step of the chain, to all of chosen
Resume(chosen) ==
  /\ nodes' = [u \in DOMAIN nodes |->
                 IF u \in chosen THEN [pending |-> 1, retries |-> 0] ELSE nodes[u]]
  /\ asked' = [u \in Uuid |-> IF u \in chosen THEN 1 ELSE asked[u]]

\* mark_gateway_ready
MarkReady ==
  /\ gatewayReady' = TRUE
  /\ IF gatewayReady THEN UNCHANGED registry
     ELSE Resume({u \in DOMAIN nodes : nodes[u].pending = 0})

BugBoundKey == appKey

\* The key of a model that is bound is the stack's, not the blob's.
BoundKey == stackKey

EnabledBound ==
  /\ setup = "enable" /\ modelBound
  /\ appKey' = BoundKey
  /\ setup' = "done"
  /\ MarkReady
  /\ UNCHANGED <<stored, attempt>>

BugKeyToUse(key) == key

\* load_or_create_app_key: the blob, or a key made up now and stored
KeyToUse(key) == IF storedKey = NoKey THEN key ELSE storedKey

\* random is what esp_fill_random yields.
EnabledUnbound(random) ==
  /\ setup = "enable" /\ ~modelBound
  /\ appKey' = KeyToUse(random)
  /\ storedKey' = KeyToUse(random)
  /\ setup' = "add"
  /\ UNCHANGED <<table, stackKey, modelBound, registry, gatewayReady, attempt>>

\* The stack adds the key, again if it is the same; the model is bound next.
KeyAdded ==
  /\ setup = "add"
  /\ stackKey \in {NoKey, appKey}
  /\ stackKey' = appKey
  /\ setup' = "bind"
  /\ UNCHANGED <<table, storedKey, modelBound, registry, appKey, gatewayReady,
                 attempt>>

ModelBound ==
  /\ setup = "bind"
  /\ modelBound' = TRUE
  /\ setup' = "done"
  /\ MarkReady
  /\ UNCHANGED <<table, storedKey, stackKey, appKey, attempt>>

-----------------------------------------------------------------------------
(* Provisioning *)

BugUnowned(u) == u \notin table \cup DOMAIN nodes

\* Neither the ID, its address nor the Bluetooth address is registered.
Unowned(u) == \A v \in table \cup DOMAIN nodes : ~SameIdentity(u, v)

\* An advertisement of u, and the attempt it starts
StartAttempt(u) ==
  /\ gatewayReady
  /\ Unowned(u)
  /\ attempt = NoUuid
  /\ Cardinality(DOMAIN nodes) < MaxNodes
  /\ attempt' = u
  /\ UNCHANGED <<stored, registry, setup, appKey, gatewayReady>>

\* PROV_LINK_CLOSE, or PROV_DEV_WITH_ADDR_COMP with an error
EndAttempt ==
  /\ attempt' = NoUuid
  /\ UNCHANGED <<stored, registry, setup, appKey, gatewayReady>>

\* The Mesh stack: the link has provisioned u.
StackProvisions(u) ==
  /\ table' = table \cup {u}
  /\ UNCHANGED <<storedKey, stackKey, modelBound, registry, setup, appKey,
                 gatewayReady, attempt>>

BugAttemptAfter(u) == NoUuid

\* PROV_COMPLETE leaves the attempt to PROV_LINK_CLOSE.
AttemptAfter(u) == attempt

\* store_node succeeds; the chain starts.
Complete(u) ==
  /\ IF attempt = u
     THEN /\ nodes' = [v \in DOMAIN nodes \cup {u} |->
                         IF v = u THEN [pending |-> 1, retries |-> 0]
                         ELSE nodes[v]]
          /\ asked' = [asked EXCEPT ![u] = 1]
          /\ attempt' = AttemptAfter(u)
     ELSE UNCHANGED <<registry, attempt>>
  /\ UNCHANGED <<stored, setup, appKey, gatewayReady>>

-----------------------------------------------------------------------------
(* config_client_callback *)

\* The stack's client gives up on step n after CONFIG_TIMEOUT_MS.
StepTimesOut(u) ==
  /\ asked[u] # 0
  /\ IF nodes[u].retries < Retries
     THEN UNCHANGED asked
     ELSE asked' = [asked EXCEPT ![u] = 0]
  /\ nodes' = [nodes EXCEPT ![u].retries = @ + 1]
  /\ UNCHANGED <<stored, setup, appKey, gatewayReady, attempt>>

\* A status for the step the client waits for: the next one is sent.
StepSucceeds(u, n) ==
  /\ asked[u] = n /\ n # 0
  /\ nodes' = [nodes EXCEPT ![u] =
                 [pending |-> IF n = Len(Chain) THEN 0 ELSE n + 1, retries |-> 0]]
  /\ asked' = [asked EXCEPT ![u] = IF n = Len(Chain) THEN 0 ELSE n + 1]
  /\ UNCHANGED <<stored, setup, appKey, gatewayReady, attempt>>

\* The steps whose answer holds a status; the others cannot fail.
Reported == {"AppKeyAdd", "ModelAppBind", "ModelPubSet"}

\* A status other than success ends the chain, as does the last retry.
StepRefused(u, n) ==
  /\ asked[u] = n /\ n # 0
  /\ Chain[n] \in Reported
  /\ asked' = [asked EXCEPT ![u] = 0]
  /\ UNCHANGED <<stored, nodes, setup, appKey, gatewayReady, attempt>>

\* The chain has ended and was not finished.
GivenUp(u) ==
  gatewayReady /\ u \in DOMAIN nodes /\ nodes[u].pending # 0 /\ asked[u] = 0
================================================================================
