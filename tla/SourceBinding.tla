---------------------------- MODULE SourceBinding ----------------------------
(***************************************************************************)
(* How a C6 comes to be READY (ble_mesh_image_source.c): its provisioning, *)
(* the binding of its model, its publication and the readiness computed    *)
(* from them.  A C6 has one core: the callbacks of the Bluetooth task run  *)
(* to their end between two steps of the main task (init) or the worker (a *)
(* fault), which they outrank.  There is one subnet and one AppKey index,  *)
(* so that the searches of both caches and of the local keys have one      *)
(* possible result.  s_binding_generation is in ImageSource.  Definitions  *)
(* named Bug... are faults for the mutation of the next definition.        *)
(***************************************************************************)
EXTENDS Integers

CONSTANTS Uuid, NoKey

VARIABLES
  kept,     \* by C6, in NVS: provisioned, key, model (bound), pub (set)
  applied,  \* by C6: the configuration steps it has applied
  task,     \* by C6: the step of init, or of the worker after a fault
  bound,    \* by C6: s_mesh_bound
  healthy,  \* by C6: s_transport_healthy
  ready,    \* by C6: s_ready
  held      \* by C6: what that task has decided and not yet stored

sourceVars == <<kept, applied, task, bound, healthy, ready, held>>

\* The C6s have started with nothing in NVS.
SourceInit ==
  /\ kept = [u \in Uuid |-> [provisioned |-> FALSE, key |-> NoKey,
                             model |-> FALSE, pub |-> FALSE]]
  /\ applied = [u \in Uuid |-> {}]
  /\ task = [u \in Uuid |-> "up"]
  /\ bound = [u \in Uuid |-> FALSE] /\ healthy = [u \in Uuid |-> TRUE]
  /\ ready = [u \in Uuid |-> FALSE] /\ held = [u \in Uuid |-> FALSE]

SourceReboot(u) ==
  /\ task' = [task EXCEPT ![u] = "decide"]
  /\ bound' = [bound EXCEPT ![u] = FALSE]
  /\ healthy' = [healthy EXCEPT ![u] = TRUE]
  /\ ready' = [ready EXCEPT ![u] = FALSE]
  /\ held' = [held EXCEPT ![u] = FALSE]
  /\ UNCHANGED <<kept, applied>>

BugReadiness(nvs, isBound, isHealthy) == nvs.provisioned /\ isBound /\ nvs.pub

\* The first section of refresh_ready_state
Readiness(nvs, isBound, isHealthy) ==
  nvs.provisioned /\ isBound /\ isHealthy /\ nvs.pub

-----------------------------------------------------------------------------
(* The end of ble_mesh_image_source_init, with the Mesh stack running:       *)
(* restore_binding_from_mesh, and a refresh of its own.  The worker:         *)
(* mark_transport_fault.  Both refresh_ready_state in two sections.          *)

\* A saved binding is used if the stack's state confirms it, and inferred
\* from that state otherwise: with one subnet, to the same.
Restorable(nvs) == nvs.provisioned /\ nvs.model /\ nvs.key # NoKey

After == [decide |-> "bind", bind |-> "compute",
          compute |-> "store", store |-> "compute2",
          compute2 |-> "store2", store2 |-> "up",
          computeFault |-> "storeFault", storeFault |-> "down"]

Goes(u) == task' = [task EXCEPT ![u] = After[task[u]]]

Decide(u) ==
  /\ task[u] = "decide"
  /\ held' = [held EXCEPT ![u] = Restorable(kept[u])]
  /\ Goes(u)
  /\ UNCHANGED <<kept, applied, bound, healthy, ready>>

\* set_runtime_binding
SetBinding(u) ==
  /\ task[u] = "bind"
  /\ bound' = [bound EXCEPT ![u] = held[u]]
  /\ Goes(u)
  /\ UNCHANGED <<kept, applied, healthy, ready, held>>

Compute(u) ==
  /\ task[u] \in {"compute", "compute2", "computeFault"}
  /\ held' = [held EXCEPT ![u] = Readiness(kept[u], bound[u], healthy[u])]
  /\ Goes(u)
  /\ UNCHANGED <<kept, applied, bound, healthy, ready>>

\* set_ready_state
Store(u) ==
  /\ task[u] \in {"store", "store2", "storeFault"}
  /\ ready' = [ready EXCEPT ![u] = held[u]]
  /\ Goes(u)
  /\ UNCHANGED <<kept, applied, bound, healthy, held>>

TaskSteps(u) == Decide(u) \/ SetBinding(u) \/ Compute(u) \/ Store(u)

\* A send needs a READY that was published, so that init has returned long
\* before the first fault.
Fault(u) ==
  /\ task[u] = "up" /\ ready[u]
  /\ healthy' = [healthy EXCEPT ![u] = FALSE]
  /\ task' = [task EXCEPT ![u] = "computeFault"]
  /\ UNCHANGED <<kept, applied, bound, ready, held>>

\* A callback now comes between a decision and its use.
Undecided(u) == task[u] \in {"bind", "store", "store2", "storeFault"}

-----------------------------------------------------------------------------
(* The Bluetooth task *)

Refreshed(u, nvs, isBound) ==
  ready' = [ready EXCEPT ![u] = Readiness(nvs, isBound, healthy[u])]

\* NODE_PROV_COMPLETE
Provisioned(u) ==
  LET nvs == [kept[u] EXCEPT !.provisioned = TRUE]
  IN  /\ kept' = [kept EXCEPT ![u] = nvs]
      /\ Refreshed(u, nvs, bound[u])
      /\ UNCHANGED <<applied, task, bound, healthy, held>>

\* A configuration message that is not refused; the stack's state changes
\* first, then config_server_callback follows it.
Applies(u, step, key) ==
  LET nvs == [kept[u] EXCEPT
                !.key = IF step = "AppKeyAdd" THEN key ELSE @,
                !.model = @ \/ step = "ModelAppBind",
                !.pub = @ \/ step = "ModelPubSet"]
      isBound == bound[u] \/ step = "ModelAppBind"
  IN  /\ kept' = [kept EXCEPT ![u] = nvs]
      /\ bound' = [bound EXCEPT ![u] = isBound]
      /\ IF step \in {"ModelAppBind", "ModelPubSet"}
         THEN Refreshed(u, nvs, isBound)
         ELSE UNCHANGED ready
      /\ applied' = [applied EXCEPT ![u] = @ \cup {step}]
      /\ UNCHANGED <<task, healthy, held>>

\* The stack has another key under the index, or none to bind.
Refuses(u, step, key) ==
  \/ step = "AppKeyAdd" /\ kept[u].key \notin {NoKey, key}
  \/ step \in {"ModelAppBind", "ModelPubSet"} /\ kept[u].key = NoKey
================================================================================
