----------------------------- MODULE MCMeshSetup -----------------------------
(* The devices of the model-checked instance: two that were given the same  *)
(* ID, and a third.                                                         *)
EXTENDS MeshSetup

MCUuid == {[id |-> 1, bt |-> "a"], [id |-> 1, bt |-> "b"], [id |-> 2, bt |-> "c"]}
================================================================================
