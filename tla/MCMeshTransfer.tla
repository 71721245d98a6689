--------------------------- MODULE MCMeshTransfer ---------------------------
(***************************************************************************)
(* Two images of two chunks that share the first one; "b" is no 224x224    *)
(* JPEG and is rejected.                                                   *)
(***************************************************************************)
EXTENDS MeshTransfer

MCBytes ==
  [c \in Crc |->
     [i \in WireIndex |->
        IF i # 1 THEN "head" ELSE IF c = "a" THEN "tail-a" ELSE "tail-b"]]

MCLen == [c \in Crc |-> 3]
MCImage == {[detected |-> 5, len |-> 3, crc |-> c] : c \in Crc}

\* No guard reads the replies of the last step.
View ==
  <<session, jpeg, cache, nextCache, idleReserved, publication,
    sourceVars, network, history>>
=============================================================================
