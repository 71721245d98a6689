----------------------------- MODULE MCSerialLine -----------------------------
(* The model-checked instances of the serial line: the first JPEG has the   *)
(* magic of a record among its bytes. The bytes before it are one with the  *)
(* header: the parser passes over both alike. It does not end a JPEG, whose *)
(* end marker is checked before it is written.                              *)
EXTENDS SerialLine, TLC

MCPayload ==
  (1 :> <<<<"magic", 0, 0>>, <<"body", 1, 1>>>>) @@
  (2 :> <<<<"body", 2, 1>>>>) @@
  (3 :> <<<<"body", 3, 1>>>>)
================================================================================
