-------------------------- MODULE MCImageReassembly --------------------------
(***************************************************************************)
(* Images for the model-checked instances of ImageReassembly.  Buffers     *)
(* hold 4 bytes, DATA messages 2, so that an image of 3 bytes has a full   *)
(* and a short chunk.  Images "a" and "b" share their first chunk, as the  *)
(* headers of two JPEGs of one encoder do; "b" is not a 224x224 JPEG.      *)
(***************************************************************************)
EXTENDS ImageReassembly

MCBytes ==
  [c \in Crc |->
     [i \in WireIndex |->
        IF i # 1 THEN "head" ELSE IF c = "a" THEN "tail-a" ELSE "tail-b"]]

\* Three bytes, two chunks.
MCTwoChunks == [c \in Crc |-> 3]
=============================================================================
