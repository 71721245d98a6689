---------------------------- MODULE MCImageSource ----------------------------
(***************************************************************************)
(* One image of two chunks and one clock query, jobs without end.          *)
(***************************************************************************)
EXTENDS ImageSource

MCImage == {[detected |-> 5, len |-> 3, crc |-> "a"]}
MCBytes == [c \in {"a"} |-> [i \in {0, 1} |-> i]]
=============================================================================
