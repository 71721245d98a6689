---------------------------- MODULE ImageDelivery ----------------------------
(***************************************************************************)
(* What the Mesh image transfer promises the C6's application, with the    *)
(* protocol forgotten: an accepted image stays owed one report; an image   *)
(* the gateway verifies was accepted from that C6, and the report says     *)
(* acknowledged only if the gateway verified that very image.  A failed    *)
(* image may still be verified, before or after its report: the answer can *)
(* be lost.                                                                *)
(***************************************************************************)
CONSTANT Item  \* images under their frame IDs

VARIABLES
  accepted,  \* every image the source took over
  owed,      \* those it has still to report
  verified,  \* those the gateway checked and completed
  acked      \* those it reported as acknowledged by the gateway

vars == <<accepted, owed, verified, acked>>

Init == accepted = {} /\ owed = {} /\ verified = {} /\ acked = {}

Accept(i) ==
  /\ i \notin accepted
  /\ accepted' = accepted \cup {i}
  /\ owed' = owed \cup {i}
  /\ UNCHANGED <<verified, acked>>

Verify(i) ==
  /\ i \in accepted
  /\ verified' = verified \cup {i}
  /\ UNCHANGED <<accepted, owed, acked>>

Acknowledge(i) ==
  /\ i \in owed
  /\ i \in verified
  /\ owed' = owed \ {i}
  /\ acked' = acked \cup {i}
  /\ UNCHANGED <<accepted, verified>>

GiveUp(i) ==
  /\ i \in owed
  /\ owed' = owed \ {i}
  /\ UNCHANGED <<accepted, verified, acked>>

\* The source restarts and with it everything that waited for it.
Restart ==
  /\ owed' = {}
  /\ UNCHANGED <<accepted, verified, acked>>

Next ==
  \/ \E i \in Item : Accept(i) \/ Verify(i) \/ Acknowledge(i) \/ GiveUp(i)
  \/ Restart

Spec == Init /\ [][Next]_vars
=============================================================================
