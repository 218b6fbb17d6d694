-------------------------- MODULE ReliableDelivery --------------------------
(***************************************************************************)
(* What a reliable one-way sequence promises its two applications, without *)
(* numbers, retransmissions or acknowledgements: a message is delivered at *)
(* most once and only after it was submitted, and it is confirmed to the   *)
(* sender only when it was delivered.  Delivery itself is not promised: a  *)
(* sequence may end before.                                                *)
(***************************************************************************)
CONSTANTS Message,      \* what the application can submit
          Payload       \* the messages that have something to deliver

VARIABLES submitted, delivered, confirmed

vars == <<submitted, delivered, confirmed>>

Init == submitted = {} /\ delivered = {} /\ confirmed = {}

Submit(m) ==
  /\ m \notin submitted
  /\ submitted' = submitted \cup {m}
  /\ UNCHANGED <<delivered, confirmed>>

Deliver(m) ==
  /\ m \in submitted \cap Payload
  /\ m \notin delivered
  /\ delivered' = delivered \cup {m}
  /\ UNCHANGED <<submitted, confirmed>>

(***************************************************************************)
(* One acknowledgement can confirm several messages.                       *)
(***************************************************************************)
Confirm(batch) ==
  /\ batch \cap Payload \subseteq delivered
  /\ confirmed' = confirmed \cup batch
  /\ UNCHANGED <<submitted, delivered>>

Next ==
  \/ \E m \in Message : Submit(m) \/ Deliver(m)
  \/ \E batch \in SUBSET submitted : Confirm(batch)

Spec == Init /\ [][Next]_vars
=============================================================================
