----------------------------- MODULE MCDelivery -----------------------------
(* Instances of Delivery for TLC. *)
EXTENDS Delivery, TLC

CONSTANTS u1, u2, c1, c2, b1, b2

\* Run delivery_fence: u1 has the one connection; u2 is a participant of the bus.
FenceOwner == c1 :> u1
FenceFrom  == (b1 :> u2) @@ (b2 :> External)

\* Runs delivery_send, delivery_live: u1 is on two sockets, or u1 and u2 on one each.
SameOwner == (c1 :> u1) @@ (c2 :> u1)
TwoOwners == (c1 :> u1) @@ (c2 :> u2)
NoInbound == [b \in Inbound |-> External]

\* 2 and 3 share a millisecond: the later mint of the two may sort below.
MCMs == [i \in Ids |-> i \div 2]
=============================================================================
