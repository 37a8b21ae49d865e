------------------------- MODULE MC_SubscriberLease -------------------------
(***************************************************************************)
(* Subscriber leases for TLC: two streams of one tenant, on two channels,     *)
(* with room for one of them.                                                *)
(***************************************************************************)
EXTENDS SubscriberLease

CONSTANTS c1, c2, chA, chB

MCChannelOf == [c \in Connection |-> IF c = c1 THEN chA ELSE chB]
=============================================================================
