------------------------- MODULE MCSubscriptionStore -------------------------
(* Instances of SubscriptionStore for TLC. *)
EXTENDS SubscriptionStore

CONSTANTS p1, p2, w1, w2, alice, bob, list, apns, fcm, d1, d2, d3, v1, v2

OneProc == [w \in Workers |-> p1]
TwoProcs == [w \in Workers |-> IF w = w1 THEN p1 ELSE p2]

(* alice has an apns and an fcm device, bob an fcm one. *)
MCTypeOf == [d \in Devices |-> IF d = d1 THEN apns ELSE fcm]
MCHome == [d \in Devices |-> IF d = d3 THEN bob ELSE alice]

(* bob's device was subscribed with a list of subscribers: it is stored      *)
(* under the first of them, and names the list.                             *)
MCFixedSub == [d \in Devices |-> IF d = d3 THEN list ELSE alice]
=============================================================================
