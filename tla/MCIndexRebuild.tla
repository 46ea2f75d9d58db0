---------------------------- MODULE MCIndexRebuild ----------------------------
(* IndexRebuild for TLC: alice has an apns and an fcm device, bob an fcm one. *)
EXTENDS IndexRebuild, TLC

CONSTANTS p1, w1, alice, bob, apns, fcm, d1, d2, d3

MCProcOf == [w \in Workers |-> p1]
MCTypeOf == [d \in Devices |-> IF d = d1 THEN apns ELSE fcm]
MCHome == [d \in Devices |-> IF d = d3 THEN bob ELSE alice]
Symmetry == Permutations(Rebuilders)
=============================================================================
