-------------------------- MODULE MCConsistencyCheck --------------------------
(* ConsistencyCheck for TLC: alice has an apns device, the service may have   *)
(* two providers of one type, and the binding first names a provider of the   *)
(* wrong type, which old data can hold.                                       *)
EXTENDS ConsistencyCheck

CONSTANTS p1, w1, w2, alice, apns, fcm, d1, q1, q2, q3, q4

MCProcOf == [w \in Workers |-> p1]
MCTypeOf == [d \in Devices |-> apns]
MCHome == [d \in Devices |-> alice]
MCTypeOfPsp == [p \in Providers |-> IF p \in {q3, q4} THEN fcm ELSE apns]
MCFirstBound == [d \in Devices |-> q3]
=============================================================================
