--------------------------- MODULE MCProviderStore ---------------------------
(* Instances of ProviderStore for TLC. *)
EXTENDS ProviderStore

CONSTANTS p1, p2, w1, w2, apns, adm, a1, a2, b1, d1

OneProc == [w \in Workers |-> p1]
TwoProcs == [w \in Workers |-> IF w = w1 THEN p1 ELSE p2]

(* a1 and a2 are providers of one type, b1 of another. *)
MCTypeOf == [p \in Providers |-> IF p = b1 THEN adm ELSE apns]
MCDevType == [d \in Devices |-> apns]
=============================================================================
